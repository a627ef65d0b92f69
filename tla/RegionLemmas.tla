---------------------------- MODULE RegionLemmas ----------------------------
(***************************************************************************)
(* What Bytes's operators on slices return: how often a list of slices     *)
(* refers to a region, how many references all objects together have, and *)
(* the data that a list of slices reads as.                                *)
(***************************************************************************)
EXTENDS Bytes, FiniteSetTheorems, SequenceTheorems, TLAPS

Object == [type : Type, slices : Seq(Region)]

-----------------------------------------------------------------------------
(* References of one object.                                                *)

\* The references of a list of slices are finitely many.
LEMMA AtFinite ==
    ASSUME NEW s \in Seq(Region), NEW r
    PROVE  IsFiniteSet(At(s, r)) /\ At(s, r) \subseteq 1..Len(s)
<1>1. At(s, r) \subseteq 1..Len(s) /\ IsFiniteSet(1..Len(s))
  BY FS_Interval DEF At
<1> QED BY <1>1, FS_Subset

LEMMA CountType ==
    ASSUME NEW s \in Seq(Region), NEW r
    PROVE  Count(s, r) \in Nat /\ (Count(s, r) = 0 <=> \A i \in 1..Len(s) : s[i] # r)
<1>1. IsFiniteSet(At(s, r))
  BY AtFinite
<1>2. Count(s, r) \in Nat /\ (Count(s, r) = 0 <=> At(s, r) = {})
  BY <1>1, FS_CardinalityType, FS_EmptySet DEF Count
<1> QED BY <1>2 DEF At

LEMMA CountEmpty == ASSUME NEW r PROVE Count(<<>>, r) = 0
<1>1. At(<<>>, r) = {}
  BY DEF At
<1> QED BY <1>1, FS_EmptySet DEF Count

LEMMA CountAppend ==
    ASSUME NEW s \in Seq(Region), NEW x \in Region, NEW r
    PROVE  Count(Append(s, x), r) = Count(s, r) + (IF x = r THEN 1 ELSE 0)
<1>1. IsFiniteSet(At(s, r)) /\ Len(s) + 1 \notin At(s, r)
  BY AtFinite
<1>2. CASE x = r
  <2>1. At(Append(s, x), r) = At(s, r) \cup {Len(s) + 1}
    BY <1>2 DEF At
  <2> QED BY <1>1, <1>2, <2>1, FS_AddElement DEF Count
<1>3. CASE x # r
  <2>1. At(Append(s, x), r) = At(s, r)
    BY <1>3 DEF At
  <2> QED BY <1>1, <1>3, <2>1, FS_CardinalityType DEF Count
<1> QED BY <1>2, <1>3

LEMMA CountOne ==
    ASSUME NEW x \in Region, NEW r
    PROVE  Count(<<x>>, r) = IF x = r THEN 1 ELSE 0
<1>1. <<x>> = Append(<<>>, x) /\ <<>> \in Seq(Region)
  OBVIOUS
<1>2. Count(Append(<<>>, x), r) = Count(<<>>, r) + (IF x = r THEN 1 ELSE 0)
  BY <1>1, CountAppend
<1> QED BY <1>1, <1>2, CountEmpty

LEMMA CountConcat ==
    ASSUME NEW s \in Seq(Region), NEW t \in Seq(Region), NEW r
    PROVE  Count(s \o t, r) = Count(s, r) + Count(t, r)
<1> DEFINE n == Len(s)
           Moved == {j \in 1..Len(s \o t) : j > n /\ (s \o t)[j] = r}
           f == [i \in At(t, r) |-> i + n]
<1>1. /\ n \in Nat /\ Len(s \o t) = n + Len(t)
      /\ \A i \in 1..n : (s \o t)[i] = s[i]
      /\ \A i \in 1..Len(t) : (s \o t)[i + n] = t[i]
  OBVIOUS
<1>2. At(s \o t, r) = At(s, r) \cup Moved /\ At(s, r) \cap Moved = {}
  BY <1>1 DEF At
<1>3. f \in Bijection(At(t, r), Moved)
  <2>1. f \in [At(t, r) -> Moved]
    BY <1>1 DEF At
  <2>2. \A i, j \in At(t, r) : f[i] = f[j] => i = j
    BY <1>1 DEF At
  <2>3. ASSUME NEW j \in Moved PROVE \E i \in At(t, r) : f[i] = j
    <3>1. j - n \in 1..Len(t) /\ j = (j - n) + n
      BY <1>1
    <3>2. j - n \in At(t, r)
      BY <1>1, <3>1 DEF At
    <3> QED BY <3>1, <3>2
  <2> QED BY <2>1, <2>2, <2>3 DEF Bijection, Injection, Surjection, IsInjective
<1>4. IsFiniteSet(At(s, r)) /\ IsFiniteSet(At(t, r))
  BY AtFinite
<1>5. IsFiniteSet(Moved) /\ Cardinality(Moved) = Count(t, r)
  BY <1>3, <1>4, FS_Bijection DEF ExistsBijection, Count
<1>6. Cardinality(At(s, r) \cup Moved)
        = Cardinality(At(s, r)) + Cardinality(Moved) - Cardinality(At(s, r) \cap Moved)
  BY <1>4, <1>5, FS_Union
<1> HIDE DEF Moved, f, n
<1>7. Cardinality(At(s, r) \cap Moved) = 0
  BY <1>2, FS_EmptySet
<1> QED BY <1>2, <1>4, <1>5, <1>6, <1>7, FS_CardinalityType DEF Count

-----------------------------------------------------------------------------
(* References of all objects.                                               *)

Refs(v, r) == Cardinality(Holders(v, Handle, r))

LEMMA HoldersFinite ==
    ASSUME NEW v \in [Handle -> Object], NEW H \in SUBSET Handle, NEW r
    PROVE  IsFiniteSet(Holders(v, H, r))
<1> DEFINE Pairs(h) == {h} \X At(v[h].slices, r)
           f == [h \in H |-> Pairs(h)]
           T == {Pairs(h) : h \in H}
<1>1. IsFiniteSet(H)
  BY Objects, FS_Subset
<1>2. f \in Surjection(H, T)
  BY DEF Surjection
<1>3. IsFiniteSet(T)
  BY <1>1, <1>2, FS_Surjection
<1>4. ASSUME NEW h \in H PROVE IsFiniteSet(Pairs(h))
  <2>1. IsFiniteSet({h}) /\ IsFiniteSet(At(v[h].slices, r))
    BY FS_Singleton, AtFinite DEF Object
  <2> QED BY <2>1, FS_Product
<1>5. \A U \in T : IsFiniteSet(U)
  BY <1>4
<1>6. IsFiniteSet(UNION T)
  BY <1>3, <1>5, FS_UNION
<1> QED BY <1>6 DEF Holders

\* One more object adds its own references.
LEMMA HoldersAdd ==
    ASSUME NEW v \in [Handle -> Object], NEW H \in SUBSET Handle, NEW h \in Handle \ H, NEW r
    PROVE  Cardinality(Holders(v, H \cup {h}, r))
             = Cardinality(Holders(v, H, r)) + Count(v[h].slices, r)
<1> DEFINE A == Holders(v, H, r)
           B == {h} \X At(v[h].slices, r)
<1>1. Holders(v, H \cup {h}, r) = A \cup B
  BY DEF Holders
<1>2. A \cap B = {}
  BY DEF Holders
<1>3. IsFiniteSet(A)
  BY HoldersFinite
<1>4. IsFiniteSet(B) /\ Cardinality(B) = Count(v[h].slices, r)
  <2>1. IsFiniteSet({h}) /\ Cardinality({h}) = 1
    BY FS_Singleton
  <2>2. IsFiniteSet(At(v[h].slices, r)) /\ Count(v[h].slices, r) \in Nat
    BY AtFinite, CountType DEF Object
  <2>3. IsFiniteSet(B) /\ Cardinality(B) = Cardinality({h}) * Cardinality(At(v[h].slices, r))
    BY <2>1, <2>2, FS_Product
  <2> QED BY <2>1, <2>2, <2>3 DEF Count
<1>5. Cardinality(A \cup B) = Cardinality(A) + Cardinality(B) - Cardinality(A \cap B)
  BY <1>3, <1>4, FS_Union
<1> HIDE DEF A, B
<1>6. Cardinality(A) \in Nat /\ Cardinality(B) \in Nat /\ Cardinality(A \cap B) = 0
  BY <1>2, <1>3, <1>4, FS_CardinalityType, FS_EmptySet
<1>7. Cardinality(A \cup B) = Cardinality(A) + Count(v[h].slices, r)
  BY <1>4, <1>5, <1>6
<1> QED BY <1>1, <1>7 DEF A

LEMMA RefsSplit ==
    ASSUME NEW v \in [Handle -> Object], NEW h \in Handle, NEW r
    PROVE  /\ Refs(v, r) = Cardinality(Holders(v, Handle \ {h}, r)) + Count(v[h].slices, r)
           /\ Cardinality(Holders(v, Handle \ {h}, r)) \in Nat
           /\ Count(v[h].slices, r) \in Nat
<1>1. (Handle \ {h}) \cup {h} = Handle
  OBVIOUS
<1>2. Cardinality(Holders(v, (Handle \ {h}) \cup {h}, r))
        = Cardinality(Holders(v, Handle \ {h}, r)) + Count(v[h].slices, r)
  BY HoldersAdd
<1>3. Cardinality(Holders(v, Handle \ {h}, r)) \in Nat
  BY HoldersFinite, FS_CardinalityType
<1> QED BY <1>1, <1>2, <1>3, CountType DEF Refs, Object

\* A region has no references exactly when no object refers to it.
LEMMA RefsType ==
    ASSUME NEW v \in [Handle -> Object], NEW r
    PROVE  /\ Refs(v, r) \in Nat
           /\ \A h \in Handle : Count(v[h].slices, r) <= Refs(v, r)
           /\ (\A h \in Handle : Count(v[h].slices, r) = 0) => Refs(v, r) = 0
<1>1. IsFiniteSet(Holders(v, Handle, r))
  BY HoldersFinite
<1>2. Refs(v, r) \in Nat
  BY <1>1, FS_CardinalityType DEF Refs
<1>3. ASSUME NEW h \in Handle PROVE Count(v[h].slices, r) <= Refs(v, r)
  <2> DEFINE a == Cardinality(Holders(v, Handle \ {h}, r))
             b == Count(v[h].slices, r)
  <2>1. Refs(v, r) = a + b /\ a \in Nat /\ b \in Nat
    BY RefsSplit
  <2> QED BY <2>1
<1>4. ASSUME \A h \in Handle : Count(v[h].slices, r) = 0 PROVE Refs(v, r) = 0
  <2>1. ASSUME NEW h \in Handle PROVE At(v[h].slices, r) = {}
    <3>1. v[h].slices \in Seq(Region) /\ Count(v[h].slices, r) = 0
      BY <1>4 DEF Object
    <3>2. \A i \in 1..Len(v[h].slices) : v[h].slices[i] # r
      BY <3>1, CountType
    <3> QED BY <3>1, <3>2 DEF At
  <2>2. Holders(v, Handle, r) = {}
    BY <2>1 DEF Holders
  <2> QED BY <2>2, FS_EmptySet DEF Refs
<1> QED BY <1>2, <1>3, <1>4

\* Two objects have no more references than all of them.
LEMMA RefsTwo ==
    ASSUME NEW v \in [Handle -> Object], NEW h \in Handle, NEW k \in Handle, h # k, NEW r
    PROVE  Count(v[h].slices, r) + Count(v[k].slices, r) <= Refs(v, r)
<1>1. Handle \ {h} = ((Handle \ {h}) \ {k}) \cup {k}
  OBVIOUS
<1>2. Cardinality(Holders(v, ((Handle \ {h}) \ {k}) \cup {k}, r))
        = Cardinality(Holders(v, (Handle \ {h}) \ {k}, r)) + Count(v[k].slices, r)
  BY HoldersAdd
<1>3. Cardinality(Holders(v, (Handle \ {h}) \ {k}, r)) \in Nat
  BY HoldersFinite, FS_CardinalityType
<1> DEFINE a == Cardinality(Holders(v, (Handle \ {h}) \ {k}, r))
           b == Count(v[k].slices, r)
           c == Count(v[h].slices, r)
<1>4. Cardinality(Holders(v, Handle \ {h}, r)) = a + b
  BY <1>1, <1>2
<1>5. Refs(v, r) = Cardinality(Holders(v, Handle \ {h}, r)) + c /\ c \in Nat
  BY RefsSplit
<1>6. b \in Nat
  BY CountType DEF Object
<1> HIDE DEF b, c
<1>7. c + b <= Refs(v, r)
  BY <1>3, <1>4, <1>5, <1>6
<1> QED BY <1>7 DEF b, c

\* When one object changes, the references change by its own.
LEMMA RefsChange ==
    ASSUME NEW v \in [Handle -> Object], NEW w \in [Handle -> Object], NEW h \in Handle,
           \A k \in Handle \ {h} : w[k].slices = v[k].slices, NEW r
    PROVE  Refs(w, r) = Refs(v, r) - Count(v[h].slices, r) + Count(w[h].slices, r)
<1>1. Holders(w, Handle \ {h}, r) = Holders(v, Handle \ {h}, r)
  BY DEF Holders
<1> QED BY <1>1, RefsSplit

\* The same for two objects.
LEMMA RefsChangeTwo ==
    ASSUME NEW v \in [Handle -> Object], NEW w \in [Handle -> Object],
           NEW h \in Handle, NEW k \in Handle, h # k,
           \A j \in Handle \ {h, k} : w[j].slices = v[j].slices, NEW r
    PROVE  Refs(w, r) = Refs(v, r) - Count(v[h].slices, r) - Count(v[k].slices, r)
                          + Count(w[h].slices, r) + Count(w[k].slices, r)
<1> DEFINE u == [v EXCEPT ![h] = w[h]]
<1>1. u \in [Handle -> Object] /\ u[h] = w[h] /\ u[k] = v[k]
  OBVIOUS
<1>2. /\ \A j \in Handle \ {h} : u[j].slices = v[j].slices
      /\ \A j \in Handle \ {k} : w[j].slices = u[j].slices
  OBVIOUS
<1> HIDE DEF u
<1>3. Refs(u, r) = Refs(v, r) - Count(v[h].slices, r) + Count(u[h].slices, r)
  BY <1>1, <1>2, RefsChange
<1>4. Refs(w, r) = Refs(u, r) - Count(u[k].slices, r) + Count(w[k].slices, r)
  BY <1>1, <1>2, RefsChange
<1>5. /\ Refs(v, r) \in Nat /\ Count(v[h].slices, r) \in Nat /\ Count(v[k].slices, r) \in Nat
      /\ Count(w[h].slices, r) \in Nat /\ Count(w[k].slices, r) \in Nat
  BY RefsType, CountType DEF Object
<1> QED BY <1>1, <1>3, <1>4, <1>5

\* The same, for two states of the objects that differ in h, or in h and k.
OnlyAt(v, w, h) ==
    /\ v \in [Handle -> Object] /\ w \in [Handle -> Object] /\ h \in Handle
    /\ \A j \in Handle \ {h} : w[j].slices = v[j].slices

OnlyAtTwo(v, w, h, k) ==
    /\ v \in [Handle -> Object] /\ w \in [Handle -> Object]
    /\ h \in Handle /\ k \in Handle /\ h # k
    /\ \A j \in Handle \ {h, k} : w[j].slices = v[j].slices

LEMMA RefsOnlyAt ==
    ASSUME NEW v, NEW w, NEW h, OnlyAt(v, w, h), NEW r
    PROVE  /\ Refs(w, r) = Refs(v, r) - Count(v[h].slices, r) + Count(w[h].slices, r)
           /\ Refs(v, r) \in Nat /\ Count(v[h].slices, r) \in Nat /\ Count(w[h].slices, r) \in Nat
<1>1. Refs(w, r) = Refs(v, r) - Count(v[h].slices, r) + Count(w[h].slices, r)
  BY RefsChange DEF OnlyAt
<1>2. Refs(v, r) \in Nat /\ Count(v[h].slices, r) \in Nat /\ Count(w[h].slices, r) \in Nat
  BY RefsType, CountType DEF OnlyAt, Object
<1> QED BY <1>1, <1>2

LEMMA RefsOnlyAtTwo ==
    ASSUME NEW v, NEW w, NEW h, NEW k, OnlyAtTwo(v, w, h, k), NEW r
    PROVE  /\ Refs(w, r) = Refs(v, r) - Count(v[h].slices, r) - Count(v[k].slices, r)
                             + Count(w[h].slices, r) + Count(w[k].slices, r)
           /\ Refs(v, r) \in Nat /\ Count(v[h].slices, r) \in Nat /\ Count(w[h].slices, r) \in Nat
           /\ Count(v[k].slices, r) \in Nat /\ Count(w[k].slices, r) \in Nat
<1>1. Refs(w, r) = Refs(v, r) - Count(v[h].slices, r) - Count(v[k].slices, r)
                     + Count(w[h].slices, r) + Count(w[k].slices, r)
  BY RefsChangeTwo DEF OnlyAtTwo
<1>2. /\ Refs(v, r) \in Nat /\ Count(v[h].slices, r) \in Nat /\ Count(w[h].slices, r) \in Nat
      /\ Count(v[k].slices, r) \in Nat /\ Count(w[k].slices, r) \in Nat
  BY RefsType, CountType DEF OnlyAtTwo, Object
<1> QED BY <1>1, <1>2

-----------------------------------------------------------------------------
(* The data of a list of slices.  FlattenSeq is a recursive function; what  *)
(* it returns is shown by the least length for which it would not.          *)

LEMMA LeastNatural ==
    ASSUME NEW T \in SUBSET Nat, T # {}
    PROVE  \E n \in T : \A k \in T : n <= k
<1>1. PICK n \in T : \A k \in T : ~(<<k, n>> \in OpToRel(<, Nat))
  BY NatLessThanWellFounded, WFMin
<1>2. ASSUME NEW k \in T PROVE n <= k
  <2>1. ~(<<k, n>> \in {ss \in Nat \X Nat : ss[1] < ss[2]})
    BY <1>1 DEF OpToRel
  <2> QED BY <2>1
<1> QED BY <1>2

\* f is the recursive function in FlattenSeq, for the first n lists.
Flattens(f, n, s) == f = [i \in 1..n |-> IF i = 1 THEN s[i] ELSE f[i - 1] \o s[i]]

LEMMA FlattensAt ==
    ASSUME NEW s, NEW n, NEW f, Flattens(f, n, s)
    PROVE  \A i \in 1..n : f[i] = IF i = 1 THEN s[i] ELSE f[i - 1] \o s[i]
<1> DEFINE e == [j \in 1..n |-> IF j = 1 THEN s[j] ELSE f[j - 1] \o s[j]]
<1>1. f = e
  BY DEF Flattens
<1>2. \A i \in 1..n : e[i] = IF i = 1 THEN s[i] ELSE f[i - 1] \o s[i]
  OBVIOUS
<1> HIDE DEF e
<1> QED BY <1>1, <1>2

LEMMA FlattensExists ==
    ASSUME NEW s, NEW n \in Nat
    PROVE  \E f : Flattens(f, n, s)
<1> DEFINE T == {k \in Nat : ~ \E f : Flattens(f, k, s)}
<1> SUFFICES ASSUME T # {} PROVE FALSE
  OBVIOUS
<1>1. PICK k \in T : \A j \in T : k <= j
  BY LeastNatural
<1>2. CASE k = 0
  <2>1. Flattens([i \in 1..0 |-> 0], 0, s)
    BY DEF Flattens
  <2> QED BY <1>1, <1>2, <2>1
<1>3. CASE k # 0
  <2>1. k - 1 \in Nat /\ k - 1 \notin T
    BY <1>1, <1>3
  <2>2. PICK g : Flattens(g, k - 1, s)
    BY <2>1
  <2> DEFINE f == [i \in 1..k |-> IF i = k
                                  THEN IF i = 1 THEN s[i] ELSE g[i - 1] \o s[i]
                                  ELSE g[i]]
  <2>3. ASSUME NEW i \in 1..k PROVE f[i] = IF i = 1 THEN s[i] ELSE f[i - 1] \o s[i]
    <3>1. CASE i = k
      <4>1. i # 1 => f[i - 1] = g[i - 1]
        BY <1>3, <3>1
      <4> QED BY <3>1, <4>1
    <3>2. CASE i # k
      <4>1. i \in 1..(k - 1) /\ f[i] = g[i] /\ (i # 1 => f[i - 1] = g[i - 1])
        BY <3>2
      <4>2. g[i] = IF i = 1 THEN s[i] ELSE g[i - 1] \o s[i]
        BY <2>2, <4>1, FlattensAt
      <4> HIDE DEF f
      <4> QED BY <4>1, <4>2
    <3> QED BY <3>1, <3>2
  <2>4. f = [i \in 1..k |-> IF i = 1 THEN s[i] ELSE f[i - 1] \o s[i]]
    BY <2>3
  <2>5. Flattens(f, k, s)
    BY <2>4 DEF Flattens
  <2> QED BY <1>1, <2>5
<1> QED BY <1>2, <1>3

\* Two such functions agree as far as their lists do.
LEMMA FlattensAgree ==
    ASSUME NEW s, NEW t, NEW n \in Nat, NEW p \in Nat, NEW f, NEW g,
           Flattens(f, n, s), Flattens(g, p, t),
           NEW q \in Nat, q <= n, q <= p, \A i \in 1..q : s[i] = t[i]
    PROVE  \A i \in 1..q : f[i] = g[i]
<1> DEFINE T == {i \in 1..q : f[i] # g[i]}
<1> SUFFICES ASSUME T # {} PROVE FALSE
  OBVIOUS
<1>0. T \in SUBSET Nat
  OBVIOUS
<1>1. PICK i \in T : \A j \in T : i <= j
  BY <1>0, LeastNatural
<1>2. /\ f[i] = IF i = 1 THEN s[i] ELSE f[i - 1] \o s[i]
      /\ g[i] = IF i = 1 THEN t[i] ELSE g[i - 1] \o t[i]
  <2>1. i \in 1..n /\ i \in 1..p
    OBVIOUS
  <2> QED BY <2>1, FlattensAt
<1>3. CASE i = 1
  BY <1>1, <1>2, <1>3
<1>4. CASE i # 1
  <2>1. i - 1 \in 1..q /\ i - 1 \notin T
    BY <1>1, <1>4
  <2> QED BY <1>1, <1>2, <1>4, <2>1
<1> QED BY <1>3, <1>4

LEMMA FlattenEmpty == FlattenSeq(<<>>) = <<>>
BY DEF FlattenSeq

\* FlattenSeq is what any such function gives for all of the lists.
LEMMA FlattenIs ==
    ASSUME NEW V, NEW s \in Seq(V), Len(s) # 0, NEW f, Flattens(f, Len(s), s)
    PROVE  FlattenSeq(s) = f[Len(s)]
<1> DEFINE g == CHOOSE x : Flattens(x, Len(s), s)
<1>1. FlattenSeq(s) = g[Len(s)]
  BY DEF FlattenSeq, Flattens
<1>2. Flattens(g, Len(s), s)
  BY Zenon
<1> HIDE DEF g
<1>3. \A i \in 1..Len(s) : f[i] = g[i]
  BY <1>2, FlattensAgree
<1> QED BY <1>1, <1>3

LEMMA FlattenOne ==
    ASSUME NEW V, NEW x \in V
    PROVE  FlattenSeq(<<x>>) = x
<1>1. ASSUME NEW s \in Seq(V), Len(s) = 1 PROVE FlattenSeq(s) = s[1]
  <2>0. Len(s) \in Nat /\ Len(s) # 0
    BY <1>1
  <2>1. PICK f : Flattens(f, Len(s), s)
    BY <2>0, FlattensExists, Zenon
  <2>2. FlattenSeq(s) = f[Len(s)]
    BY <2>0, <2>1, FlattenIs, Zenon
  <2>3. 1 \in 1..Len(s)
    BY <1>1
  <2>4. f[1] = s[1]
    BY <2>1, <2>3, FlattensAt
  <2> QED BY <1>1, <2>2, <2>4
<1>2. <<x>> \in Seq(V) /\ Len(<<x>>) = 1 /\ <<x>>[1] = x
  OBVIOUS
<1> QED BY <1>1, <1>2, Zenon

\* t has the n lists of s and one more.
Longer(s, n, t, p) ==
    n \in Nat /\ p \in Nat /\ n # 0 /\ n = p - 1 /\ \A i \in 1..n : s[i] = t[i]

\* Left folded where it is only passed on.
Joined(a, b) == a \o b

FlattenBoth(f, s, n, g, t, p) == Longer(s, n, t, p) /\ Flattens(f, n, s) /\ Flattens(g, p, t)

LEMMA FlattensLonger ==
    ASSUME NEW f, NEW s, NEW n, NEW g, NEW t, NEW p, FlattenBoth(f, s, n, g, t, p)
    PROVE  g[p] = Joined(f[n], t[p])
<1>1. n \in Nat /\ p \in Nat /\ n # 0 /\ n = p - 1 /\ \A i \in 1..n : s[i] = t[i]
  BY DEF FlattenBoth, Longer
<1>2. Flattens(f, n, s) /\ Flattens(g, p, t)
  BY DEF FlattenBoth
<1>3. \A i \in 1..n : f[i] = g[i]
  <2>1. n <= n /\ n <= p
    BY <1>1
  <2> QED BY <1>1, <1>2, <2>1, FlattensAgree
<1>4. \A i \in 1..p : g[i] = IF i = 1 THEN t[i] ELSE g[i - 1] \o t[i]
  BY <1>2, FlattensAt
<1>5. p \in 1..p /\ p # 1 /\ n \in 1..n
  BY <1>1
<1> QED BY <1>1, <1>3, <1>4, <1>5 DEF Joined

LEMMA FlattenLonger ==
    ASSUME NEW V, NEW s \in Seq(Seq(V)), NEW t \in Seq(Seq(V)),
           Longer(s, Len(s), t, Len(t))
    PROVE  FlattenSeq(t) = Joined(FlattenSeq(s), t[Len(t)])
<1>0. Len(s) \in Nat /\ Len(t) \in Nat /\ Len(s) # 0 /\ Len(t) # 0
  BY DEF Longer
<1>1. PICK f : Flattens(f, Len(s), s)
  BY <1>0, FlattensExists
<1>2. PICK g : Flattens(g, Len(t), t)
  BY <1>0, FlattensExists
<1>3. FlattenSeq(s) = f[Len(s)] /\ FlattenSeq(t) = g[Len(t)]
  BY <1>0, <1>1, <1>2, FlattenIs, Zenon
<1>4. FlattenBoth(f, s, Len(s), g, t, Len(t))
  BY <1>1, <1>2 DEF FlattenBoth
<1>5. g[Len(t)] = Joined(f[Len(s)], t[Len(t)])
  BY <1>4, FlattensLonger
<1> QED BY <1>3, <1>5, Zenon

LEMMA FlattenAppend ==
    ASSUME NEW V, NEW s \in Seq(Seq(V)), NEW x \in Seq(V)
    PROVE  FlattenSeq(Append(s, x)) = FlattenSeq(s) \o x
<1>1. CASE Len(s) = 0
  <2>1. s = <<>> /\ Append(s, x) = <<x>>
    BY <1>1
  <2>2. <<>> \o x = x
    BY ConcatEmptySeq
  <2> QED BY <2>1, <2>2, FlattenOne, FlattenEmpty
<1>2. CASE Len(s) # 0
  <2>1. /\ Append(s, x) \in Seq(Seq(V)) /\ Append(s, x)[Len(Append(s, x))] = x
        /\ Longer(s, Len(s), Append(s, x), Len(Append(s, x)))
    BY <1>2, AppendProperties DEF Longer
  <2>2. FlattenSeq(Append(s, x)) = Joined(FlattenSeq(s), Append(s, x)[Len(Append(s, x))])
    BY <2>1, FlattenLonger, Zenon
  <2>3. FlattenSeq(Append(s, x)) = Joined(FlattenSeq(s), x)
    BY <2>1, <2>2, Zenon
  <2> QED BY <2>3 DEF Joined
<1> QED BY <1>1, <1>2

\* A list that is not empty is its front and its last element.
LEMMA FrontAndLast ==
    ASSUME NEW V, NEW s \in Seq(V), Len(s) # 0
    PROVE  \E t \in Seq(V), x \in V : s = Append(t, x) /\ Len(t) = Len(s) - 1
<1>1. PICK t \in Seq(V), x \in V : s = Append(t, x)
  BY SequenceEmptyOrAppend, EmptySeq
<1>2. Len(s) = Len(t) + 1 /\ Len(t) \in Nat
  BY <1>1, AppendProperties
<1> QED BY <1>1, <1>2

LEMMA FlattenType ==
    ASSUME NEW V, NEW s \in Seq(Seq(V))
    PROVE  FlattenSeq(s) \in Seq(V)
<1> DEFINE T == {n \in Nat : \E t \in Seq(Seq(V)) : Len(t) = n /\ FlattenSeq(t) \notin Seq(V)}
<1> SUFFICES ASSUME T # {} PROVE FALSE
  OBVIOUS
<1>1. PICK n \in T : \A k \in T : n <= k
  BY LeastNatural
<1>2. PICK t \in Seq(Seq(V)) : Len(t) = n /\ FlattenSeq(t) \notin Seq(V)
  BY <1>1
<1>3. Len(t) # 0
  BY <1>2, FlattenEmpty
<1>4. PICK u \in Seq(Seq(V)), x \in Seq(V) : t = Append(u, x) /\ Len(u) = Len(t) - 1
  BY <1>3, FrontAndLast
<1>5. FlattenSeq(u) \in Seq(V)
  <2>1. Len(u) \in Nat /\ Len(u) \notin T
    BY <1>1, <1>2, <1>4
  <2> QED BY <2>1
<1>6. FlattenSeq(t) = FlattenSeq(u) \o x
  BY <1>4, FlattenAppend
<1> QED BY <1>2, <1>5, <1>6, ConcatProperties

LEMMA AppendConcat ==
    ASSUME NEW V, NEW s \in Seq(V), NEW t \in Seq(V), NEW x \in V
    PROVE  s \o Append(t, x) = Append(s \o t, x) /\ s \o t \in Seq(V)
OBVIOUS

LEMMA Reassociate ==
    ASSUME NEW V, NEW a \in Seq(V), NEW b \in Seq(V), NEW c \in Seq(V)
    PROVE  (a \o b) \o c = a \o (b \o c)
OBVIOUS

LEMMA FlattenConcatStep ==
    ASSUME NEW V, NEW s \in Seq(Seq(V)), NEW t \in Seq(Seq(V)), NEW x \in Seq(V),
           FlattenSeq(s \o t) = FlattenSeq(s) \o FlattenSeq(t)
    PROVE  FlattenSeq(s \o Append(t, x)) = FlattenSeq(s) \o FlattenSeq(Append(t, x))
<1>1. s \o Append(t, x) = Append(s \o t, x) /\ s \o t \in Seq(Seq(V))
  BY AppendConcat
<1>2. FlattenSeq(Append(s \o t, x)) = FlattenSeq(s \o t) \o x
  BY <1>1, FlattenAppend, Zenon
<1>3. FlattenSeq(Append(t, x)) = FlattenSeq(t) \o x
  BY FlattenAppend, Zenon
<1>4. FlattenSeq(s) \in Seq(V) /\ FlattenSeq(t) \in Seq(V)
  BY FlattenType
<1>5. (FlattenSeq(s) \o FlattenSeq(t)) \o x = FlattenSeq(s) \o (FlattenSeq(t) \o x)
  BY <1>4, Reassociate
<1> QED BY <1>1, <1>2, <1>3, <1>5

LEMMA FlattenConcat ==
    ASSUME NEW V, NEW s \in Seq(Seq(V)), NEW t \in Seq(Seq(V))
    PROVE  FlattenSeq(s \o t) = FlattenSeq(s) \o FlattenSeq(t)
<1> DEFINE P(u) == FlattenSeq(s \o u) = FlattenSeq(s) \o FlattenSeq(u)
           T == {n \in Nat : \E u \in Seq(Seq(V)) : Len(u) = n /\ ~P(u)}
<1>1. P(<<>>)
  <2>1. s \o <<>> = s /\ FlattenSeq(s) \in Seq(V)
    BY FlattenType
  <2> QED BY <2>1, FlattenEmpty
<1>2. \A u \in Seq(Seq(V)), x \in Seq(V) : P(u) => P(Append(u, x))
  BY FlattenConcatStep
<1> SUFFICES ASSUME ~P(t) PROVE FALSE
  OBVIOUS
<1> HIDE DEF P
<1>3. Len(t) \in T /\ T \in SUBSET Nat
  OBVIOUS
<1>4. PICK n \in T : \A k \in T : n <= k
  BY <1>3, LeastNatural
<1>5. PICK u \in Seq(Seq(V)) : Len(u) = n /\ ~P(u)
  BY <1>4
<1>6. Len(u) # 0
  <2>1. Len(u) = 0 => u = <<>>
    OBVIOUS
  <2> QED BY <1>1, <1>5, <2>1
<1>7. PICK y \in Seq(Seq(V)), x \in Seq(V) : u = Append(y, x) /\ Len(y) = Len(u) - 1
  BY <1>6, FrontAndLast
<1>8. P(y)
  <2>1. Len(y) \in Nat /\ ~(n <= Len(y))
    BY <1>5, <1>7
  <2>2. Len(y) \notin T
    BY <1>4, <2>1
  <2> QED BY <2>1, <2>2
<1> QED BY <1>2, <1>5, <1>7, <1>8

-----------------------------------------------------------------------------
(* The data that slices s read as when the regions have contents m.         *)

Reads(s, m) == FlattenSeq([i \in DOMAIN s |-> m[s[i]]])

LEMMA ContentsIsReads == ASSUME NEW h PROVE Contents(h) = Reads(val[h].slices, mem)
BY DEF Contents, slice_iter, Reads

LEMMA SliceSeq ==
    ASSUME NEW V, NEW s \in Seq(Region), NEW m \in [Region -> Seq(V)]
    PROVE  /\ [i \in DOMAIN s |-> m[s[i]]] \in Seq(Seq(V))
           /\ Len([i \in DOMAIN s |-> m[s[i]]]) = Len(s)
<1>1. Len(s) \in Nat /\ DOMAIN s = 1..Len(s)
  OBVIOUS
<1>2. [i \in DOMAIN s |-> m[s[i]]] \in [1..Len(s) -> Seq(V)]
  BY <1>1
<1>3. [i \in DOMAIN s |-> m[s[i]]] \in Seq(Seq(V))
  BY <1>1, <1>2, SeqDef
<1> QED BY <1>1, <1>2, <1>3

LEMMA ReadsType ==
    ASSUME NEW V, NEW s \in Seq(Region), NEW m \in [Region -> Seq(V)]
    PROVE  Reads(s, m) \in Seq(V)
BY SliceSeq, FlattenType DEF Reads

\* Only the contents of the regions that are referred to matter.
LEMMA ReadsSame ==
    ASSUME NEW s \in Seq(Region), NEW m, NEW n, \A i \in 1..Len(s) : m[s[i]] = n[s[i]]
    PROVE  Reads(s, m) = Reads(s, n)
<1>1. [i \in DOMAIN s |-> m[s[i]]] = [i \in DOMAIN s |-> n[s[i]]]
  OBVIOUS
<1> QED BY <1>1 DEF Reads

LEMMA ReadsEmpty == ASSUME NEW m PROVE Reads(<<>>, m) = <<>>
<1>1. [i \in DOMAIN <<>> |-> m[<<>>[i]]] = <<>>
  OBVIOUS
<1> QED BY <1>1, FlattenEmpty DEF Reads

LEMMA ReadsOne ==
    ASSUME NEW V, NEW r \in Region, NEW m \in [Region -> Seq(V)]
    PROVE  Reads(<<r>>, m) = m[r]
<1>1. [i \in DOMAIN <<r>> |-> m[<<r>>[i]]] = <<m[r]>>
  OBVIOUS
<1>2. m[r] \in Seq(V)
  OBVIOUS
<1> QED BY <1>1, <1>2, FlattenOne DEF Reads

LEMMA ReadsAppend ==
    ASSUME NEW V, NEW s \in Seq(Region), NEW r \in Region, NEW m \in [Region -> Seq(V)]
    PROVE  Reads(Append(s, r), m) = Joined(Reads(s, m), m[r])
<1>1. [i \in DOMAIN Append(s, r) |-> m[Append(s, r)[i]]]
        = Append([i \in DOMAIN s |-> m[s[i]]], m[r])
  OBVIOUS
<1>2. [i \in DOMAIN s |-> m[s[i]]] \in Seq(Seq(V)) /\ m[r] \in Seq(V)
  BY SliceSeq
<1> QED BY <1>1, <1>2, FlattenAppend DEF Reads, Joined

LEMMA ReadsConcat ==
    ASSUME NEW V, NEW s \in Seq(Region), NEW t \in Seq(Region), NEW m \in [Region -> Seq(V)]
    PROVE  Reads(Joined(s, t), m) = Joined(Reads(s, m), Reads(t, m))
<1> DEFINE a == [i \in DOMAIN s |-> m[s[i]]]
           b == [i \in DOMAIN t |-> m[t[i]]]
           c == [i \in DOMAIN (s \o t) |-> m[(s \o t)[i]]]
<1>1. s \o t \in Seq(Region) /\ Len(s \o t) = Len(s) + Len(t)
  OBVIOUS
<1>2. /\ a \in Seq(Seq(V)) /\ b \in Seq(Seq(V)) /\ c \in Seq(Seq(V))
      /\ Len(a) = Len(s) /\ Len(b) = Len(t) /\ Len(c) = Len(s) + Len(t)
  BY <1>1, SliceSeq
<1>3. ASSUME NEW i \in 1..(Len(s) + Len(t))
      PROVE  c[i] = IF i <= Len(s) THEN a[i] ELSE b[i - Len(s)]
  <2>1. CASE i <= Len(s)
    BY <2>1
  <2>2. CASE ~(i <= Len(s))
    <3>1. i - Len(s) \in DOMAIN t /\ i \in DOMAIN (s \o t)
      BY <2>2
    <3>2. (s \o t)[i] = t[i - Len(s)]
      BY <2>2
    <3> QED BY <2>2, <3>1, <3>2
  <2> QED BY <2>1, <2>2
<1> HIDE DEF a, b, c
<1>4. c = a \o b
  <2>1. a \o b \in Seq(Seq(V)) /\ Len(a \o b) = Len(c)
    <3>1. a \o b \in Seq(Seq(V)) /\ Len(a \o b) = Len(a) + Len(b)
      BY <1>2, ConcatProperties
    <3> QED BY <1>2, <3>1
  <2>2. \A i \in 1..Len(c) : (a \o b)[i] = IF i <= Len(s) THEN a[i] ELSE b[i - Len(s)]
    BY <1>2
  <2>3. \A i \in 1..Len(c) : c[i] = (a \o b)[i]
    BY <1>2, <1>3, <2>2
  <2> QED BY <1>2, <2>1, <2>3, SeqEqual
<1>5. FlattenSeq(c) = FlattenSeq(a) \o FlattenSeq(b)
  BY <1>2, <1>4, FlattenConcat
<1> QED BY <1>5 DEF Reads, Joined, a, b, c

=============================================================================

----------------------------- MODULE ShmProofs -----------------------------
(***************************************************************************)
(* Payloads and shared memory buffers, for any finite number of C++        *)
(* objects, any regions and chunks and any data.  The counts of the C      *)
(* library are the references that the objects really have (Counted);      *)
(* together with what a region without references may be used for          *)
(* (InUse) this keeps every object's memory as it was left (ObjectOK).     *)
(***************************************************************************)
EXTENDS Shm, RegionLemmas

Datum == Data \cup {"junk"}

\* What the type of an object says of its slices.  A buffer that may be written
\* to is the only reference to its region.
Shape(o, counts) ==
    /\ o.type = "gone" => o.slices = <<>>
    /\ o.type \in {"vector", "mut", "shm"} =>
         \E r \in Region : /\ o.slices = <<r>>
                           /\ r \in Heap <=> o.type = "vector"
                           /\ o.type # "shm" => counts[r] = 1

\* Object o reads as d.
ObjectOK(o, d, contents, counts) ==
    Shape(o, counts) /\ Reads(o.slices, contents) = d

StoreOK ==
    /\ val \in [Handle -> Object] /\ want \in [Handle -> Seq(Datum)]
    /\ mem \in [Region -> Seq(Datum)] /\ alloc \in SUBSET Region
    /\ rc \in [Region -> Nat]

ObjectsOK == \A h \in Handle : ObjectOK(val[h], want[h], mem, rc)

Counted == \A r \in Region : rc[r] = Refs(val, r)

InUse ==
    /\ \A r \in Heap : r \in alloc <=> rc[r] > 0
    /\ \A c \in Chunk : rc[c] > 0 => c \in alloc

\* A Reader is on a Bytes, at a position in it.
ReaderOK ==
    \/ reader = NoReader
    \/ \E h \in Handle : /\ reader.on = {h} /\ val[h].type = "bytes"
                         /\ reader = [on |-> {h}, pos |-> reader.pos]
                         /\ reader.pos \in 0..Len(want[h])

MemInv == StoreOK /\ ObjectsOK /\ Counted /\ InUse

\* What is true of the payloads, and with the provider's receiver.
BytesInv == MemInv /\ ReaderOK /\ ~twice
IInv == BytesInv /\ ReceiverLives

-----------------------------------------------------------------------------
(* Objects that a step leaves alone.                                        *)

LEMMA CountPositive ==
    ASSUME NEW s \in Seq(Region), NEW i \in 1..Len(s)
    PROVE  s[i] \in Region /\ Count(s, s[i]) > 0
<1>1. s[i] \in Region
  OBVIOUS
<1>2. Count(s, s[i]) \in Nat /\ Count(s, s[i]) # 0
  BY <1>1, CountType
<1> QED BY <1>1, <1>2

LEMMA ObjectFields ==
    ASSUME NEW o \in Object
    PROVE  o.type \in Type /\ o.slices \in Seq(Region)
BY DEF Object

\* An object keeps its contents when its regions do, and its shape when, if it may
\* be written to, the counts of its regions stay.
LEMMA Untouched ==
    ASSUME NEW o \in Object, NEW d, NEW m1, NEW m2, NEW c1, NEW c2,
           ObjectOK(o, d, m1, c1),
           \A r \in Region : Count(o.slices, r) > 0 =>
              m2[r] = m1[r] /\ (o.type \in {"vector", "mut"} => c2[r] = c1[r])
    PROVE  ObjectOK(o, d, m2, c2)
<1>1. o.slices \in Seq(Region)
  BY ObjectFields
<1>2. \A i \in 1..Len(o.slices) : m1[o.slices[i]] = m2[o.slices[i]]
  BY <1>1, CountPositive
<1>3. Reads(o.slices, m2) = d
  BY <1>1, <1>2, ReadsSame DEF ObjectOK
<1>4. Shape(o, c2)
  <2>1. CASE o.type \in {"vector", "mut", "shm"}
    <3>1. PICK r \in Region : /\ o.slices = <<r>>
                              /\ r \in Heap <=> o.type = "vector"
                              /\ o.type # "shm" => c1[r] = 1
      BY <2>1 DEF ObjectOK, Shape
    <3>2. Count(o.slices, r) > 0
      BY <3>1, CountOne
    <3>3. o.type # "shm" => c2[r] = 1
      BY <2>1, <3>1, <3>2
    <3> QED BY <2>1, <3>1, <3>3 DEF Shape
  <2>2. CASE o.type \notin {"vector", "mut", "shm"}
    BY <2>2 DEF ObjectOK, Shape
  <2> QED BY <2>1, <2>2
<1> QED BY <1>3, <1>4 DEF ObjectOK

\* What the counts say of the objects.
LEMMA Unreferenced ==
    ASSUME MemInv, NEW r \in Region, rc[r] = 0, NEW h \in Handle
    PROVE  Count(val[h].slices, r) = 0
<1>1. val[h].slices \in Seq(Region) /\ val \in [Handle -> Object]
  BY ObjectFields DEF MemInv, StoreOK
<1>2. Count(val[h].slices, r) \in Nat /\ Count(val[h].slices, r) <= Refs(val, r)
  BY <1>1, CountType, RefsType
<1>3. Refs(val, r) = 0
  BY DEF MemInv, Counted
<1> QED BY <1>2, <1>3

LEMMA Exclusive ==
    ASSUME MemInv, NEW r \in Region, rc[r] = 1, NEW h \in Handle, NEW k \in Handle,
           h # k, Count(val[h].slices, r) > 0
    PROVE  Count(val[k].slices, r) = 0
<1>1. val[h].slices \in Seq(Region) /\ val[k].slices \in Seq(Region)
  BY ObjectFields DEF MemInv, StoreOK
<1>2. Count(val[h].slices, r) \in Nat /\ Count(val[k].slices, r) \in Nat
  BY <1>1, CountType
<1>3. Count(val[h].slices, r) + Count(val[k].slices, r) <= Refs(val, r)
  BY RefsTwo DEF MemInv, StoreOK
<1>4. Refs(val, r) = 1
  BY DEF MemInv, Counted
<1> QED BY <1>2, <1>3, <1>4

\* A handle without an object, and one whose object may be written to.
LEMMA FreeObject ==
    ASSUME MemInv, NEW h \in Handle
    PROVE  /\ Free(h) <=> val[h].type = "gone"
           /\ Free(h) => val[h].slices = <<>> /\ want[h] = <<>>
<1>1. val[h] \in Object /\ ObjectOK(val[h], want[h], mem, rc)
  BY DEF MemInv, StoreOK, ObjectsOK
<1>2. val[h].type = "gone" => val[h] = Gone
  BY <1>1 DEF ObjectOK, Shape, Gone, Obj, Object
<1>3. Free(h) => val[h].type = "gone" /\ val[h].slices = <<>>
  BY DEF Free, Gone, Obj
<1>4. Free(h) => want[h] = <<>>
  BY <1>1, <1>3, ReadsEmpty DEF ObjectOK
<1> QED BY <1>2, <1>3, <1>4 DEF Free

LEMMA OneSlice ==
    ASSUME MemInv, NEW h \in Handle, val[h].type \in {"vector", "mut", "shm"}
    PROVE  /\ val[h].slices[1] \in Region /\ val[h].slices = <<val[h].slices[1]>>
           /\ val[h].slices[1] \in Heap <=> val[h].type = "vector"
           /\ val[h].type # "shm" => rc[val[h].slices[1]] = 1
           /\ Count(val[h].slices, val[h].slices[1]) = 1
<1>1. PICK r \in Region : /\ val[h].slices = <<r>>
                          /\ r \in Heap <=> val[h].type = "vector"
                          /\ val[h].type # "shm" => rc[r] = 1
  BY DEF MemInv, ObjectsOK, ObjectOK, Shape
<1>2. val[h].slices[1] = r
  BY <1>1
<1>3. Count(val[h].slices, r) = 1
  BY <1>1, CountOne
<1> QED BY <1>1, <1>2, <1>3

-----------------------------------------------------------------------------
(* What the steps do to the memory, one lemma for each way.                 *)

\* The object of k moves to h and becomes one of type t.
MoveTo(h, k, t) ==
    /\ Free(h) /\ ~Free(k)
    /\ val' = [val EXCEPT ![h] = Obj(t, val[k].slices), ![k] = Gone]
    /\ want' = [want EXCEPT ![h] = want[k], ![k] = <<>>]
    /\ UNCHANGED <<mem, alloc, rc>>

LEMMA MoveKeeps ==
    ASSUME MemInv, NEW h \in Handle, NEW k \in Handle, NEW t \in {"bytes", "mut", "shm"},
           MoveTo(h, k, t),
           t # "bytes" => val[k].type \in {"mut", "shm"},
           t = "mut" => rc[val[k].slices[1]] = 1
    PROVE  MemInv'
<1>1. h # k /\ val[h].slices = <<>>
  BY FreeObject DEF MoveTo
<1>2. val \in [Handle -> Object] /\ want \in [Handle -> Seq(Datum)]
  BY DEF MemInv, StoreOK
<1>3. /\ val'[h] = [type |-> t, slices |-> val[k].slices] /\ want'[h] = want[k]
      /\ val'[k] = Gone /\ want'[k] = <<>>
      /\ \A j \in Handle \ {h, k} : val'[j] = val[j] /\ want'[j] = want[j]
  BY <1>1, <1>2 DEF MoveTo, Obj
<1>4. StoreOK'
  <2>1. val'[h] \in Object /\ val'[k] \in Object
    BY <1>2, <1>3, ObjectFields DEF Object, Gone, Obj, Type
  <2>2. val' \in [Handle -> Object]
    BY <1>2, <1>3, <2>1 DEF MoveTo
  <2>3. want' \in [Handle -> Seq(Datum)]
    <3>1. want[k] \in Seq(Datum) /\ <<>> \in Seq(Datum)
      BY <1>2
    <3> QED BY <1>2, <3>1 DEF MoveTo
  <2> QED BY <2>2, <2>3 DEF MemInv, StoreOK, MoveTo
<1>5. ObjectsOK'
  <2>1. ASSUME NEW j \in Handle PROVE ObjectOK(val'[j], want'[j], mem, rc)
    <3>1. CASE j = h
      <4>1. Reads(val'[h].slices, mem) = want'[h]
        BY <1>3 DEF MemInv, ObjectsOK, ObjectOK
      <4>2. CASE t = "bytes"
        BY <1>3, <3>1, <4>1, <4>2 DEF ObjectOK, Shape
      <4>3. CASE t # "bytes"
        <5>1. /\ val[k].slices[1] \in Region /\ val[k].slices = <<val[k].slices[1]>>
              /\ val[k].slices[1] \notin Heap
          BY <4>3, OneSlice
        <5> QED BY <1>3, <3>1, <4>1, <4>3, <5>1 DEF ObjectOK, Shape
      <4> QED BY <4>2, <4>3
    <3>2. CASE j = k
      BY <1>3, <3>2, ReadsEmpty DEF ObjectOK, Shape, Gone, Obj
    <3>3. CASE j \notin {h, k}
      BY <1>3, <3>3 DEF MemInv, ObjectsOK
    <3> QED BY <3>1, <3>2, <3>3
  <2> QED BY <2>1 DEF ObjectsOK, MoveTo
<1>6. Counted'
  <2>1. OnlyAtTwo(val, val', h, k)
    BY <1>1, <1>2, <1>3, <1>4 DEF OnlyAtTwo, StoreOK
  <2>2. ASSUME NEW r \in Region PROVE rc[r] = Refs(val', r)
    <3>1. /\ Refs(val', r) = Refs(val, r) - Count(val[h].slices, r) - Count(val[k].slices, r)
                               + Count(val'[h].slices, r) + Count(val'[k].slices, r)
          /\ Refs(val, r) \in Nat /\ Count(val[k].slices, r) \in Nat
      BY <2>1, RefsOnlyAtTwo
    <3>2. /\ Count(val[h].slices, r) = 0 /\ Count(val'[k].slices, r) = 0
          /\ Count(val'[h].slices, r) = Count(val[k].slices, r)
      BY <1>1, <1>3, CountEmpty DEF Gone, Obj
    <3>3. rc[r] = Refs(val, r)
      BY DEF MemInv, Counted
    <3> QED BY <3>1, <3>2, <3>3
  <2> QED BY <2>2 DEF Counted, MoveTo
<1>7. InUse'
  BY DEF MemInv, InUse, MoveTo
<1> QED BY <1>4, <1>5, <1>6, <1>7 DEF MemInv

\* Only the type of h changes.
Retype(h, t) ==
    /\ val' = [val EXCEPT ![h] = Obj(t, val[h].slices)]
    /\ UNCHANGED <<want, mem, alloc, rc>>

LEMMA RetypeKeeps ==
    ASSUME MemInv, NEW h \in Handle, NEW t \in {"bytes", "writer", "sent"}, Retype(h, t)
    PROVE  MemInv'
<1>1. val \in [Handle -> Object] /\ val[h].slices \in Seq(Region)
  BY ObjectFields DEF MemInv, StoreOK
<1>2. /\ val'[h] = [type |-> t, slices |-> val[h].slices]
      /\ \A j \in Handle \ {h} : val'[j] = val[j]
  BY <1>1 DEF Retype, Obj
<1>3. StoreOK'
  <2>1. [type |-> t, slices |-> val[h].slices] \in Object
    BY <1>1 DEF Object, Type
  <2> QED BY <1>1, <2>1 DEF MemInv, StoreOK, Retype, Obj
<1>4. ObjectsOK'
  <2>1. ASSUME NEW j \in Handle PROVE ObjectOK(val'[j], want[j], mem, rc)
    BY <1>2 DEF MemInv, ObjectsOK, ObjectOK, Shape
  <2> QED BY <2>1 DEF ObjectsOK, Retype
<1>5. Counted'
  <2>1. OnlyAt(val, val', h)
    BY <1>1, <1>2, <1>3 DEF OnlyAt, StoreOK
  <2>2. ASSUME NEW r \in Region PROVE rc[r] = Refs(val', r)
    <3>1. /\ Refs(val', r) = Refs(val, r) - Count(val[h].slices, r) + Count(val'[h].slices, r)
          /\ Refs(val, r) \in Nat /\ Count(val[h].slices, r) \in Nat
      BY <2>1, RefsOnlyAt
    <3>2. rc[r] = Refs(val, r) /\ Count(val'[h].slices, r) = Count(val[h].slices, r)
      BY <1>2 DEF MemInv, Counted
    <3> QED BY <3>1, <3>2
  <2> QED BY <2>2 DEF Counted, Retype
<1>6. InUse'
  BY DEF MemInv, InUse, Retype
<1> QED BY <1>3, <1>4, <1>5, <1>6 DEF MemInv

LEMMA AppendEmpty == ASSUME NEW x PROVE Append(<<>>, x) = <<x>>
OBVIOUS

\* The contents of the regions in use, and whether they are, stay as they were,
\* but for the region r that is given out.
Preserved(r) ==
    /\ mem' \in [Region -> Seq(Datum)] /\ alloc' \in SUBSET Region
    /\ \A q \in Region \ {r} : rc[q] > 0 => mem'[q] = mem[q]
    /\ \A q \in Heap \ {r} : q \in alloc' <=> q \in alloc
    /\ \A q \in Chunk \ {r} : rc[q] > 0 /\ q \in alloc => q \in alloc'

\* Region r, that nobody refers to, gets contents d and its first reference.
GivenOut(r, d) ==
    /\ rc[r] = 0 /\ rc' = [rc EXCEPT ![r] = 1]
    /\ mem'[r] = d /\ r \in alloc'
    /\ Preserved(r)

\* h gets it as one more slice, and is then of type t.
AddRegion(h, t, r, d) ==
    /\ val' = [val EXCEPT ![h] = Obj(t, Append(val[h].slices, r))]
    /\ want' = [want EXCEPT ![h] = Joined(want[h], d)]
    /\ GivenOut(r, d)

LEMMA AddRegionKeeps ==
    ASSUME MemInv, NEW h \in Handle, NEW r \in Region, NEW d \in Seq(Datum),
           NEW t \in {"bytes", "writer", "vector", "mut"}, AddRegion(h, t, r, d),
           t \in {"vector", "mut"} => val[h].slices = <<>> /\ (r \in Heap <=> t = "vector")
    PROVE  MemInv'
<1>1. /\ val \in [Handle -> Object] /\ want \in [Handle -> Seq(Datum)] /\ want[h] \in Seq(Datum)
      /\ mem \in [Region -> Seq(Datum)] /\ rc \in [Region -> Nat]
      /\ val[h].slices \in Seq(Region)
  BY ObjectFields DEF MemInv, StoreOK
<1>2. /\ val'[h] = [type |-> t, slices |-> Append(val[h].slices, r)]
      /\ want'[h] = Joined(want[h], d)
      /\ \A j \in Handle \ {h} : val'[j] = val[j] /\ want'[j] = want[j]
  BY <1>1 DEF AddRegion, Obj
<1>3. rc[r] = 0 /\ rc'[r] = 1 /\ \A q \in Region \ {r} : rc'[q] = rc[q]
  BY <1>1 DEF AddRegion, GivenOut
<1>4. StoreOK'
  <2>1. [type |-> t, slices |-> Append(val[h].slices, r)] \in Object
    BY <1>1 DEF Object, Type
  <2>2. val' \in [Handle -> Object]
    BY <1>1, <2>1 DEF AddRegion, Obj
  <2>3. Joined(want[h], d) \in Seq(Datum)
    BY <1>1, ConcatProperties DEF Joined
  <2>4. want' \in [Handle -> Seq(Datum)] /\ rc' \in [Region -> Nat]
    BY <1>1, <2>3 DEF AddRegion, GivenOut
  <2> QED BY <2>2, <2>4 DEF StoreOK, AddRegion, GivenOut, Preserved
<1>5. \A j \in Handle : Count(val[j].slices, r) = 0
  BY <1>3, Unreferenced
<1>6. ASSUME NEW j \in Handle, NEW q \in Region, Count(val[j].slices, q) > 0
      PROVE  q # r /\ mem'[q] = mem[q] /\ rc'[q] = rc[q]
  <2>1. q # r
    BY <1>5, <1>6
  <2>2. rc[q] # 0
    BY <1>6, Unreferenced
  <2>3. rc[q] > 0
    BY <1>1, <2>2
  <2> QED BY <1>3, <2>1, <2>3 DEF AddRegion, GivenOut, Preserved
<1>7. ObjectsOK'
  <2>1. ASSUME NEW j \in Handle, j # h PROVE ObjectOK(val'[j], want'[j], mem', rc')
    <3>1. val[j] \in Object /\ ObjectOK(val[j], want[j], mem, rc)
      BY <1>1 DEF MemInv, ObjectsOK
    <3>2. ObjectOK(val[j], want[j], mem', rc')
      BY <1>6, <3>1, Untouched
    <3> QED BY <1>2, <2>1, <3>2
  <2>2. ObjectOK(val'[h], want'[h], mem', rc')
    <3>1. Reads(val[h].slices, mem) = want[h]
      BY DEF MemInv, ObjectsOK, ObjectOK
    <3>2. \A i \in 1..Len(val[h].slices) : mem[val[h].slices[i]] = mem'[val[h].slices[i]]
      BY <1>1, <1>6, CountPositive
    <3>3. Reads(val[h].slices, mem') = want[h]
      BY <1>1, <3>1, <3>2, ReadsSame
    <3>4. mem' \in [Region -> Seq(Datum)] /\ mem'[r] = d
      BY DEF AddRegion, GivenOut, Preserved
    <3>5. Reads(Append(val[h].slices, r), mem') = Joined(Reads(val[h].slices, mem'), mem'[r])
      BY <1>1, <3>4, ReadsAppend
    <3>6. Reads(val'[h].slices, mem') = want'[h]
      BY <1>2, <3>3, <3>4, <3>5
    <3>7. Shape(val'[h], rc')
      <4>1. CASE t \in {"vector", "mut"}
        <5>1. val'[h].slices = <<r>>
          <6>1. val[h].slices = <<>> /\ val'[h].slices = Append(val[h].slices, r)
            BY <1>2, <4>1
          <6> QED BY <6>1, AppendEmpty
        <5> QED BY <1>2, <1>3, <4>1, <5>1 DEF Shape
      <4>2. CASE t \notin {"vector", "mut"}
        BY <1>2, <4>2 DEF Shape
      <4> QED BY <4>1, <4>2
    <3> QED BY <3>6, <3>7 DEF ObjectOK
  <2> QED BY <2>1, <2>2 DEF ObjectsOK
<1>8. Counted'
  <2>1. OnlyAt(val, val', h)
    BY <1>1, <1>2, <1>4 DEF OnlyAt, StoreOK
  <2>2. ASSUME NEW q \in Region PROVE rc'[q] = Refs(val', q)
    <3>1. /\ Refs(val', q) = Refs(val, q) - Count(val[h].slices, q) + Count(val'[h].slices, q)
          /\ Refs(val, q) \in Nat /\ Count(val[h].slices, q) \in Nat
      BY <2>1, RefsOnlyAt
    <3>2. Count(Append(val[h].slices, r), q) = Count(val[h].slices, q) + (IF r = q THEN 1 ELSE 0)
      BY <1>1, CountAppend
    <3>3. rc[q] = Refs(val, q) /\ val'[h].slices = Append(val[h].slices, r)
      BY <1>2 DEF MemInv, Counted
    <3>4. rc'[q] = rc[q] + (IF r = q THEN 1 ELSE 0)
      BY <1>1, <1>3
    <3> QED BY <3>1, <3>2, <3>3, <3>4
  <2> QED BY <2>2 DEF Counted
<1>9. InUse'
  BY <1>1, <1>3 DEF MemInv, StoreOK, InUse, AddRegion, GivenOut, Preserved, Region
<1> QED BY <1>4, <1>7, <1>8, <1>9 DEF MemInv

\* h gets the regions of k, which keeps them, and is of type t.
Share(h, k, t) ==
    /\ Free(h)
    /\ val' = [val EXCEPT ![h] = Obj(t, val[k].slices)]
    /\ want' = [want EXCEPT ![h] = want[k]]
    /\ ShareSlices(val[k].slices)

LEMMA ShareKeeps ==
    ASSUME MemInv, NEW h \in Handle, NEW k \in Handle, NEW t \in {"bytes", "shm"},
           Share(h, k, t), val[k].type \in {"bytes", "shm"},
           t = "shm" => \E r \in Chunk : val[k].slices = <<r>>
    PROVE  MemInv'
<1>1. /\ val \in [Handle -> Object] /\ want \in [Handle -> Seq(Datum)]
      /\ rc \in [Region -> Nat] /\ val[k].slices \in Seq(Region)
  BY ObjectFields DEF MemInv, StoreOK
<1>2. h # k /\ val[h].slices = <<>>
  BY FreeObject DEF Share
<1>3. /\ val'[h] = [type |-> t, slices |-> val[k].slices] /\ want'[h] = want[k]
      /\ \A j \in Handle \ {h} : val'[j] = val[j] /\ want'[j] = want[j]
  BY <1>1 DEF Share, Obj
<1>4. /\ rc' = [r \in Region |-> rc[r] + Count(val[k].slices, r)]
      /\ mem' = mem /\ alloc' = alloc
  BY DEF Share, ShareSlices
<1>5. \A r \in Region : Count(val[k].slices, r) \in Nat
  BY <1>1, CountType
<1>6. StoreOK'
  <2>1. [type |-> t, slices |-> val[k].slices] \in Object
    BY <1>1 DEF Object, Type
  <2>2. val' \in [Handle -> Object] /\ want' \in [Handle -> Seq(Datum)]
    BY <1>1, <2>1 DEF Share, Obj
  <2>3. rc' \in [Region -> Nat]
    BY <1>1, <1>4, <1>5
  <2> QED BY <1>4, <2>2, <2>3 DEF MemInv, StoreOK
<1>7. ObjectsOK'
  <2>1. ASSUME NEW j \in Handle, j # h PROVE ObjectOK(val'[j], want'[j], mem', rc')
    <3>1. val[j] \in Object /\ ObjectOK(val[j], want[j], mem, rc)
      BY <1>1 DEF MemInv, ObjectsOK
    <3>2. ASSUME NEW r \in Region, Count(val[j].slices, r) > 0, val[j].type \in {"vector", "mut"}
          PROVE  rc'[r] = rc[r]
      <4>1. val[j].slices[1] \in Region /\ val[j].slices = <<val[j].slices[1]>>
            /\ rc[val[j].slices[1]] = 1
        BY <3>2, OneSlice
      <4>2. Count(<<val[j].slices[1]>>, r) = IF val[j].slices[1] = r THEN 1 ELSE 0
        BY <4>1, CountOne
      <4>3. val[j].slices[1] = r
        BY <3>2, <4>1, <4>2
      <4>4. Count(val[k].slices, r) = 0
        BY <3>2, <4>1, <4>3, Exclusive
      <4> QED BY <1>1, <1>4, <4>4
    <3>3. ObjectOK(val[j], want[j], mem', rc')
      BY <1>4, <3>1, <3>2, Untouched
    <3> QED BY <1>3, <2>1, <3>3
  <2>2. ObjectOK(val'[h], want'[h], mem', rc')
    <3>1. Reads(val'[h].slices, mem') = want'[h]
      BY <1>3, <1>4 DEF MemInv, ObjectsOK, ObjectOK
    <3>2. Shape(val'[h], rc')
      BY <1>3, Objects DEF Shape, Region
    <3> QED BY <3>1, <3>2 DEF ObjectOK
  <2> QED BY <2>1, <2>2 DEF ObjectsOK
<1>8. Counted'
  <2>1. OnlyAt(val, val', h)
    BY <1>1, <1>3, <1>6 DEF OnlyAt, StoreOK
  <2>2. ASSUME NEW r \in Region PROVE rc'[r] = Refs(val', r)
    <3>1. /\ Refs(val', r) = Refs(val, r) - Count(val[h].slices, r) + Count(val'[h].slices, r)
          /\ Refs(val, r) \in Nat
      BY <2>1, RefsOnlyAt
    <3>2. /\ Count(val[h].slices, r) = 0
          /\ Count(val'[h].slices, r) = Count(val[k].slices, r)
      BY <1>2, <1>3, CountEmpty
    <3>3. rc[r] = Refs(val, r) /\ rc'[r] = rc[r] + Count(val[k].slices, r)
      BY <1>4 DEF MemInv, Counted
    <3> QED BY <1>5, <3>1, <3>2, <3>3
  <2> QED BY <2>2 DEF Counted
<1>9. InUse'
  <2>1. ASSUME NEW r \in Region PROVE rc'[r] > 0 <=> rc[r] > 0
    <3>1. Count(val[k].slices, r) > 0 => rc[r] > 0
      BY <1>1, <1>5, Unreferenced
    <3> QED BY <1>1, <1>4, <1>5, <3>1
  <2> QED BY <1>4, <2>1 DEF MemInv, InUse, Region
<1> QED BY <1>6, <1>7, <1>8, <1>9 DEF MemInv

\* The slices of k are dropped; k and other objects without slices may become
\* empty Bytes or go.
DropFrom(k) ==
    /\ val' \in [Handle -> Object] /\ want' \in [Handle -> Seq(Datum)]
    /\ \A j \in Handle :
         \/ j # k /\ val'[j] = val[j] /\ want'[j] = want[j]
         \/ /\ j = k \/ val[j].slices = <<>>
            /\ val'[j].type \in {"gone", "bytes"} /\ val'[j].slices = <<>> /\ want'[j] = <<>>
    /\ DropSlices(val[k].slices)

LEMMA DropKeeps ==
    ASSUME MemInv, NEW k \in Handle, DropFrom(k)
    PROVE  MemInv' /\ (twice' => twice)
<1> DEFINE s == val[k].slices
           D == {r \in Heap : Count(s, r) > 0 /\ rc[r] <= Count(s, r)}
<1>1. /\ val \in [Handle -> Object] /\ mem \in [Region -> Seq(Datum)]
      /\ rc \in [Region -> Nat] /\ s \in Seq(Region) /\ alloc \in SUBSET Region
  BY ObjectFields DEF MemInv, StoreOK
<1>2. /\ rc' = [r \in Region |-> rc[r] - Count(s, r)]
      /\ alloc' = alloc \ D
      /\ mem' = [r \in Region |-> IF r \in D THEN Junk ELSE mem[r]]
      /\ twice' = (twice \/ ~(D \subseteq alloc))
  BY DEF DropFrom, DropSlices, Delete
<1> HIDE DEF s, D
<1>3. ASSUME NEW r \in Region
      PROVE  Count(s, r) \in Nat /\ Count(s, r) <= rc[r]
  <2>1. Count(s, r) <= Refs(val, r) /\ Count(s, r) \in Nat
    BY <1>1, CountType, RefsType DEF s
  <2> QED BY <2>1 DEF MemInv, Counted
<1>4. \A r \in Region : r \in D <=> r \in Heap /\ Count(s, r) > 0 /\ rc[r] = Count(s, r)
  BY <1>1, <1>3 DEF D
<1>5. ASSUME NEW r \in Region PROVE rc'[r] = rc[r] - Count(s, r) /\ rc'[r] \in Nat
  BY <1>1, <1>2, <1>3
<1>6. D \subseteq Heap /\ D \subseteq alloc
  <2>1. D \subseteq Heap
    BY DEF D
  <2>2. ASSUME NEW r \in D PROVE r \in alloc
    <3>1. r \in Region /\ r \in Heap
      BY <2>1 DEF Region
    <3>2. Count(s, r) > 0 /\ Count(s, r) <= rc[r] /\ Count(s, r) \in Nat /\ rc[r] \in Nat
      BY <1>1, <1>3, <1>4, <3>1
    <3> QED BY <3>1, <3>2 DEF MemInv, InUse
  <2> QED BY <2>1, <2>2
<1>7. StoreOK'
  <2>1. Junk \in Seq(Datum)
    BY DEF Junk, Datum
  <2>2. mem' \in [Region -> Seq(Datum)]
    BY <1>1, <1>2, <2>1
  <2>3. rc' \in [Region -> Nat] /\ alloc' \in SUBSET Region
    BY <1>1, <1>2, <1>5
  <2> QED BY <2>2, <2>3 DEF StoreOK, DropFrom
<1>8. ObjectsOK'
  <2>1. ASSUME NEW j \in Handle, val'[j].slices = <<>>, val'[j].type \in {"gone", "bytes"},
               want'[j] = <<>>
        PROVE  ObjectOK(val'[j], want'[j], mem', rc')
    BY <2>1, ReadsEmpty DEF ObjectOK, Shape
  <2>2. ASSUME NEW j \in Handle, j # k, val'[j] = val[j], want'[j] = want[j]
        PROVE  ObjectOK(val'[j], want'[j], mem', rc')
    <3>1. val[j] \in Object /\ ObjectOK(val[j], want[j], mem, rc)
      BY <1>1 DEF MemInv, ObjectsOK
    <3>2. ASSUME NEW r \in Region, Count(val[j].slices, r) > 0
          PROVE  mem'[r] = mem[r]
      <4>1. Count(s, r) + Count(val[j].slices, r) <= Refs(val, r)
        BY <1>1, <2>2, RefsTwo DEF s
      <4>2. rc[r] = Refs(val, r) /\ Count(val[j].slices, r) \in Nat
        BY <3>1, ObjectFields, CountType DEF MemInv, Counted
      <4>3. rc[r] # Count(s, r)
        BY <1>3, <3>2, <4>1, <4>2
      <4> QED BY <1>2, <1>4, <4>3
    <3>3. ASSUME NEW r \in Region, Count(val[j].slices, r) > 0, val[j].type \in {"vector", "mut"}
          PROVE  rc'[r] = rc[r]
      <4>1. val[j].slices[1] \in Region /\ val[j].slices = <<val[j].slices[1]>>
            /\ rc[val[j].slices[1]] = 1
        BY <3>3, OneSlice
      <4>2. Count(<<val[j].slices[1]>>, r) = IF val[j].slices[1] = r THEN 1 ELSE 0
        BY <4>1, CountOne
      <4>3. val[j].slices[1] = r
        BY <3>3, <4>1, <4>2
      <4>4. Count(s, r) = 0
        BY <2>2, <3>3, <4>1, <4>3, Exclusive DEF s
      <4> QED BY <1>1, <1>5, <4>4
    <3>4. ObjectOK(val[j], want[j], mem', rc')
      BY <3>1, <3>2, <3>3, Untouched
    <3> QED BY <2>2, <3>4
  <2>3. ASSUME NEW j \in Handle PROVE ObjectOK(val'[j], want'[j], mem', rc')
    BY <2>1, <2>2 DEF DropFrom
  <2> QED BY <2>3 DEF ObjectsOK
<1>9. Counted'
  <2>1. OnlyAt(val, val', k) /\ val'[k].slices = <<>>
    BY <1>1 DEF OnlyAt, DropFrom
  <2>2. ASSUME NEW r \in Region PROVE rc'[r] = Refs(val', r)
    <3>1. /\ Refs(val', r) = Refs(val, r) - Count(val[k].slices, r) + Count(val'[k].slices, r)
          /\ Refs(val, r) \in Nat /\ Count(val[k].slices, r) \in Nat
      BY <2>1, RefsOnlyAt
    <3>2. Count(val'[k].slices, r) = 0
      BY <2>1, CountEmpty
    <3>3. rc[r] = Refs(val, r)
      BY DEF MemInv, Counted
    <3> QED BY <1>5, <3>1, <3>2, <3>3 DEF s
  <2> QED BY <2>2 DEF Counted
<1>10. InUse'
  <2>1. ASSUME NEW r \in Heap PROVE r \in alloc' <=> rc'[r] > 0
    <3>1. r \in Region /\ (r \in alloc <=> rc[r] > 0)
      BY DEF Region, MemInv, InUse
    <3>2. rc'[r] = rc[r] - Count(s, r) /\ Count(s, r) \in Nat /\ Count(s, r) <= rc[r]
          /\ rc[r] \in Nat
      BY <1>1, <1>3, <1>5, <3>1
    <3>3. r \in D <=> Count(s, r) > 0 /\ rc[r] = Count(s, r)
      BY <1>4, <3>1
    <3> QED BY <1>2, <3>1, <3>2, <3>3
  <2>2. ASSUME NEW c \in Chunk, rc'[c] > 0 PROVE c \in alloc'
    <3>1. c \in Region /\ c \notin D
      BY <1>6, Objects DEF Region
    <3>2. rc[c] > 0
      BY <1>1, <1>3, <1>5, <2>2, <3>1
    <3> QED BY <1>2, <3>1, <3>2 DEF MemInv, InUse
  <2> QED BY <2>1, <2>2 DEF InUse
<1>11. twice' => twice
  BY <1>2, <1>6, Zenon
<1> QED BY <1>7, <1>8, <1>9, <1>10, <1>11 DEF MemInv

\* The only reference to a region is written through.
Poke(h, d) ==
    /\ mem' = [mem EXCEPT ![val[h].slices[1]] = <<d>>]
    /\ want' = [want EXCEPT ![h] = <<d>>]
    /\ UNCHANGED <<val, alloc, rc>>

LEMMA PokeKeeps ==
    ASSUME MemInv, NEW h \in Handle, NEW d \in Data, Poke(h, d),
           NEW r \in Region, val[h].slices = <<r>>, rc[r] = 1
    PROVE  MemInv'
<1>1. /\ val \in [Handle -> Object] /\ want \in [Handle -> Seq(Datum)]
      /\ mem \in [Region -> Seq(Datum)] /\ rc \in [Region -> Nat]
  BY DEF MemInv, StoreOK
<1>2. <<d>> \in Seq(Datum) /\ val[h].slices[1] = r
  BY DEF Datum
<1>3. /\ mem' \in [Region -> Seq(Datum)] /\ mem'[r] = <<d>>
      /\ \A q \in Region \ {r} : mem'[q] = mem[q]
      /\ want' \in [Handle -> Seq(Datum)] /\ want'[h] = <<d>>
      /\ \A j \in Handle \ {h} : want'[j] = want[j]
      /\ val' = val /\ rc' = rc /\ alloc' = alloc
  BY <1>1, <1>2 DEF Poke
<1>4. StoreOK'
  BY <1>3 DEF MemInv, StoreOK
<1>5. ASSUME NEW j \in Handle, j # h PROVE ObjectOK(val[j], want[j], mem', rc)
  <2>1. val[j] \in Object /\ ObjectOK(val[j], want[j], mem, rc)
    BY <1>1 DEF MemInv, ObjectsOK
  <2>2. Count(val[h].slices, r) > 0
    BY CountOne
  <2>3. Count(val[j].slices, r) = 0
    BY <1>5, <2>2, Exclusive
  <2>4. \A q \in Region : Count(val[j].slices, q) > 0 => mem'[q] = mem[q]
    BY <1>3, <2>3
  <2> QED BY <2>1, <2>4, Untouched
<1>6. ObjectOK(val[h], <<d>>, mem', rc)
  <2>1. Reads(<<r>>, mem') = mem'[r]
    BY <1>3, ReadsOne
  <2> QED BY <1>3, <2>1 DEF MemInv, ObjectsOK, ObjectOK
<1>7. ObjectsOK'
  BY <1>3, <1>5, <1>6 DEF ObjectsOK
<1>8. Counted' /\ InUse'
  BY <1>3 DEF MemInv, Counted, InUse
<1> QED BY <1>4, <1>7, <1>8 DEF MemInv

\* Regions without references change hands or are given back.
LEMMA CollectKeeps ==
    ASSUME MemInv, UNCHANGED <<val, want>>, rc' = rc,
           mem' \in [Region -> Seq(Datum)], alloc' \in SUBSET Region,
           \A q \in Region : rc[q] > 0 => mem'[q] = mem[q],
           \A q \in Heap : q \in alloc' <=> q \in alloc,
           \A q \in Chunk : rc[q] > 0 /\ q \in alloc => q \in alloc'
    PROVE  MemInv'
<1>1. val \in [Handle -> Object] /\ rc \in [Region -> Nat]
  BY DEF MemInv, StoreOK
<1>2. StoreOK'
  BY DEF MemInv, StoreOK
<1>3. ASSUME NEW j \in Handle PROVE ObjectOK(val[j], want[j], mem', rc)
  <2>1. val[j] \in Object /\ ObjectOK(val[j], want[j], mem, rc)
    BY <1>1 DEF MemInv, ObjectsOK
  <2>2. ASSUME NEW q \in Region, Count(val[j].slices, q) > 0 PROVE mem'[q] = mem[q]
    <3>1. rc[q] # 0
      BY <2>2, Unreferenced
    <3> QED BY <1>1, <3>1
  <2> QED BY <2>1, <2>2, Untouched
<1>4. ObjectsOK'
  BY <1>3 DEF ObjectsOK
<1>5. Counted' /\ InUse'
  BY DEF MemInv, Counted, InUse
<1> QED BY <1>2, <1>4, <1>5 DEF MemInv

\* The slices of b are moved to the end of those of w.
LEMMA AppendKeeps ==
    ASSUME MemInv, NEW w \in Handle, NEW b \in Handle, append(w, b)
    PROVE  MemInv'
<1>1. /\ val \in [Handle -> Object] /\ want \in [Handle -> Seq(Datum)]
      /\ want[w] \in Seq(Datum) /\ want[b] \in Seq(Datum) /\ mem \in [Region -> Seq(Datum)]
      /\ val[w].slices \in Seq(Region) /\ val[b].slices \in Seq(Region)
  BY ObjectFields DEF MemInv, StoreOK
<1>2. w # b
  BY DEF append, Is
<1> DEFINE s == Joined(val[w].slices, val[b].slices)
           d == Joined(want[w], want[b])
<1>3. s \in Seq(Region) /\ d \in Seq(Datum)
  BY <1>1, ConcatProperties DEF Joined
<1>4. /\ val' = [val EXCEPT ![w] = Obj("writer", s), ![b] = Gone]
      /\ want' = [want EXCEPT ![w] = d, ![b] = <<>>]
      /\ mem' = mem /\ alloc' = alloc /\ rc' = rc
  BY <1>1, <1>2 DEF append, Joined
<1> HIDE DEF s, d
<1>5. /\ val'[w] = [type |-> "writer", slices |-> s] /\ want'[w] = d
      /\ val'[b] = Gone /\ want'[b] = <<>>
      /\ \A j \in Handle \ {w, b} : val'[j] = val[j] /\ want'[j] = want[j]
  BY <1>1, <1>2, <1>4 DEF Obj
<1>6. StoreOK'
  <2>1. Obj("writer", s) \in Object /\ Gone \in Object
    BY <1>3 DEF Obj, Object, Gone, Type
  <2>2. val' \in [Handle -> Object]
    BY <1>1, <1>4, <2>1
  <2>3. want' \in [Handle -> Seq(Datum)]
    <3>1. <<>> \in Seq(Datum)
      OBVIOUS
    <3> QED BY <1>1, <1>3, <1>4, <3>1
  <2> QED BY <1>4, <2>2, <2>3 DEF MemInv, StoreOK
<1>7. ObjectsOK'
  <2>1. ObjectOK(val'[w], want'[w], mem, rc)
    <3>1. Reads(s, mem) = Joined(Reads(val[w].slices, mem), Reads(val[b].slices, mem))
      BY <1>1, ReadsConcat DEF s
    <3>2. Reads(val[w].slices, mem) = want[w] /\ Reads(val[b].slices, mem) = want[b]
      BY DEF MemInv, ObjectsOK, ObjectOK
    <3> QED BY <1>5, <3>1, <3>2 DEF ObjectOK, Shape, d
  <2>2. ObjectOK(val'[b], want'[b], mem, rc)
    BY <1>5, ReadsEmpty DEF ObjectOK, Shape, Gone, Obj
  <2>3. ASSUME NEW j \in Handle \ {w, b} PROVE ObjectOK(val'[j], want'[j], mem, rc)
    BY <1>5 DEF MemInv, ObjectsOK
  <2> QED BY <1>4, <2>1, <2>2, <2>3 DEF ObjectsOK
<1>8. Counted'
  <2>1. OnlyAtTwo(val, val', w, b)
    BY <1>1, <1>2, <1>5, <1>6 DEF OnlyAtTwo, StoreOK
  <2>2. ASSUME NEW r \in Region PROVE rc[r] = Refs(val', r)
    <3>1. /\ Refs(val', r) = Refs(val, r) - Count(val[w].slices, r) - Count(val[b].slices, r)
                               + Count(val'[w].slices, r) + Count(val'[b].slices, r)
          /\ Refs(val, r) \in Nat /\ Count(val[w].slices, r) \in Nat
          /\ Count(val[b].slices, r) \in Nat
      BY <2>1, RefsOnlyAtTwo
    <3>2. Count(s, r) = Count(val[w].slices, r) + Count(val[b].slices, r)
      BY <1>1, CountConcat DEF s, Joined
    <3>3. Count(val'[w].slices, r) = Count(s, r) /\ Count(val'[b].slices, r) = 0
      BY <1>5, CountEmpty DEF Gone, Obj
    <3>4. rc[r] = Refs(val, r)
      BY DEF MemInv, Counted
    <3> QED BY <3>1, <3>2, <3>3, <3>4
  <2> QED BY <1>4, <2>2 DEF Counted
<1>9. InUse'
  BY <1>4 DEF MemInv, InUse
<1> QED BY <1>6, <1>7, <1>8, <1>9 DEF MemInv

-----------------------------------------------------------------------------
(* Regions that are given out.                                              *)

\* The process allocates memory that was not in use.
LEMMA AllocateGives ==
    ASSUME MemInv, NEW r \in Heap, NEW d \in Seq(Datum), Allocate(r, d)
    PROVE  r \in Region /\ GivenOut(r, d) /\ twice' = twice
<1>1. r \in Region /\ mem \in [Region -> Seq(Datum)] /\ rc \in [Region -> Nat]
      /\ alloc \in SUBSET Region
  BY DEF MemInv, StoreOK, Region
<1>2. rc[r] = 0
  BY <1>1 DEF Allocate, MemInv, InUse
<1>3. Preserved(r)
  BY <1>1 DEF Allocate, Preserved
<1> QED BY <1>1, <1>2, <1>3 DEF Allocate, GivenOut

\* The backend gives out a chunk that was not in use, or that it just got back.
LEMMA ReserveGives ==
    ASSUME MemInv, NEW c \in Chunk, NEW collect \in BOOLEAN, NEW n, Reserve(c, collect, n)
    PROVE  /\ c \in Region /\ rc[c] = 0 /\ rc' = [rc EXCEPT ![c] = n]
           /\ mem'[c] = Junk /\ c \in alloc'
           /\ Preserved(c) /\ twice' = twice
<1> DEFINE freed == IF collect THEN Garbage ELSE {}
<1>1. /\ c \in Region /\ mem \in [Region -> Seq(Datum)] /\ rc \in [Region -> Nat]
      /\ alloc \in SUBSET Region /\ Junk \in Seq(Datum)
  BY DEF MemInv, StoreOK, Region, Junk, Datum
<1>2. \A q \in freed : q \in Chunk /\ q \notin Heap /\ q \in alloc /\ rc[q] = 0
  BY Objects DEF Garbage
<1>3. /\ c \in Chunk \ (alloc \ freed)
      /\ alloc' = (alloc \ freed) \cup {c}
      /\ mem' = [r \in Region |-> IF r \in freed \cup {c} THEN Junk ELSE mem[r]]
      /\ rc' = [rc EXCEPT ![c] = n] /\ twice' = twice
  BY DEF Reserve
<1> HIDE DEF freed
<1>4. rc[c] = 0
  <2>1. CASE c \in freed
    BY <1>2, <2>1
  <2>2. CASE c \notin alloc
    BY <1>1, <2>2 DEF MemInv, InUse
  <2> QED BY <1>3, <2>1, <2>2
<1>5. mem'[c] = Junk /\ c \in alloc'
  BY <1>1, <1>3
<1>6. Preserved(c)
  <2>1. mem' \in [Region -> Seq(Datum)] /\ alloc' \in SUBSET Region
    BY <1>1, <1>3
  <2>2. ASSUME NEW q \in Region \ {c}, rc[q] > 0 PROVE mem'[q] = mem[q]
    <3>1. q \notin freed
      BY <1>2, <2>2
    <3> QED BY <1>3, <3>1
  <2>3. \A q \in Heap \ {c} : q \in alloc' <=> q \in alloc
    BY <1>2, <1>3
  <2>4. ASSUME NEW q \in Chunk \ {c}, rc[q] > 0, q \in alloc PROVE q \in alloc'
    <3>1. q \notin freed
      BY <1>2, <2>4
    <3> QED BY <1>3, <2>4, <3>1
  <2> QED BY <2>1, <2>2, <2>3, <2>4 DEF Preserved
<1> QED BY <1>1, <1>3, <1>4, <1>5, <1>6

\* A new object with one region of its own.
LEMMA FreshKeeps ==
    ASSUME MemInv, NEW h \in Handle, NEW r \in Region, NEW d \in Seq(Datum),
           NEW t \in {"bytes", "vector", "mut"},
           Free(h), Become(h, t, <<r>>, d), GivenOut(r, d),
           t # "bytes" => (r \in Heap <=> t = "vector")
    PROVE  MemInv'
<1>1. val[h].slices = <<>> /\ want[h] = <<>>
  BY FreeObject
<1>2. Append(val[h].slices, r) = <<r>>
  BY <1>1, AppendEmpty
<1>3. Joined(want[h], d) = d
  BY <1>1, ConcatEmptySeq DEF Joined
<1>4. AddRegion(h, t, r, d)
  BY <1>2, <1>3 DEF AddRegion, Become, GivenOut
<1> QED BY <1>1, <1>4, AddRegionKeeps

-----------------------------------------------------------------------------
(* The Reader.                                                              *)

\* Objects read as what was put into them.
LEMMA ReadsAsWanted ==
    ASSUME MemInv, NEW h \in Handle
    PROVE  Contents(h) = want[h] /\ size(h) = Len(want[h]) /\ want[h] \in Seq(Datum)
<1>1. Contents(h) = want[h]
  BY ContentsIsReads DEF MemInv, ObjectsOK, ObjectOK
<1> QED BY <1>1 DEF size, MemInv, StoreOK

\* A Reader does not notice what happens to objects other than its Bytes.
LEMMA ReaderKept ==
    ASSUME ReaderOK, reader' = reader, NEW h, NEW k,
           \A j \in Handle \ {h, k} : val'[j] = val[j] /\ want'[j] = want[j],
           \A j \in {h, k} : val[j].type # "bytes" \/ Idle(j)
    PROVE  ReaderOK'
<1>1. CASE reader = NoReader
  BY <1>1 DEF ReaderOK
<1>2. ASSUME NEW b \in Handle, reader.on = {b}, val[b].type = "bytes",
             reader = [on |-> {b}, pos |-> reader.pos], reader.pos \in 0..Len(want[b])
      PROVE  ReaderOK'
  <2>1. b \notin {h, k}
    BY <1>2 DEF Idle
  <2>2. val'[b] = val[b] /\ want'[b] = want[b]
    BY <1>2, <2>1
  <2> QED BY <1>2, <2>2 DEF ReaderOK
<1> QED BY <1>1, <1>2 DEF ReaderOK

LEMMA OpenReaderOK ==
    ASSUME MemInv, NEW h \in Handle, OpenReader(h)
    PROVE  ReaderOK'
<1>1. 0 \in 0..Len(want[h])
  BY ReadsAsWanted
<1>2. reader' = [on |-> {h}, pos |-> 0] /\ val' = val /\ want' = want /\ val[h].type = "bytes"
  BY DEF OpenReader, Is
<1>3. reader'.on = {h} /\ reader'.pos = 0
  BY <1>2
<1>4. reader' = [on |-> {h}, pos |-> reader'.pos] /\ reader'.pos \in 0..Len(want'[h])
  BY <1>1, <1>2, <1>3
<1>5. val'[h].type = "bytes"
  BY <1>2
<1> QED BY <1>3, <1>4, <1>5 DEF ReaderOK

\* Only the position of the Reader changes, and stays inside of the Bytes.
LEMMA PositionOK ==
    ASSUME ReaderOK, NEW h \in Handle, reader.on = {h}, UNCHANGED <<val, want>>,
           NEW p, reader' = [reader EXCEPT !.pos = p], p \in 0..Len(want[h])
    PROVE  ReaderOK'
<1>1. /\ val[h].type = "bytes" /\ reader = [on |-> {h}, pos |-> reader.pos]
  BY DEF ReaderOK, NoReader
<1>2. reader' = [on |-> {h}, pos |-> p]
  BY <1>1
<1> QED BY <1>1, <1>2 DEF ReaderOK

LEMMA ReadOK ==
    ASSUME MemInv, ReaderOK, NEW h \in Handle, NEW n \in Nat, read(h, n)
    PROVE  ReaderOK'
<1>1. size(h) = Len(want[h]) /\ Len(want[h]) \in Nat
  BY ReadsAsWanted
<1>2. reader.on = {h} /\ reader.pos \in 0..Len(want[h])
  BY DEF read, ReaderOK, NoReader
<1>3. reader.pos + ReadCount(h, n) \in 0..Len(want[h])
  BY <1>1, <1>2 DEF ReadCount, remaining
<1>4. reader' = [reader EXCEPT !.pos = reader.pos + ReadCount(h, n)]
      /\ val' = val /\ want' = want
  BY DEF read
<1> QED BY <1>2, <1>3, <1>4, PositionOK

LEMMA SeekOK ==
    ASSUME MemInv, ReaderOK, NEW h \in Handle, seek(h)
    PROVE  ReaderOK'
<1>1. size(h) = Len(want[h]) /\ reader.on = {h} /\ val' = val /\ want' = want
  BY ReadsAsWanted DEF seek
<1>2. tell \in 0..Len(want[h])
  BY <1>1 DEF ReaderOK, NoReader, tell
<1>3. PICK w \in {"start", "current", "end"}, o \in -MaxOffset..MaxOffset :
        reader' = [reader EXCEPT !.pos = SeekFrom(h, w, o)]
  BY DEF seek
<1>4. SeekFrom(h, w, o) \in 0..Len(want[h])
  BY <1>1, <1>2, BytesBounds DEF SeekFrom
<1> QED BY <1>1, <1>3, <1>4, PositionOK

-----------------------------------------------------------------------------
(* The steps of payloads.                                                   *)

LEMMA NewVector ==
    ASSUME BytesInv, NEW h \in Handle, NEW r \in Heap, NEW d \in Data, MakeVector(h, r, d)
    PROVE  BytesInv'
<1>1. <<d>> \in Seq(Datum) /\ val \in [Handle -> Object] /\ want \in [Handle -> Seq(Datum)]
  BY DEF Datum, BytesInv, MemInv, StoreOK
<1>2. r \in Region /\ GivenOut(r, <<d>>) /\ twice' = twice
  BY <1>1, AllocateGives DEF BytesInv, MakeVector
<1>3. MemInv'
  BY <1>1, <1>2, FreshKeeps DEF BytesInv, MakeVector
<1>4. ReaderOK'
  <2>1. reader' = reader /\ val[h].type # "bytes"
    BY DEF MakeVector, Free, Gone, Obj
  <2>2. \A j \in Handle \ {h, h} : val'[j] = val[j] /\ want'[j] = want[j]
    BY <1>1 DEF MakeVector, Become
  <2> QED BY <2>1, <2>2, ReaderKept DEF BytesInv
<1> QED BY <1>2, <1>3, <1>4 DEF BytesInv

\* The constructors that copy a buffer, and as_vector that copies a payload.
LEMMA NewCopy ==
    ASSUME BytesInv, NEW h \in Handle, NEW k \in Handle, NEW r \in Heap,
           CopyFrom(h, k, r) \/ as_vector(h, k, r)
    PROVE  BytesInv'
<1>1. /\ Contents(k) = want[k] /\ size(k) = Len(want[k]) /\ want[k] \in Seq(Datum)
      /\ val \in [Handle -> Object] /\ want \in [Handle -> Seq(Datum)]
  BY ReadsAsWanted DEF BytesInv, MemInv, StoreOK
<1>2. SubSeq(want[k], 1, Len(want[k])) = want[k]
  BY <1>1
<1>3. Free(h) /\ Allocate(r, want[k]) /\ reader' = reader
  BY <1>1, <1>2 DEF CopyFrom, as_vector
<1>4. r \in Region /\ GivenOut(r, want[k]) /\ twice' = twice
  BY <1>1, <1>3, AllocateGives DEF BytesInv
<1>5. PICK t \in {"bytes", "vector"} : Become(h, t, <<r>>, want[k])
  BY DEF CopyFrom, as_vector
<1>6. MemInv'
  BY <1>1, <1>3, <1>4, <1>5, FreshKeeps DEF BytesInv
<1>7. ReaderOK'
  <2>1. val[h].type # "bytes"
    BY <1>3 DEF Free, Gone, Obj
  <2>2. \A j \in Handle \ {h, h} : val'[j] = val[j] /\ want'[j] = want[j]
    BY <1>1, <1>5 DEF Become
  <2> QED BY <1>3, <2>1, <2>2, ReaderKept DEF BytesInv
<1> QED BY <1>4, <1>6, <1>7 DEF BytesInv

LEMMA Written ==
    ASSUME BytesInv, NEW h \in Handle, NEW r \in Heap, NEW d \in Data, write_all(h, r, d)
    PROVE  BytesInv'
<1>1. /\ <<d>> \in Seq(Datum) /\ val \in [Handle -> Object] /\ want \in [Handle -> Seq(Datum)]
      /\ want[h] \in Seq(Datum) /\ d \in Datum
  BY DEF Datum, BytesInv, MemInv, StoreOK
<1>2. r \in Region /\ GivenOut(r, <<d>>) /\ twice' = twice
  BY <1>1, AllocateGives DEF BytesInv, write_all
<1>3. Joined(want[h], <<d>>) = Append(want[h], d)
  BY <1>1 DEF Joined
<1>4. AddRegion(h, "writer", r, <<d>>)
  BY <1>2, <1>3 DEF write_all, AddRegion, Become
<1>5. MemInv'
  BY <1>1, <1>2, <1>4, AddRegionKeeps DEF BytesInv
<1>6. ReaderOK'
  <2>1. reader' = reader /\ val[h].type # "bytes"
    BY DEF write_all, Is
  <2>2. \A j \in Handle \ {h, h} : val'[j] = val[j] /\ want'[j] = want[j]
    BY <1>1 DEF write_all, Become
  <2> QED BY <2>1, <2>2, ReaderKept DEF BytesInv
<1> QED BY <1>2, <1>5, <1>6 DEF BytesInv

\* An object that is not a Bytes moves.
LEMMA Moved ==
    ASSUME BytesInv, NEW h \in Handle, NEW k \in Handle, NEW t \in {"bytes", "mut", "shm"},
           MoveTo(h, k, t), val[k].type # "bytes",
           t # "bytes" => val[k].type \in {"mut", "shm"},
           t = "mut" => rc[val[k].slices[1]] = 1,
           reader' = reader, twice' = twice
    PROVE  BytesInv'
<1>1. MemInv'
  BY MoveKeeps DEF BytesInv
<1>2. val[h].type # "bytes"
  BY DEF MoveTo, Free, Gone, Obj
<1>3. \A j \in Handle \ {h, k} : val'[j] = val[j] /\ want'[j] = want[j]
  BY DEF BytesInv, MemInv, StoreOK, MoveTo
<1>4. ReaderOK'
  BY <1>2, <1>3, ReaderKept DEF BytesInv
<1> QED BY <1>1, <1>4 DEF BytesInv

LEMMA Dropped ==
    ASSUME BytesInv, NEW h \in Handle, NEW k \in Handle, DropFrom(k),
           \A j \in Handle \ {h, k} : val'[j] = val[j] /\ want'[j] = want[j],
           \A j \in {h, k} : val[j].type # "bytes" \/ Idle(j),
           reader' = reader
    PROVE  BytesInv'
<1>1. MemInv' /\ (twice' => twice)
  BY DropKeeps DEF BytesInv
<1>2. ReaderOK'
  BY ReaderKept DEF BytesInv
<1> QED BY <1>1, <1>2 DEF BytesInv

\* Destroy, and an append that fails.
LEMMA Destroyed ==
    ASSUME BytesInv, NEW k \in Handle, Idle(k), Become(k, "gone", <<>>, <<>>),
           DropSlices(val[k].slices), reader' = reader
    PROVE  BytesInv'
<1>1. val \in [Handle -> Object] /\ want \in [Handle -> Seq(Datum)]
  BY DEF BytesInv, MemInv, StoreOK
<1>2. Gone \in Object /\ <<>> \in Seq(Datum)
  BY DEF Gone, Obj, Object, Type
<1>3. val' = [val EXCEPT ![k] = Gone] /\ want' = [want EXCEPT ![k] = <<>>]
  BY DEF Become, Gone
<1>4. val' \in [Handle -> Object] /\ want' \in [Handle -> Seq(Datum)]
  BY <1>1, <1>2, <1>3
<1>5. /\ val'[k] = Gone /\ want'[k] = <<>>
      /\ \A j \in Handle \ {k, k} : val'[j] = val[j] /\ want'[j] = want[j]
  BY <1>1, <1>3
<1>6. DropFrom(k)
  BY <1>4, <1>5 DEF DropFrom, Gone, Obj
<1> QED BY <1>5, <1>6, Dropped

LEMMA Cloned ==
    ASSUME BytesInv, NEW h \in Handle, NEW k \in Handle, clone(h, k)
    PROVE  BytesInv'
<1>1. Share(h, k, "bytes") /\ val[k].type = "bytes" /\ val[h].type # "bytes"
  BY DEF clone, Share, Become, Is, Free, Gone, Obj
<1>2. MemInv' /\ twice' = twice
  BY <1>1, ShareKeeps DEF BytesInv, clone, ShareSlices
<1>3. reader' = reader /\ \A j \in Handle \ {h, h} : val'[j] = val[j] /\ want'[j] = want[j]
  BY DEF BytesInv, MemInv, StoreOK, clone, Become
<1>4. ReaderOK'
  BY <1>1, <1>3, ReaderKept DEF BytesInv
<1> QED BY <1>2, <1>4 DEF BytesInv

LEMMA Appended ==
    ASSUME BytesInv, NEW w \in Handle, NEW b \in Handle, append(w, b)
    PROVE  BytesInv'
<1>1. MemInv' /\ twice' = twice
  BY AppendKeeps DEF BytesInv, append
<1>2. \A j \in Handle \ {w, b} : val'[j] = val[j] /\ want'[j] = want[j]
  BY DEF BytesInv, MemInv, StoreOK, append, Is
<1>3. \A j \in {w, b} : val[j].type # "bytes" \/ Idle(j)
  BY DEF append, Is
<1>4. ReaderOK /\ reader' = reader
  BY DEF BytesInv, append
<1>5. ReaderOK'
  BY <1>2, <1>3, <1>4, ReaderKept
<1> QED BY <1>1, <1>5 DEF BytesInv

\* A buffer is written to through the only reference to it.
LEMMA Poked ==
    ASSUME BytesInv, NEW h \in Handle, NEW d \in Data, NEW r \in Region, Poke(h, d),
           val[h].slices = <<r>>, rc[r] = 1, val[h].type # "bytes" \/ Idle(h),
           reader' = reader, twice' = twice
    PROVE  BytesInv'
<1>1. MemInv'
  BY PokeKeeps DEF BytesInv
<1>2. \A j \in Handle \ {h, h} : val'[j] = val[j] /\ want'[j] = want[j]
  BY DEF BytesInv, MemInv, StoreOK, Poke
<1>3. ReaderOK'
  BY <1>2, ReaderKept DEF BytesInv
<1> QED BY <1>1, <1>3 DEF BytesInv

LEMMA Retyped ==
    ASSUME BytesInv, NEW h \in Handle, NEW t \in {"bytes", "writer", "sent"}, Retype(h, t),
           val[h].type # "bytes" \/ Idle(h), reader' = reader, twice' = twice
    PROVE  BytesInv'
<1>1. MemInv'
  BY RetypeKeeps DEF BytesInv
<1>2. \A j \in Handle \ {h, h} : val'[j] = val[j] /\ want'[j] = want[j]
  BY DEF BytesInv, MemInv, StoreOK, Retype
<1>3. ReaderOK'
  BY <1>2, ReaderKept DEF BytesInv
<1> QED BY <1>1, <1>3 DEF BytesInv

\* Only the Reader changes.
LEMMA OnlyReader ==
    ASSUME BytesInv, UNCHANGED <<val, want, mem, alloc, rc, twice>>, ReaderOK'
    PROVE  BytesInv'
<1>1. StoreOK' /\ ObjectsOK' /\ Counted' /\ InUse'
  BY DEF BytesInv, MemInv, StoreOK, ObjectsOK, Counted, InUse
<1> QED BY <1>1 DEF BytesInv, MemInv

LEMMA BytesStep == ASSUME BytesInv, BytesNext PROVE BytesInv'
<1>1. ASSUME NEW h \in Handle, NEW k \in Handle, TakeFrom(h, k) PROVE BytesInv'
  <2>1. /\ MoveTo(h, k, "bytes") /\ val[k].type # "bytes"
        /\ reader' = reader /\ twice' = twice
    BY <1>1 DEF TakeFrom, MoveTo, Is, Free, Gone, Obj
  <2> QED BY <2>1, Moved
<1>2. ASSUME NEW h \in Handle, NEW k \in Handle, finish(h, k) PROVE BytesInv'
  <2>1. /\ MoveTo(h, k, "bytes") /\ val[k].type # "bytes"
        /\ reader' = reader /\ twice' = twice
    BY <1>2 DEF finish, MoveTo, Is, Free, Gone, Obj
  <2> QED BY <2>1, Moved
<1>3. ASSUME NEW h \in Handle, NEW k \in Handle, AppendFails(h, k) PROVE BytesInv'
  BY <1>3, Destroyed DEF AppendFails
<1>4. ASSUME NEW h \in Handle, Destroy(h) PROVE BytesInv'
  BY <1>4, Destroyed DEF Destroy
<1>5. ASSUME NEW h \in Handle, NEW d \in Data, Write(h, d) PROVE BytesInv'
  <2>1. val[h].type \in {"vector", "mut"}
    BY <1>5 DEF Write
  <2>2. /\ val[h].slices[1] \in Region /\ val[h].slices = <<val[h].slices[1]>>
        /\ rc[val[h].slices[1]] = 1
    BY <2>1, OneSlice DEF BytesInv
  <2>3. Poke(h, d) /\ reader' = reader /\ twice' = twice
    BY <1>5 DEF Write, Poke
  <2> QED BY <2>1, <2>2, <2>3, Poked
<1>6. ASSUME NEW h \in Handle, NEW t \in {"bytes", "writer"}, Empty(h, t) PROVE BytesInv'
  <2>1. val[h].slices = <<>> /\ want[h] = <<>> /\ val[h].type # "bytes"
    BY <1>6, FreeObject DEF BytesInv, Empty
  <2>2. want' = want
    BY <1>6, <2>1 DEF Empty, Become, BytesInv, MemInv, StoreOK
  <2>3. Retype(h, t) /\ reader' = reader /\ twice' = twice
    BY <1>6, <2>1, <2>2 DEF Retype, Empty, Become
  <2> QED BY <2>1, <2>3, Retyped
<1>7. ASSUME NEW h \in Handle, OpenReader(h) PROVE BytesInv'
  <2>1. ReaderOK'
    BY <1>7, OpenReaderOK DEF BytesInv
  <2> QED BY <1>7, <2>1, OnlyReader DEF OpenReader
<1>8. ASSUME CloseReader PROVE BytesInv'
  <2>1. ReaderOK'
    BY <1>8 DEF CloseReader, ReaderOK
  <2> QED BY <1>8, <2>1, OnlyReader DEF CloseReader
<1>9. ASSUME NEW h \in Handle, NEW n \in 0..MaxLen, read(h, n) PROVE BytesInv'
  <2>1. n \in Nat
    BY BytesBounds
  <2>2. ReaderOK'
    BY <1>9, <2>1, ReadOK DEF BytesInv
  <2> QED BY <1>9, <2>2, OnlyReader DEF read
<1>10. ASSUME NEW h \in Handle, seek(h) PROVE BytesInv'
  <2>1. ReaderOK'
    BY <1>10, SeekOK DEF BytesInv
  <2> QED BY <1>10, <2>1, OnlyReader DEF seek
<1> QED
  BY <1>1, <1>2, <1>3, <1>4, <1>5, <1>6, <1>7, <1>8, <1>9, <1>10,
     NewVector, NewCopy, Written, Cloned, Appended DEF BytesNext

-----------------------------------------------------------------------------
(* The steps of shared memory.                                              *)

\* alloc and its kin, and a result of an asynchronous one that is kept.
LEMMA NewMut ==
    ASSUME BytesInv, NEW h \in Handle, NEW c \in Chunk, NEW collect \in BOOLEAN,
           ToMut(h, c), Reserve(c, collect, 1), reader' = reader
    PROVE  BytesInv'
<1>1. /\ Junk \in Seq(Datum) /\ val \in [Handle -> Object] /\ want \in [Handle -> Seq(Datum)]
      /\ c \notin Heap
  BY Objects DEF Junk, Datum, BytesInv, MemInv, StoreOK
<1>2. c \in Region /\ GivenOut(c, Junk) /\ twice' = twice
  BY ReserveGives DEF BytesInv, GivenOut
<1>3. MemInv'
  BY <1>1, <1>2, FreshKeeps DEF BytesInv, ToMut
<1>4. ReaderOK'
  <2>1. val[h].type # "bytes"
    BY DEF ToMut, Free, Gone, Obj
  <2>2. \A j \in Handle \ {h, h} : val'[j] = val[j] /\ want'[j] = want[j]
    BY <1>1 DEF ToMut, Become
  <2> QED BY <2>1, <2>2, ReaderKept DEF BytesInv
<1> QED BY <1>2, <1>3, <1>4 DEF BytesInv

\* A result that the application lets go leaves a chunk without references.
LEMMA NewGarbage ==
    ASSUME BytesInv, NEW c \in Chunk, Reserve(c, TRUE, 0), UNCHANGED <<val, want, reader>>
    PROVE  BytesInv'
<1>1. /\ c \in Region /\ rc[c] = 0 /\ rc' = [rc EXCEPT ![c] = 0]
      /\ mem'[c] = Junk /\ c \in alloc' /\ Preserved(c) /\ twice' = twice
  BY ReserveGives DEF BytesInv
<1>2. rc' = rc
  BY <1>1 DEF BytesInv, MemInv, StoreOK
<1>3. MemInv'
  <2>1. c \notin Heap
    BY Objects
  <2>2. \A q \in Region : rc[q] > 0 => mem'[q] = mem[q]
    BY <1>1 DEF Preserved
  <2>3. /\ \A q \in Heap : q \in alloc' <=> q \in alloc
        /\ \A q \in Chunk : rc[q] > 0 /\ q \in alloc => q \in alloc'
    BY <1>1, <2>1 DEF Preserved
  <2>4. mem' \in [Region -> Seq(Datum)] /\ alloc' \in SUBSET Region
    BY <1>1 DEF Preserved
  <2> QED BY <1>2, <2>2, <2>3, <2>4, CollectKeeps DEF BytesInv
<1>4. ReaderOK'
  BY DEF BytesInv, ReaderOK
<1> QED BY <1>1, <1>3, <1>4 DEF BytesInv

LEMMA Collected == ASSUME BytesInv, garbage_collect PROVE BytesInv'
<1>1. /\ mem \in [Region -> Seq(Datum)] /\ alloc \in SUBSET Region /\ Junk \in Seq(Datum)
  BY DEF BytesInv, MemInv, StoreOK, Junk, Datum
<1>2. /\ alloc' = alloc \ Garbage
      /\ mem' = [r \in Region |-> IF r \in Garbage THEN Junk ELSE mem[r]]
      /\ rc' = rc /\ UNCHANGED <<val, want>> /\ reader' = reader /\ twice' = twice
  BY DEF garbage_collect
<1>3. \A q \in Garbage : q \in Chunk /\ q \notin Heap /\ rc[q] = 0
  BY Objects DEF Garbage
<1>4. MemInv'
  <2>1. mem' \in [Region -> Seq(Datum)] /\ alloc' \in SUBSET Region
    BY <1>1, <1>2
  <2>2. ASSUME NEW q \in Region, rc[q] > 0 PROVE q \notin Garbage
    BY <1>3, <2>2
  <2>3. \A q \in Region : rc[q] > 0 => mem'[q] = mem[q]
    BY <1>2, <2>2
  <2>4. \A q \in Heap : q \in alloc' <=> q \in alloc
    BY <1>2, <1>3
  <2>5. \A q \in Chunk : rc[q] > 0 /\ q \in alloc => q \in alloc'
    BY <1>2, <2>2 DEF Region
  <2> QED BY <1>2, <2>1, <2>3, <2>4, <2>5, CollectKeeps DEF BytesInv
<1>5. ReaderOK'
  BY <1>2 DEF BytesInv, ReaderOK
<1> QED BY <1>2, <1>4, <1>5 DEF BytesInv

LEMMA OnlyIndex == ASSUME NEW n \in Nat, n <= 1, NEW i \in 1..n PROVE n = 1 /\ i = 1
OBVIOUS

\* What as_shm finds.
LEMMA ShmSlice ==
    ASSUME MemInv, NEW h \in Handle, IsShm(h)
    PROVE  /\ val[h].type \in {"bytes", "shm"}
           /\ val[h].slices[1] \in Chunk /\ val[h].slices = <<val[h].slices[1]>>
<1>1. CASE Is(h, "shm")
  BY <1>1, OneSlice DEF Is, Region
<1>2. CASE as_shm(h)
  <2>1. val[h].type = "bytes" /\ Len(val[h].slices) <= 1 /\ val[h].slices \in Seq(Region)
    BY <1>2, ObjectFields DEF as_shm, Contiguous, Is, MemInv, StoreOK
  <2>2. PICK i \in DOMAIN val[h].slices : val[h].slices[i] \in Chunk
    BY <1>2 DEF as_shm, InSegment
  <2>3. Len(val[h].slices) = 1 /\ i = 1
    <3>1. Len(val[h].slices) \in Nat /\ DOMAIN val[h].slices = 1..Len(val[h].slices)
      BY <2>1
    <3>2. i \in 1..Len(val[h].slices)
      BY <3>1
    <3> QED BY <2>1, <3>1, <3>2, OnlyIndex
  <2> QED BY <2>1, <2>2, <2>3
<1> QED BY <1>1, <1>2 DEF IsShm

LEMMA ShmCopied ==
    ASSUME BytesInv, NEW h \in Handle, NEW k \in Handle, CopyShm(h, k)
    PROVE  BytesInv'
<1>1. Share(h, k, "shm") /\ val[h].type # "bytes"
  BY DEF CopyShm, Share, Become, Free, Gone, Obj
<1>2. val[k].type \in {"bytes", "shm"} /\ \E r \in Chunk : val[k].slices = <<r>>
  BY ShmSlice DEF BytesInv, CopyShm
<1>3. MemInv' /\ twice' = twice
  BY <1>1, <1>2, ShareKeeps DEF BytesInv, CopyShm, ShareSlices
<1>4. reader' = reader /\ \A j \in Handle \ {h, h} : val'[j] = val[j] /\ want'[j] = want[j]
  BY DEF BytesInv, MemInv, StoreOK, CopyShm, Become
<1>5. ReaderOK'
  BY <1>1, <1>4, ReaderKept DEF BytesInv
<1> QED BY <1>3, <1>5 DEF BytesInv

LEMMA FromShmFailed ==
    ASSUME BytesInv, NEW b \in Handle, NEW k \in Handle, FromShmFails(b, k)
    PROVE  BytesInv'
<1>1. val \in [Handle -> Object] /\ want \in [Handle -> Seq(Datum)]
  BY DEF BytesInv, MemInv, StoreOK
<1>2. Gone \in Object /\ Obj("bytes", <<>>) \in Object /\ <<>> \in Seq(Datum)
  BY DEF Gone, Obj, Object, Type
<1>3. /\ val' = [val EXCEPT ![b] = Obj("bytes", <<>>), ![k] = Gone]
      /\ want' = [want EXCEPT ![b] = <<>>, ![k] = <<>>]
      /\ DropSlices(val[k].slices) /\ reader' = reader
  BY DEF FromShmFails
<1>4. val' \in [Handle -> Object] /\ want' \in [Handle -> Seq(Datum)]
  BY <1>1, <1>2, <1>3
<1>5. val[b].type = "gone" /\ val[b].slices = <<>> /\ val[k].type \in {"shm", "mut"}
  BY DEF FromShmFails, Free, Gone, Obj
<1>6. /\ val'[k] = Gone /\ want'[k] = <<>>
      /\ val'[b] = Obj("bytes", <<>>) /\ want'[b] = <<>>
      /\ \A j \in Handle \ {b, k} : val'[j] = val[j] /\ want'[j] = want[j]
  BY <1>1, <1>3, <1>5
<1>7. DropFrom(k)
  BY <1>3, <1>4, <1>5, <1>6 DEF DropFrom, Gone, Obj
<1> QED BY <1>3, <1>5, <1>6, <1>7, Dropped

LEMMA ShmStep ==
    ASSUME IInv, ShmNext
    PROVE  BytesInv'
<1>0. BytesInv /\ MemInv /\ ReceiverLives
  BY DEF IInv, BytesInv
<1>1. ASSUME NEW h \in Handle, NEW k \in Handle, FromMut(h, k) PROVE BytesInv'
  <2>1. /\ MoveTo(h, k, "shm") /\ val[k].type = "mut"
        /\ reader' = reader /\ twice' = twice
    BY <1>1 DEF FromMut, MoveTo, Is, Free, Gone, Obj
  <2> QED BY <1>0, <2>1, Moved
<1>2. ASSUME NEW h \in Handle, NEW k \in Handle, try_mutate(h, k) PROVE BytesInv'
  <2>1. /\ MoveTo(h, k, "mut") /\ val[k].type = "shm" /\ rc[val[k].slices[1]] = 1
        /\ reader' = reader /\ twice' = twice
    BY <1>2 DEF try_mutate, MoveTo, Is, Unique, Free, Gone, Obj
  <2> QED BY <1>0, <2>1, Moved
<1>3. ASSUME NEW h \in Handle, NEW k \in Handle, FromShm(h, k) PROVE BytesInv'
  <2>1. /\ MoveTo(h, k, "bytes") /\ val[k].type # "bytes"
        /\ reader' = reader /\ twice' = twice
    BY <1>3 DEF FromShm, MoveTo, Free, Gone, Obj
  <2> QED BY <1>0, <2>1, Moved
<1>4. ASSUME NEW h \in Handle, NEW d \in Data, mutate_in_place(h, d) PROVE BytesInv'
  <2>1. /\ val[h].slices[1] \in Region /\ val[h].slices = <<val[h].slices[1]>>
        /\ rc[val[h].slices[1]] = 1
    BY <1>0, <1>4, ShmSlice DEF mutate_in_place, Unique, Region
  <2>2. Poke(h, d) /\ Idle(h) /\ reader' = reader /\ twice' = twice
    BY <1>4 DEF mutate_in_place, Poke
  <2> QED BY <1>0, <2>1, <2>2, Poked
<1>5. ASSUME NEW h \in Handle, Send(h) PROVE BytesInv'
  <2>1. Retype(h, "sent") /\ Idle(h) /\ reader' = reader /\ twice' = twice
    BY <1>5 DEF Send, Retype
  <2> QED BY <1>0, <2>1, Retyped
<1>6. ASSUME NEW h \in Handle, Receive(h) PROVE BytesInv'
  <2>1. Retype(h, "bytes") /\ val[h].type # "bytes" /\ reader' = reader /\ twice' = twice
    BY <1>6 DEF Receive, Retype, Is
  <2> QED BY <1>0, <2>1, Retyped
<1>7. ASSUME UNCHANGED bvars PROVE BytesInv'
  <2>1. ReaderOK'
    BY <1>0, <1>7 DEF bvars, BytesInv, ReaderOK
  <2> QED BY <1>0, <1>7, <2>1, OnlyReader DEF bvars
<1>8. ASSUME AsyncDrop PROVE BytesInv'
  <2>1. rlive
    BY <1>0, <1>8 DEF AsyncDrop, ReceiverLives
  <2>2. ~twice'
    BY <1>0, <1>8, <2>1, Zenon DEF AsyncDrop, BytesInv
  <2>3. MemInv'
    BY <1>0, <1>8 DEF AsyncDrop, MemInv, StoreOK, ObjectsOK, Counted, InUse
  <2>4. ReaderOK'
    BY <1>0, <1>8 DEF AsyncDrop, BytesInv, ReaderOK
  <2> QED BY <2>2, <2>3, <2>4 DEF BytesInv
<1>9. ASSUME NEW h \in Handle, NEW c \in Chunk, AsyncResultKept(h, c) PROVE BytesInv'
  <2>1. ToMut(h, c) /\ Reserve(c, TRUE, 1) /\ reader' = reader /\ TRUE \in BOOLEAN
    BY <1>9 DEF AsyncResultKept
  <2> QED BY <1>0, <2>1, NewMut
<1>10. ASSUME NEW h \in Handle, NEW c \in Chunk, NEW collect \in BOOLEAN, Alloc(h, c, collect)
       PROVE  BytesInv'
  BY <1>0, <1>10, NewMut DEF Alloc
<1>11. ASSUME NEW c \in Chunk, AsyncResultIgnored(c) PROVE BytesInv'
  BY <1>0, <1>11, NewGarbage DEF AsyncResultIgnored
<1>12. CASE BytesNext /\ UNCHANGED svars
  BY <1>0, <1>12, BytesStep
<1>13. CASE NewProvider \/ DestroyProvider \/ alloc_gc_defrag_async \/ AsyncError
  BY <1>7, <1>13 DEF NewProvider, DestroyProvider, alloc_gc_defrag_async, AsyncError
<1>14. ASSUME NEW h \in Handle, AttachFails(h) PROVE BytesInv'
  <2>1. ReaderOK /\ val[h].type = "sent"
    BY <1>0, <1>14 DEF AttachFails, Is, BytesInv
  <2>2. Idle(h)
    BY <2>1 DEF Idle, ReaderOK, NoReader
  <2> QED BY <1>0, <1>14, <2>2, Destroyed DEF AttachFails
<1>15. CASE garbage_collect
  BY <1>0, <1>15, Collected
<1> QED
  BY <1>0, <1>1, <1>2, <1>3, <1>4, <1>5, <1>6, <1>8, <1>9, <1>10, <1>11, <1>12, <1>13,
     <1>14, <1>15, ShmCopied, FromShmFailed DEF ShmNext

\* The receiver of an asynchronous allocation.
LEMMA ReceiverStep ==
    ASSUME ReceiverLives, ShmNext
    PROVE  ReceiverLives'
<1>1. CASE UNCHANGED <<backend, rcv, rlive>>
  BY <1>1 DEF ReceiverLives
<1>2. CASE NewProvider \/ DestroyProvider
  BY <1>2 DEF NewProvider, DestroyProvider, ReceiverLives
<1>3. CASE alloc_gc_defrag_async
  BY <1>3 DEF alloc_gc_defrag_async, ReceiverLives
<1>4. CASE AsyncError \/ AsyncDrop
  BY <1>4 DEF AsyncError, AsyncDrop, ReceiverLives
<1>5. ASSUME NEW h \in Handle, NEW c \in Chunk, AsyncResultKept(h, c) PROVE ReceiverLives'
  BY <1>5 DEF AsyncResultKept, ReceiverLives
<1>6. ASSUME NEW c \in Chunk, AsyncResultIgnored(c) PROVE ReceiverLives'
  BY <1>6 DEF AsyncResultIgnored, ReceiverLives
<1>7. CASE BytesNext /\ UNCHANGED svars
  BY <1>1, <1>7 DEF svars
<1>8. CASE garbage_collect
  BY <1>1, <1>8 DEF garbage_collect, svars
<1>9. ASSUME NEW h \in Handle, NEW c \in Chunk, NEW collect \in BOOLEAN, Alloc(h, c, collect)
      PROVE  ReceiverLives'
  BY <1>1, <1>9 DEF Alloc, svars
<1>10. ASSUME NEW h \in Handle, NEW k \in Handle,
              \/ FromMut(h, k) \/ CopyShm(h, k) \/ try_mutate(h, k)
              \/ FromShm(h, k) \/ FromShmFails(h, k)
       PROVE  ReceiverLives'
  BY <1>1, <1>10 DEF FromMut, CopyShm, try_mutate, FromShm, FromShmFails, svars
<1>11. ASSUME NEW h \in Handle, NEW d \in Data, mutate_in_place(h, d) PROVE ReceiverLives'
  BY <1>1, <1>11 DEF mutate_in_place, svars
<1>12. ASSUME NEW h \in Handle, Send(h) \/ Receive(h) \/ AttachFails(h) PROVE ReceiverLives'
  BY <1>1, <1>12 DEF Send, Receive, AttachFails, svars
<1> QED
  BY <1>2, <1>3, <1>4, <1>5, <1>6, <1>7, <1>8, <1>9, <1>10, <1>11, <1>12 DEF ShmNext

LEMMA InitInv == ShmInit => IInv
<1> SUFFICES ASSUME ShmInit PROVE IInv
  OBVIOUS
<1>1. /\ val = [h \in Handle |-> Gone] /\ want = [h \in Handle |-> <<>>]
      /\ mem = [r \in Region |-> Junk] /\ alloc = {} /\ rc = [r \in Region |-> 0]
      /\ ~twice /\ reader = NoReader
  BY DEF ShmInit, BytesInit
<1>2. StoreOK
  <2>1. Gone \in Object /\ <<>> \in Seq(Datum) /\ Junk \in Seq(Datum)
    BY DEF Gone, Obj, Object, Type, Junk, Datum
  <2> QED BY <1>1, <2>1 DEF StoreOK
<1>3. ObjectsOK
  <2>1. ASSUME NEW h \in Handle PROVE ObjectOK(val[h], want[h], mem, rc)
    BY <1>1, ReadsEmpty DEF ObjectOK, Shape, Gone, Obj
  <2> QED BY <2>1 DEF ObjectsOK
<1>4. Counted
  <2>1. ASSUME NEW r \in Region PROVE Refs(val, r) = 0
    <3>1. \A h \in Handle : At(val[h].slices, r) = {}
      BY <1>1 DEF At, Gone, Obj
    <3>2. Holders(val, Handle, r) = {}
      BY <3>1 DEF Holders
    <3> QED BY <3>2, FS_EmptySet DEF Refs
  <2> QED BY <1>1, <2>1 DEF Counted
<1>5. InUse
  BY <1>1 DEF InUse, Region
<1>6. ReceiverLives
  BY DEF ShmInit, ReceiverLives
<1> QED BY <1>1, <1>2, <1>3, <1>4, <1>5, <1>6 DEF IInv, BytesInv, MemInv, ReaderOK

LEMMA NextKeeps == IInv /\ [ShmNext]_vars => IInv'
<1> SUFFICES ASSUME IInv, [ShmNext]_vars PROVE IInv'
  OBVIOUS
<1>1. CASE ShmNext
  <2>1. BytesInv'
    BY <1>1, ShmStep
  <2>2. ReceiverLives'
    BY <1>1, ReceiverStep DEF IInv
  <2> QED BY <2>1, <2>2 DEF IInv
<1>2. CASE UNCHANGED vars
  <2>1. ReaderOK' /\ ReceiverLives'
    BY <1>2 DEF IInv, BytesInv, ReaderOK, ReceiverLives, vars, bvars, svars
  <2>2. BytesInv'
    BY <1>2, <2>1, OnlyReader DEF IInv, vars, bvars
  <2> QED BY <2>1, <2>2 DEF IInv
<1> QED BY <1>1, <1>2

-----------------------------------------------------------------------------
(* Theorems.                                                                *)

\* The reference counts of the C library are right, memory is in use while it is
\* referred to, writable buffers have one reference, and a Reader is inside of an
\* existing Bytes, in every reachable state.
THEOREM ShmInvariant == Spec => []IInv
BY InitInv, NextKeeps, PTL DEF Spec

\* A buffer given to a Bytes with a deleter is released once, when the last of
\* the Bytes, clones and Writers that refer to it has gone; a chunk of shared
\* memory is not given back to the backend while an object refers to it.
THEOREM BuffersDeletedOnce == Spec => []DeletedOnce
<1>1. IInv => DeletedOnce
  <2> SUFFICES ASSUME IInv PROVE DeletedOnce
    OBVIOUS
  <2>1. \A r \in Region : References(r) = rc[r]
    BY DEF IInv, BytesInv, MemInv, Counted, Refs, References
  <2>2. InUse /\ ~twice
    BY DEF IInv, BytesInv, MemInv
  <2>3. /\ \A r \in Heap : r \in alloc <=> References(r) > 0
        /\ \A r \in Chunk : References(r) > 0 => r \in alloc
    BY <2>1, <2>2 DEF InUse, Region
  <2> QED BY <2>2, <2>3 DEF DeletedOnce
<1> QED BY <1>1, ShmInvariant, PTL

\* Every payload, Writer, buffer and shared memory buffer reads as what was put
\* into it, whatever is cloned, appended, sent, destroyed, written to through
\* another object, collected or allocated again in the meantime.
THEOREM ContentsNeverChange == Spec => []ContentsStable
<1>1. IInv => ContentsStable
  BY ReadsAsWanted DEF IInv, BytesInv, ContentsStable
<1> QED BY <1>1, ShmInvariant, PTL

\* No object of this or another process refers to the chunk of a ZShmMut.
THEOREM MutIsExclusive == Spec => []MutExclusive
<1>1. IInv => MutExclusive
  <2> SUFFICES ASSUME IInv, NEW h \in Handle, NEW k \in Handle, Is(h, "mut"), k # h
               PROVE  Count(val[k].slices, val[h].slices[1]) = 0
    BY DEF MutExclusive
  <2>1. MemInv
    BY DEF IInv, BytesInv
  <2>2. /\ val[h].slices[1] \in Region /\ rc[val[h].slices[1]] = 1
        /\ Count(val[h].slices, val[h].slices[1]) > 0
    BY <2>1, OneSlice DEF Is
  <2> QED BY <2>1, <2>2, Exclusive
<1> QED BY <1>1, ShmInvariant, PTL

\* read and the seek functions keep a Reader inside of its Bytes, which is still
\* what the application put there.
THEOREM ReaderStaysInBounds == Spec => []ReaderInBounds
<1>1. IInv => ReaderInBounds
  <2> SUFFICES ASSUME IInv, NEW h \in reader.on
               PROVE  /\ tell \in 0..Len(want[h])
                      /\ SubSeq(Contents(h), tell + 1, size(h))
                           = SubSeq(want[h], tell + 1, Len(want[h]))
    BY DEF ReaderInBounds
  <2>1. h \in Handle /\ reader.pos \in 0..Len(want[h])
    BY DEF IInv, BytesInv, ReaderOK, NoReader
  <2>2. Contents(h) = want[h] /\ size(h) = Len(want[h])
    BY <2>1, ReadsAsWanted DEF IInv, BytesInv
  <2> QED BY <2>1, <2>2 DEF tell
<1> QED BY <1>1, ShmInvariant, PTL

\* The receiver handed to alloc_gc_defrag_async exists from the call to its drop,
\* and the provider's backend while a result is awaited.
THEOREM ReceiverOutlivesCall == Spec => []ReceiverLives
<1>1. IInv => ReceiverLives
  BY DEF IInv
<1> QED BY <1>1, ShmInvariant, PTL

-----------------------------------------------------------------------------
(* Objects behave as the values of module Payload.                          *)

\* What an object reads as, in this state and, by way of it, in the next one.
AllWanted == \A h \in Handle : Contents(h) = want[h]

LEMMA AllReadAsWanted == MemInv => AllWanted
BY ReadsAsWanted DEF AllWanted

\* The same of the next state.
LEMMA NextReadAsWanted ==
    ASSUME MemInv', NEW b \in Handle
    PROVE  Contents(b)' = want'[b]
<1>1. (MemInv => AllWanted)'
  BY AllReadAsWanted, PTL
<1> QED BY <1>1 DEF AllWanted

\* An object that is given a type and a wanted content becomes that in Payload.
LEMMA RefinesBecomes ==
    ASSUME MemInv', NEW h \in Handle, NEW t, NEW d, val'[h].type = t, want'[h] = d
    PROVE  P!Becomes(h, t, d)
<1>1. Contents(h)' = want'[h]
  BY NextReadAsWanted
<1> QED BY <1>1 DEF P!Becomes

\* What is not touched does not change.
LEMMA RefinesOnly ==
    ASSUME MemInv, MemInv', NEW H, \A x \in Handle \ H : val'[x] = val[x] /\ want'[x] = want[x]
    PROVE  P!Only(H)
<1>1. ASSUME NEW x \in Handle \ H
      PROVE  P!Becomes(x, [h \in Handle |-> val[h].type][x], [h \in Handle |-> Contents(h)][x])
  <2>1. Contents(x) = want[x] /\ val'[x].type = val[x].type /\ want'[x] = want[x]
    BY AllReadAsWanted DEF AllWanted
  <2>2. Contents(x)' = want'[x]
    BY NextReadAsWanted
  <2> QED BY <2>1, <2>2 DEF P!Becomes
<1> QED BY <1>1 DEF P!Only

\* The mapped state has the types of Payload.
LEMMA RefinesTyped == MemInv => P!Typed
<1> SUFFICES ASSUME MemInv PROVE P!Typed
  OBVIOUS
<1>1. ASSUME NEW h \in Handle PROVE val[h].type \in P!Kind /\ Contents(h) \in Seq(Datum)
  BY ReadsAsWanted, ObjectFields DEF MemInv, StoreOK, P!Kind, Type
<1> QED BY <1>1 DEF P!Typed, Datum

\* A step on one object, and a step on two.
LEMMA RefinesOne ==
    ASSUME MemInv, MemInv', NEW h \in Handle, reader' = reader,
           \A x \in Handle \ {h} : val'[x] = val[x] /\ want'[x] = want[x],
           P!StepOn(h)
    PROVE  P!PayloadNext
<1>1. P!Only({h})
  BY RefinesOnly
<1>2. (MemInv => P!Typed)'
  BY RefinesTyped, PTL
<1>3. P!Typed'
  BY <1>2
<1> QED BY <1>1, <1>3 DEF P!PayloadNext

\* An object that takes what another had, and leaves it gone, is a step on both.
LEMMA RefinesTwo ==
    ASSUME MemInv, MemInv', NEW h \in Handle, NEW k \in Handle, h # k, reader' = reader,
           \A x \in Handle \ {h, k} : val'[x] = val[x] /\ want'[x] = want[x],
           val'[k].type = "gone", want'[k] = <<>>,
           P!Move(h, k) \/ P!MoveFails(h, k) \/ P!Join(h, k)
    PROVE  P!PayloadNext
<1>1. P!Only({h, k})
  BY RefinesOnly
<1>2. (MemInv => P!Typed)'
  BY RefinesTyped, PTL
<1>3. P!Typed'
  BY <1>2
<1>4. P!Becomes(k, "gone", <<>>)
  BY RefinesBecomes
<1>5. P!StepOnBoth(h, k)
  BY <1>4 DEF P!StepOnBoth
<1> QED BY <1>1, <1>3, <1>5 DEF P!PayloadNext

\* A step that changes neither what the objects are nor what they read as.
LEMMA RefinesLook ==
    ASSUME MemInv, MemInv', UNCHANGED <<val, want>>,
           \/ reader' = reader
           \/ reader' = NoReader
           \/ \E h \in Handle : P!Open(h) \/ P!Seek(h)
    PROVE  P!PayloadNext
<1>1. \A h \in Handle : Contents(h)' = Contents(h)
  BY AllReadAsWanted, NextReadAsWanted DEF AllWanted
<1>2. [h \in Handle |-> Contents(h)]' = [h \in Handle |-> Contents(h)]
  BY <1>1
<1>3. [h \in Handle |-> val[h].type]' = [h \in Handle |-> val[h].type]
  OBVIOUS
<1>4. P!Look \/ P!Close \/ \E h \in Handle : P!Open(h) \/ P!Seek(h)
  BY DEF P!Look, P!Close, NoReader
<1> QED BY <1>2, <1>3, <1>4 DEF P!PayloadNext

\* A Reader borrows one Bytes only.
LEMMA RefinesBorrowed ==
    ASSUME ReaderOK, NEW h \in Handle, val[h].type # "bytes" \/ Idle(h)
    PROVE  ~P!Borrowed(h)
BY DEF ReaderOK, NoReader, Idle, P!Borrowed

\* What Become does to the objects.
LEMMA BecomeGives ==
    ASSUME MemInv, NEW h \in Handle, NEW t, NEW s, NEW d, Become(h, t, s, d)
    PROVE  /\ val'[h].type = t /\ want'[h] = d
           /\ \A x \in Handle \ {h} : val'[x] = val[x] /\ want'[x] = want[x]
BY DEF Become, Obj, MemInv, StoreOK

\* A new buffer, of the application or of a provider.
LEMMA RefinesNew ==
    ASSUME MemInv, MemInv', NEW h \in Handle, NEW t \in {"vector", "mut"}, NEW s,
           NEW d \in Datum, Free(h), Become(h, t, s, <<d>>), reader' = reader
    PROVE  P!PayloadNext
<1>1. val[h].type = "gone"
  BY FreeObject
<1>2. /\ val'[h].type = t /\ want'[h] = <<d>>
      /\ \A x \in Handle \ {h} : val'[x] = val[x] /\ want'[x] = want[x]
  BY BecomeGives
<1>3. P!Becomes(h, t, <<d>>)
  BY <1>2, RefinesBecomes
<1>4. P!New(h, d)
  BY <1>1, <1>3 DEF P!New
<1>5. P!StepOn(h)
  BY <1>4 DEF P!StepOn, Datum
<1> QED BY <1>2, <1>5, RefinesOne

\* An empty Bytes or Writer is made.
LEMMA RefinesEmpty ==
    ASSUME MemInv, MemInv', NEW h \in Handle, NEW t \in {"bytes", "writer"}, Empty(h, t)
    PROVE  P!PayloadNext
<1>1. val[h].type = "gone" /\ Become(h, t, <<>>, <<>>) /\ reader' = reader
  BY FreeObject DEF Empty
<1>2. /\ val'[h].type = t /\ want'[h] = <<>>
      /\ \A x \in Handle \ {h} : val'[x] = val[x] /\ want'[x] = want[x]
  BY <1>1, BecomeGives
<1>3. P!Becomes(h, t, <<>>)
  BY <1>2, RefinesBecomes
<1>4. P!Empty(h)
  BY <1>1, <1>3 DEF P!Empty
<1>5. P!StepOn(h)
  BY <1>4 DEF P!StepOn
<1> QED BY <1>1, <1>2, <1>5, RefinesOne

\* A copy, of the data or of the reference to it.
LEMMA RefinesCopy ==
    ASSUME MemInv, MemInv', NEW h \in Handle, NEW k \in Handle, NEW t, NEW s,
           Free(h), Become(h, t, s, want[k]), <<val[k].type, t>> \in P!Copies, reader' = reader
    PROVE  P!PayloadNext
<1>1. val[h].type = "gone"
  BY FreeObject
<1>2. /\ val'[h].type = t /\ want'[h] = want[k]
      /\ \A x \in Handle \ {h} : val'[x] = val[x] /\ want'[x] = want[x]
  BY BecomeGives
<1>3. Contents(k) = want[k] /\ Contents(h)' = want[k]
  BY <1>2, AllReadAsWanted, NextReadAsWanted DEF AllWanted
<1>4. P!Copy(h, k)
  BY <1>1, <1>2, <1>3 DEF P!Copy
<1>5. P!StepOn(h)
  BY <1>4 DEF P!StepOn
<1> QED BY <1>2, <1>5, RefinesOne

\* A write through the only reference to a buffer.
LEMMA RefinesWrite ==
    ASSUME MemInv, MemInv', ReaderOK, NEW h \in Handle, NEW d \in Data, val' = val,
           want' = [want EXCEPT ![h] = <<d>>], val[h].type \in {"vector", "mut", "shm", "bytes"},
           val[h].type # "bytes" \/ Idle(h), reader' = reader
    PROVE  P!PayloadNext
<1>1. /\ val'[h].type = val[h].type /\ want'[h] = <<d>>
      /\ \A x \in Handle \ {h} : val'[x] = val[x] /\ want'[x] = want[x]
  BY DEF MemInv, StoreOK
<1>2. Contents(h)' = <<d>>
  BY <1>1, NextReadAsWanted
<1>3. ~P!Borrowed(h)
  BY RefinesBorrowed
<1>4. P!Write(h, d)
  BY <1>1, <1>2, <1>3 DEF P!Write, P!Becomes
<1>5. P!StepOn(h)
  BY <1>4 DEF P!StepOn
<1> QED BY <1>1, <1>5, RefinesOne

\* A Writer is given one more slice.
LEMMA RefinesExtend ==
    ASSUME MemInv, MemInv', NEW w \in Handle, NEW r, NEW d \in Data, write_all(w, r, d)
    PROVE  P!PayloadNext
<1>1. /\ val[w].type = "writer" /\ reader' = reader
      /\ Become(w, "writer", Append(val[w].slices, r), Append(want[w], d))
  BY DEF write_all, Is
<1>2. /\ val'[w].type = "writer" /\ want'[w] = Append(want[w], d)
      /\ \A x \in Handle \ {w} : val'[x] = val[x] /\ want'[x] = want[x]
  BY <1>1, BecomeGives
<1>3. Contents(w) = want[w] /\ Contents(w)' = want'[w]
  BY AllReadAsWanted, NextReadAsWanted DEF AllWanted
<1>4. P!Extend(w, d)
  BY <1>1, <1>2, <1>3 DEF P!Extend, P!Becomes
<1>5. P!StepOn(w)
  BY <1>4 DEF P!StepOn
<1> QED BY <1>1, <1>2, <1>5, RefinesOne

\* Destructors, and an append that fails.
LEMMA RefinesDrop ==
    ASSUME MemInv, MemInv', ReaderOK, NEW h \in Handle, val[h].type # "gone", Idle(h),
           Become(h, "gone", <<>>, <<>>), reader' = reader
    PROVE  P!PayloadNext
<1>1. /\ val'[h].type = "gone" /\ want'[h] = <<>>
      /\ \A x \in Handle \ {h} : val'[x] = val[x] /\ want'[x] = want[x]
  BY BecomeGives
<1>2. P!Becomes(h, "gone", <<>>)
  BY <1>1, RefinesBecomes
<1>3. ~P!Borrowed(h)
  BY RefinesBorrowed
<1>4. P!Drop(h)
  BY <1>2, <1>3 DEF P!Drop
<1>5. P!StepOn(h)
  BY <1>4 DEF P!StepOn
<1> QED BY <1>1, <1>5, RefinesOne

\* A payload crosses to another process.
LEMMA RefinesShip ==
    ASSUME MemInv, MemInv', ReaderOK, NEW h \in Handle, Send(h) \/ Receive(h)
    PROVE  P!PayloadNext
<1>1. /\ reader' = reader /\ want' = want
      /\ \A x \in Handle \ {h} : val'[x] = val[x] /\ want'[x] = want[x]
  BY DEF Send, Receive, MemInv, StoreOK
<1>2. Contents(h)' = Contents(h)
  BY <1>1, AllReadAsWanted, NextReadAsWanted DEF AllWanted
<1>3. P!Ship(h) \/ P!Arrive(h)
  <2>1. CASE Send(h)
    <3>1. val[h].type = "bytes" /\ val'[h].type = "sent" /\ Idle(h)
      BY <2>1 DEF Send, Is, Obj, MemInv, StoreOK
    <3>2. ~P!Borrowed(h)
      BY <3>1, RefinesBorrowed
    <3> QED BY <1>2, <3>1, <3>2 DEF P!Ship, P!Becomes
  <2>2. CASE Receive(h)
    <3>1. val[h].type = "sent" /\ val'[h].type = "bytes"
      BY <2>2 DEF Receive, Is, Obj, MemInv, StoreOK
    <3> QED BY <1>2, <3>1 DEF P!Arrive, P!Becomes
  <2> QED BY <2>1, <2>2
<1>4. P!StepOn(h)
  BY <1>3 DEF P!StepOn
<1> QED BY <1>1, <1>4, RefinesOne

\* A move.
LEMMA RefinesMove ==
    ASSUME MemInv, MemInv', NEW h \in Handle, NEW k \in Handle, NEW t, MoveTo(h, k, t),
           <<val[k].type, t>> \in P!Moves, reader' = reader
    PROVE  P!PayloadNext
<1>1. val[h].type = "gone" /\ val[k].type # "gone"
  BY FreeObject DEF MoveTo, P!Moves
<1>2. /\ val'[h].type = t /\ want'[h] = want[k]
      /\ val'[k].type = "gone" /\ want'[k] = <<>>
      /\ \A x \in Handle \ {h, k} : val'[x] = val[x] /\ want'[x] = want[x]
  BY <1>1 DEF MoveTo, Gone, Obj, MemInv, StoreOK
<1>3. Contents(k) = want[k] /\ Contents(h)' = want[k]
  BY <1>2, AllReadAsWanted, NextReadAsWanted DEF AllWanted
<1>4. P!Move(h, k)
  BY <1>1, <1>2, <1>3 DEF P!Move
<1> QED BY <1>1, <1>2, <1>4, RefinesTwo

\* A conversion that fails takes its source and gives an empty Bytes.
LEMMA RefinesMoveFails ==
    ASSUME MemInv, MemInv', NEW b \in Handle, NEW k \in Handle, FromShmFails(b, k)
    PROVE  P!PayloadNext
<1>1. val[b].type = "gone" /\ val[k].type \in {"shm", "mut"} /\ reader' = reader
  BY FreeObject DEF FromShmFails
<1>2. /\ val'[b].type = "bytes" /\ want'[b] = <<>>
      /\ val'[k].type = "gone" /\ want'[k] = <<>>
      /\ \A x \in Handle \ {b, k} : val'[x] = val[x] /\ want'[x] = want[x]
  BY <1>1 DEF FromShmFails, Gone, Obj, MemInv, StoreOK
<1>3. P!Becomes(b, "bytes", <<>>)
  BY <1>2, RefinesBecomes
<1>4. P!MoveFails(b, k)
  BY <1>1, <1>3 DEF P!MoveFails
<1> QED BY <1>1, <1>2, <1>4, RefinesTwo

\* A Writer takes the whole of a Bytes over.
LEMMA RefinesJoin ==
    ASSUME MemInv, MemInv', ReaderOK, NEW w \in Handle, NEW b \in Handle, append(w, b)
    PROVE  P!PayloadNext
<1>1. val[w].type = "writer" /\ val[b].type = "bytes" /\ Idle(b) /\ reader' = reader
  BY DEF append, Is
<1>2. /\ val'[w].type = "writer" /\ want'[w] = want[w] \o want[b]
      /\ val'[b].type = "gone" /\ want'[b] = <<>>
      /\ \A x \in Handle \ {w, b} : val'[x] = val[x] /\ want'[x] = want[x]
  BY <1>1 DEF append, Gone, Obj, MemInv, StoreOK
<1>3. Contents(w) = want[w] /\ Contents(b) = want[b] /\ Contents(w)' = want'[w]
  BY AllReadAsWanted, NextReadAsWanted DEF AllWanted
<1>4. ~P!Borrowed(b)
  BY <1>1, RefinesBorrowed
<1>5. P!Join(w, b)
  BY <1>1, <1>2, <1>3, <1>4 DEF P!Join, P!Becomes
<1> QED BY <1>1, <1>2, <1>5, RefinesTwo

\* The Reader's position stays within what its Bytes reads as.
LEMMA RefinesReader ==
    ASSUME MemInv, MemInv', ReaderOK, ReaderOK',
           \/ \E h \in Handle : OpenReader(h)
           \/ CloseReader
           \/ \E h \in Handle, n \in 0..MaxLen : read(h, n)
           \/ \E h \in Handle : seek(h)
    PROVE  P!PayloadNext
<1>1. UNCHANGED <<val, want>>
  BY DEF OpenReader, CloseReader, read, seek
<1>2. ASSUME NEW h \in Handle, OpenReader(h) PROVE P!Open(h)
  BY <1>2 DEF OpenReader, NoReader, Is, P!Open
<1>3. CASE CloseReader
  BY <1>1, <1>3, RefinesLook DEF CloseReader
<1>4. ASSUME NEW h \in Handle, reader.on = {h}, reader'.on = {h} PROVE P!Seek(h)
  <2>1. reader'.pos \in 0..Len(want'[h])
    BY <1>4 DEF ReaderOK, NoReader
  <2>2. Contents(h) = want'[h]
    BY <1>1, AllReadAsWanted DEF AllWanted
  <2> QED BY <1>4, <2>1, <2>2 DEF P!Seek
<1>5. ASSUME NEW h \in Handle, NEW n \in 0..MaxLen, read(h, n) PROVE P!Seek(h)
  <2>1. reader = [on |-> {h}, pos |-> reader.pos]
    BY <1>5 DEF read, ReaderOK, NoReader
  <2>2. reader.on = {h} /\ reader'.on = {h}
    BY <1>5, <2>1 DEF read
  <2> QED BY <1>4, <2>2
<1>6. ASSUME NEW h \in Handle, seek(h) PROVE P!Seek(h)
  <2>1. reader = [on |-> {h}, pos |-> reader.pos]
    BY <1>6 DEF seek, ReaderOK, NoReader
  <2>2. reader.on = {h} /\ reader'.on = {h}
    BY <1>6, <2>1 DEF seek
  <2> QED BY <1>4, <2>2
<1> QED BY <1>1, <1>2, <1>3, <1>5, <1>6, RefinesLook

\* Every step on payloads.
LEMMA RefinesBytesNext ==
    ASSUME BytesInv, BytesInv', BytesNext
    PROVE  P!PayloadNext
<1>0. MemInv /\ MemInv' /\ ReaderOK /\ ReaderOK'
  BY DEF BytesInv
<1>1. ASSUME NEW h \in Handle, NEW k \in Handle, NEW r \in Heap,
             CopyFrom(h, k, r) \/ as_vector(h, k, r)
      PROVE  P!PayloadNext
  <2>1. PICK t \in {"bytes", "vector"} :
           Become(h, t, <<r>>, want[k]) /\ <<val[k].type, t>> \in P!Copies
    BY <1>1 DEF CopyFrom, as_vector, Is, P!Copies
  <2>2. Free(h) /\ reader' = reader
    BY <1>1 DEF CopyFrom, as_vector
  <2> QED BY <1>0, <2>1, <2>2, RefinesCopy
<1>2. ASSUME NEW h \in Handle, NEW k \in Handle, TakeFrom(h, k) \/ finish(h, k)
      PROVE  P!PayloadNext
  <2>1. MoveTo(h, k, "bytes") /\ reader' = reader
    BY <1>2 DEF TakeFrom, finish, MoveTo, Is, Free, Gone, Obj
  <2>2. <<val[k].type, "bytes">> \in P!Moves
    BY <1>2 DEF TakeFrom, finish, Is, P!Moves
  <2> QED BY <1>0, <2>1, <2>2, RefinesMove
<1>3. ASSUME NEW h \in Handle, NEW k \in Handle, clone(h, k) PROVE P!PayloadNext
  <2>1. <<val[k].type, "bytes">> \in P!Copies
    BY <1>3 DEF clone, Is, P!Copies
  <2> QED BY <1>0, <1>3, <2>1, RefinesCopy DEF clone
<1>4. ASSUME NEW h \in Handle, NEW k \in Handle, AppendFails(h, k) PROVE P!PayloadNext
  BY <1>0, <1>4, RefinesDrop DEF AppendFails, Is
<1>5. ASSUME NEW h \in Handle, NEW r \in Heap, NEW d \in Data, MakeVector(h, r, d)
      PROVE  P!PayloadNext
  BY <1>0, <1>5, RefinesNew DEF MakeVector, Datum
<1>6. ASSUME NEW h \in Handle, NEW d \in Data, Write(h, d) PROVE P!PayloadNext
  BY <1>0, <1>6, RefinesWrite DEF Write
<1>7. ASSUME NEW h \in Handle, Destroy(h) PROVE P!PayloadNext
  <2>1. val[h].type # "gone"
    BY <1>0, <1>7, FreeObject DEF Destroy
  <2> QED BY <1>0, <1>7, <2>1, RefinesDrop DEF Destroy
<1>8. ASSUME NEW h \in Handle, NEW k \in Handle, append(h, k) PROVE P!PayloadNext
  BY <1>0, <1>8, RefinesJoin
<1>9. ASSUME NEW h \in Handle, NEW r \in Heap, NEW d \in Data, write_all(h, r, d)
      PROVE  P!PayloadNext
  BY <1>0, <1>9, RefinesExtend
<1>10. ASSUME NEW h \in Handle, NEW t \in {"bytes", "writer"}, Empty(h, t) PROVE P!PayloadNext
  BY <1>0, <1>10, RefinesEmpty
<1> QED
  BY <1>0, <1>1, <1>2, <1>3, <1>4, <1>5, <1>6, <1>7, <1>8, <1>9, <1>10, RefinesReader
     DEF BytesNext

\* Every step on shared memory buffers and their providers.
LEMMA RefinesShmNext ==
    ASSUME BytesInv, BytesInv', ShmNext
    PROVE  P!PayloadNext
<1>0. MemInv /\ MemInv' /\ ReaderOK /\ ReaderOK'
  BY DEF BytesInv
<1>1. ASSUME NEW h \in Handle, NEW c \in Chunk, ToMut(h, c), reader' = reader
      PROVE  P!PayloadNext
  <2>1. Free(h) /\ Become(h, "mut", <<c>>, <<"junk">>)
    BY <1>1 DEF ToMut, Junk
  <2>2. "junk" \in Datum
    BY DEF Datum
  <2> QED BY <1>0, <1>1, <2>1, <2>2, RefinesNew
<1>2. ASSUME UNCHANGED <<val, want, reader>> PROVE P!PayloadNext
  BY <1>0, <1>2, RefinesLook
<1>3. ASSUME NEW h \in Handle, NEW k \in Handle,
             FromMut(h, k) \/ try_mutate(h, k) \/ FromShm(h, k)
      PROVE  P!PayloadNext
  <2>1. PICK t \in {"shm", "mut", "bytes"} :
           MoveTo(h, k, t) /\ <<val[k].type, t>> \in P!Moves
    <3>1. CASE FromMut(h, k)
      BY <3>1 DEF FromMut, MoveTo, Is, Free, Gone, Obj, P!Moves
    <3>2. CASE try_mutate(h, k)
      BY <3>2 DEF try_mutate, MoveTo, Is, Free, Gone, Obj, P!Moves
    <3>3. CASE FromShm(h, k)
      BY <3>3 DEF FromShm, MoveTo, Free, Gone, Obj, P!Moves
    <3> QED BY <1>3, <3>1, <3>2, <3>3
  <2>2. reader' = reader
    BY <1>3 DEF FromMut, try_mutate, FromShm
  <2> QED BY <1>0, <2>1, <2>2, RefinesMove
<1>4. ASSUME NEW h \in Handle, NEW k \in Handle, CopyShm(h, k) PROVE P!PayloadNext
  <2>1. <<val[k].type, "shm">> \in P!Copies
    BY <1>0, <1>4, ShmSlice DEF CopyShm, P!Copies
  <2> QED BY <1>0, <1>4, <2>1, RefinesCopy DEF CopyShm
<1>5. ASSUME NEW h \in Handle, NEW d \in Data, mutate_in_place(h, d) PROVE P!PayloadNext
  <2>1. val[h].type \in {"bytes", "shm"}
    BY <1>0, <1>5, ShmSlice DEF mutate_in_place
  <2> QED BY <1>0, <1>5, <2>1, RefinesWrite DEF mutate_in_place
<1>6. ASSUME NEW h \in Handle, Send(h) \/ Receive(h) PROVE P!PayloadNext
  BY <1>0, <1>6, RefinesShip
<1>7. ASSUME NEW h \in Handle, AttachFails(h) PROVE P!PayloadNext
  <2>1. Idle(h) /\ val[h].type # "gone"
    BY <1>0, <1>7 DEF AttachFails, Is, Idle, ReaderOK, NoReader
  <2> QED BY <1>0, <1>7, <2>1, RefinesDrop DEF AttachFails
<1>8. CASE \/ NewProvider \/ DestroyProvider \/ garbage_collect
           \/ alloc_gc_defrag_async \/ AsyncError \/ AsyncDrop
  BY <1>2, <1>8 DEF NewProvider, DestroyProvider, garbage_collect, alloc_gc_defrag_async,
     AsyncError, AsyncDrop, bvars
<1>9. ASSUME NEW c \in Chunk, AsyncResultIgnored(c) PROVE P!PayloadNext
  BY <1>2, <1>9 DEF AsyncResultIgnored
<1>10. ASSUME NEW h \in Handle, NEW c \in Chunk, AsyncResultKept(h, c) PROVE P!PayloadNext
  BY <1>1, <1>10 DEF AsyncResultKept
<1>11. ASSUME NEW h \in Handle, NEW c \in Chunk, NEW collect \in BOOLEAN, Alloc(h, c, collect)
       PROVE  P!PayloadNext
  BY <1>1, <1>11 DEF Alloc
<1>12. ASSUME NEW h \in Handle, NEW k \in Handle, FromShmFails(h, k) PROVE P!PayloadNext
  BY <1>0, <1>12, RefinesMoveFails
<1>13. CASE BytesNext /\ UNCHANGED svars
  BY <1>13, RefinesBytesNext
<1> QED
  BY <1>3, <1>4, <1>5, <1>6, <1>7, <1>8, <1>9, <1>10, <1>11, <1>12, <1>13 DEF ShmNext

\* Initial states map to initial states.
LEMMA RefinesInit == ShmInit => P!PayloadInit
<1> SUFFICES ASSUME ShmInit PROVE P!PayloadInit
  OBVIOUS
<1>1. \A h \in Handle : Contents(h) = <<>>
  BY InitInv, AllReadAsWanted DEF AllWanted, ShmInit, BytesInit, IInv, BytesInv
<1>2. \A h \in Handle : val[h].type = "gone"
  BY DEF ShmInit, BytesInit, Gone, Obj
<1> QED BY <1>1, <1>2 DEF P!PayloadInit, ShmInit, BytesInit, NoReader

\* Every step maps to a step of Payload or to a stutter.
LEMMA RefinesNext == IInv /\ IInv' /\ [ShmNext]_vars => [P!PayloadNext]_(P!payloadVars)
<1> SUFFICES ASSUME IInv, IInv', [ShmNext]_vars PROVE P!PayloadNext
  OBVIOUS
<1>1. BytesInv /\ BytesInv'
  BY DEF IInv
<1>2. CASE ShmNext
  BY <1>1, <1>2, RefinesShmNext
<1>3. CASE UNCHANGED vars
  BY <1>1, <1>3, RefinesLook DEF BytesInv, vars, bvars
<1> QED BY <1>2, <1>3

\* Whatever memory they share, the objects of the application are values of their
\* own: a step changes what is read from the objects it is called on and from no
\* other, a copy reads as its original, and what is moved or sent arrives as it was.
THEOREM ObjectsAreValues == Spec => ImplementsPayload
<1>1. ShmInit => P!PayloadInit
  BY RefinesInit
<1>2. IInv /\ IInv' /\ [ShmNext]_vars => [P!PayloadNext]_(P!payloadVars)
  BY RefinesNext
<1> QED BY <1>1, <1>2, ShmInvariant, PTL DEF Spec, ImplementsPayload, P!PayloadSpec

=============================================================================

----------------------------- MODULE OwnedProofs -----------------------------
(***************************************************************************)
(* Ownership is exclusive, alive and never lost, for every set of wrappers,*)
(* C structs, callback arguments and objects.                              *)
(*                                                                         *)
(* The three properties are inductive only together: a constructor may     *)
(* hand an unborn object to a wrapper because nobody holds it (NoDangling),*)
(* a drop may release an object because its place was the only owner       *)
(* (UniqueOwner), and after the drop every live object still has the owner *)
(* it had (NoLeak).                                                        *)
(***************************************************************************)
EXTENDS Owned, TLAPS

IInv == TypeOK /\ UniqueOwner /\ NoDangling /\ NoLeak

\* The four ways in which the actions change the two variables, over places
\* p, q and an object o.
Fresh(p, o) ==        \* p, which owns nothing, receives an unborn object
    /\ state[o] = "unborn"
    /\ held[p] \notin Obj
    /\ held' = [held EXCEPT ![p] = o]
    /\ state' = [state EXCEPT ![o] = "live"]

Move(p, q) ==         \* p, which owns nothing, takes what q holds
    /\ p # q /\ held[p] \notin Obj
    /\ held' = [held EXCEPT ![p] = held[q], ![q] = Null]
    /\ UNCHANGED state

Release(p, v) ==      \* p drops what it holds and becomes v
    /\ v \in {Null, Gone}
    /\ state' = Dropped(p)
    /\ held' = [held EXCEPT ![p] = v]

\* An unborn or dropped object is held nowhere.
LEMMA NotLiveNotHeld ==
  ASSUME NoDangling, NEW o \in Obj, state[o] # "live", NEW p \in Place
  PROVE  held[p] # o
BY DEF NoDangling

\* Receiving an unborn object preserves the invariant (constructors, clones
\* and the library's callback arguments).
LEMMA FreshPreserves ==
  ASSUME IInv, NEW p \in Place, NEW o \in Obj, Fresh(p, o)
  PROVE  IInv'
<1>1. \A q \in Place : held[q] # o
  BY NotLiveNotHeld DEF IInv, Fresh
<1>2. TypeOK'
  BY DEF IInv, TypeOK, Fresh
<1>3. UniqueOwner'
  BY <1>1 DEF IInv, TypeOK, UniqueOwner, Fresh
<1>4. NoDangling'
  BY <1>1 DEF IInv, TypeOK, NoDangling, Fresh
<1>5. NoLeak'
  BY <1>1 DEF IInv, TypeOK, NoLeak, Fresh
<1> QED BY <1>2, <1>3, <1>4, <1>5 DEF IInv

\* Taking from another place preserves the invariant (move construction,
\* Owned(OwnedType*), move_to_c_obj).
LEMMA MovePreserves ==
  ASSUME IInv, NEW p \in Place, NEW q \in Place, Move(p, q)
  PROVE  IInv'
<1>1. TypeOK'
  BY DEF IInv, TypeOK, Move
<1>2. UniqueOwner'
  BY ObjDistinct DEF IInv, TypeOK, UniqueOwner, Move
<1>3. NoDangling'
  BY ObjDistinct DEF IInv, TypeOK, NoDangling, Move
<1>4. NoLeak'
  <2> SUFFICES ASSUME NEW o \in Obj, state[o] = "live"
               PROVE  \E r \in Place : held'[r] = o
    BY DEF NoLeak, Move
  <2>1. PICK r \in Place : held[r] = o
    BY DEF IInv, NoLeak
  <2>2. CASE r = q
    BY <2>1, <2>2 DEF IInv, TypeOK, Move
  <2>3. CASE r # q
    BY <2>1, <2>3 DEF IInv, TypeOK, Move
  <2> QED BY <2>2, <2>3
<1> QED BY <1>1, <1>2, <1>3, <1>4 DEF IInv

\* Dropping what a place holds preserves the invariant (destructors, consumed
\* arguments, z_drop on a struct, the end of a callback).
LEMMA ReleasePreserves ==
  ASSUME IInv, NEW p \in Place, NEW v, Release(p, v)
  PROVE  IInv'
<1>1. v \notin Obj
  BY ObjDistinct DEF Release
<1>2. TypeOK'
  BY DEF IInv, TypeOK, Release, Dropped
<1>3. UniqueOwner'
  BY <1>1 DEF IInv, TypeOK, UniqueOwner, Release
<1>4. NoDangling'
  <2> SUFFICES ASSUME NEW q \in Place, held'[q] \in Obj
               PROVE  state'[held'[q]] = "live"
    BY DEF NoDangling
  <2>1. q # p /\ held'[q] = held[q]
    BY <1>1 DEF IInv, TypeOK, Release
  <2>2. held[p] # held[q]
    BY <2>1 DEF IInv, UniqueOwner
  <2> QED BY <2>1, <2>2 DEF IInv, NoDangling, Release, Dropped
<1>5. NoLeak'
  <2> SUFFICES ASSUME NEW o \in Obj, state'[o] = "live"
               PROVE  \E r \in Place : held'[r] = o
    BY DEF NoLeak
  <2>1. state[o] = "live" /\ held[p] # o
    BY DEF Release, Dropped
  <2>2. PICK r \in Place : held[r] = o
    BY <2>1 DEF IInv, NoLeak
  <2> QED BY <2>1, <2>2 DEF IInv, TypeOK, Release
<1> QED BY <1>2, <1>3, <1>4, <1>5 DEF IInv

\* A move assignment to another object drops the target's object and takes
\* the source's.
LEMMA MoveAssignPreserves ==
  ASSUME IInv, NEW d \in Refs, NEW s \in Refs, MoveAssign(d, s)
  PROVE  IInv'
<1>1. CASE d = s
  BY <1>1 DEF MoveAssign, IInv, TypeOK, UniqueOwner, NoDangling, NoLeak, vars
<1>2. CASE d # s
  <2> d \in Place /\ s \in Place
    BY DEF Refs, Place
  <2>1. held' = [held EXCEPT ![d] = held[s], ![s] = Null] /\ state' = Dropped(d)
    BY <1>2 DEF MoveAssign, Taken
  <2>2. TypeOK'
    BY <2>1 DEF IInv, TypeOK, Dropped
  <2>3. UniqueOwner'
    BY <1>2, <2>1, ObjDistinct DEF IInv, TypeOK, UniqueOwner
  <2>4. NoDangling'
    <3> SUFFICES ASSUME NEW q \in Place, held'[q] \in Obj
                 PROVE  state'[held'[q]] = "live"
      BY DEF NoDangling
    <3>1. q # s
      BY <2>1, ObjDistinct DEF IInv, TypeOK
    <3>2. PICK r \in Place : r # d /\ held'[q] = held[r]
      BY <1>2, <2>1, <3>1 DEF IInv, TypeOK
    <3>3. held[d] # held[r]
      BY <3>2 DEF IInv, UniqueOwner
    <3> QED BY <2>1, <3>2, <3>3 DEF IInv, NoDangling, Dropped
  <2>5. NoLeak'
    <3> SUFFICES ASSUME NEW o \in Obj, state'[o] = "live"
                 PROVE  \E r \in Place : held'[r] = o
      BY DEF NoLeak
    <3>1. state[o] = "live" /\ held[d] # o
      BY <2>1 DEF Dropped
    <3>2. PICK r \in Place : held[r] = o
      BY <3>1 DEF IInv, NoLeak
    <3>3. CASE r = s
      BY <1>2, <2>1, <3>2, <3>3 DEF IInv, TypeOK
    <3>4. CASE r # s
      BY <2>1, <3>1, <3>2, <3>4 DEF IInv, TypeOK
    <3> QED BY <3>3, <3>4
  <2> QED BY <2>2, <2>3, <2>4, <2>5 DEF IInv
<1> QED BY <1>1, <1>2

\* A copy assignment drops the target's object and gives it a fresh clone.
LEMMA CopyAssignPreserves ==
  ASSUME IInv, NEW d \in Refs, NEW s \in Refs, NEW o \in Obj, CopyAssign(d, s, o)
  PROVE  IInv'
<1>1. CASE d = s
  BY <1>1 DEF CopyAssign, IInv, TypeOK, UniqueOwner, NoDangling, NoLeak, vars
<1>2. CASE d # s
  <2> d \in Place
    BY DEF Refs, Place
  <2>1. /\ held' = [held EXCEPT ![d] = o]
        /\ state' = [Dropped(d) EXCEPT ![o] = "live"]
    BY <1>2 DEF CopyAssign
  <2>2. \A q \in Place : held[q] # o
    BY NotLiveNotHeld DEF IInv, CopyAssign
  <2>3. TypeOK'
    BY <2>1 DEF IInv, TypeOK, Dropped
  <2>4. UniqueOwner'
    BY <2>1, <2>2 DEF IInv, TypeOK, UniqueOwner
  <2>5. NoDangling'
    <3> SUFFICES ASSUME NEW q \in Place, held'[q] \in Obj, q # d
                 PROVE  state'[held'[q]] = "live"
      BY <2>1 DEF NoDangling, IInv, TypeOK, Dropped
    <3>1. held'[q] = held[q] /\ held[q] # o
      BY <2>1, <2>2 DEF IInv, TypeOK
    <3>2. held[d] # held[q]
      BY <3>1 DEF IInv, UniqueOwner
    <3> QED BY <2>1, <3>1, <3>2 DEF IInv, NoDangling, Dropped
  <2>6. NoLeak'
    <3> SUFFICES ASSUME NEW x \in Obj, state'[x] = "live", x # o
                 PROVE  \E r \in Place : held'[r] = x
      BY <2>1 DEF NoLeak, IInv, TypeOK
    <3>1. state[x] = "live" /\ held[d] # x
      BY <2>1 DEF Dropped
    <3>2. PICK r \in Place : held[r] = x
      BY <3>1 DEF IInv, NoLeak
    <3> QED BY <2>1, <3>1, <3>2 DEF IInv, TypeOK
  <2> QED BY <2>3, <2>4, <2>5, <2>6 DEF IInv
<1> QED BY <1>1, <1>2

-----------------------------------------------------------------------------
\* Every operation of Owned and of the C border preserves the invariant.
LEMMA NextPreserves == IInv /\ [Next]_vars => IInv'
<1> SUFFICES ASSUME IInv, [Next]_vars PROVE IInv'
  OBVIOUS
<1> USE DEF Refs, Place
<1>1. ASSUME NEW w \in Wrappers, NEW o \in Obj, Construct(w, o) PROVE IInv'
  <2>1. CASE Fresh(w, o)
    BY <2>1, FreshPreserves
  <2>2. CASE Release(w, Null)
    BY <2>2, ReleasePreserves
  <2> QED
    BY <1>1, <2>1, <2>2, ObjDistinct
    DEF Construct, Fresh, Release, Dropped, Exists, IInv, TypeOK
<1>2. ASSUME NEW w \in Wrappers, NEW r \in Refs, MoveConstruct(w, r) PROVE IInv'
  <2>1. Move(w, r)
    BY <1>2, ObjDistinct DEF MoveConstruct, Taken, Move, Exists
  <2> QED BY <2>1, MovePreserves
<1>3. ASSUME NEW d \in Refs, NEW s \in Refs, MoveAssign(d, s) PROVE IInv'
  BY <1>3, MoveAssignPreserves
<1>4. ASSUME NEW d \in Refs, NEW s \in Refs, NEW o \in Obj, CopyAssign(d, s, o) PROVE IInv'
  BY <1>4, CopyAssignPreserves
<1>5. ASSUME NEW w \in Wrappers, Destroy(w) PROVE IInv'
  BY <1>5, ReleasePreserves DEF Destroy, Release
<1>6. ASSUME NEW w \in Wrappers, NEW c \in CStructs, TakeFromC(w, c) PROVE IInv'
  <2>1. Move(w, c)
    BY <1>6, ObjDistinct DEF TakeFromC, Taken, Move, Exists
  <2> QED BY <2>1, MovePreserves
<1>7. ASSUME NEW c \in CStructs, NEW r \in Refs, MoveToC(c, r) PROVE IInv'
  <2>1. Move(c, r)
    BY <1>7, ObjDistinct DEF MoveToC, Move, Exists
  <2> QED BY <2>1, MovePreserves
<1>8. ASSUME NEW r \in Refs, Consume(r) PROVE IInv'
  BY <1>8, ReleasePreserves DEF Consume, Release
<1>9. ASSUME NEW c \in CStructs, DropC(c) PROVE IInv'
  BY <1>9, ReleasePreserves DEF DropC, Release
<1>10. ASSUME NEW a \in Args, NEW o \in Obj, CallbackEnter(a, o) PROVE IInv'
  <2>1. Fresh(a, o)
    BY <1>10, ObjDistinct DEF CallbackEnter, Fresh, Exists
  <2> QED BY <2>1, FreshPreserves
<1>11. ASSUME NEW a \in Args, CallbackReturn(a) PROVE IInv'
  BY <1>11, ReleasePreserves DEF CallbackReturn, Release
<1>12. CASE UNCHANGED vars
  BY <1>12 DEF vars, IInv, TypeOK, UniqueOwner, NoDangling, NoLeak
<1> QED
  BY <1>1, <1>2, <1>3, <1>4, <1>5, <1>6, <1>7, <1>8, <1>9, <1>10, <1>11, <1>12 DEF Next

\* Before any constructor has run, nothing is held and nothing is live.
LEMMA InitInvariant == Init => IInv
BY ObjDistinct DEF Init, IInv, TypeOK, UniqueOwner, NoDangling, NoLeak

\* The moves, assignments, destructors and C-border conversions of Owned keep
\* every object owned by exactly one place while it is live and by none after
\* it was dropped.
THEOREM OwnershipInvariant == Spec => []IInv
BY InitInvariant, NextPreserves, PTL DEF Spec

\* No two places own the same object.
THEOREM UniqueOwnership == Spec => []UniqueOwner
BY OwnershipInvariant, PTL DEF IInv

\* No place holds an object that has been dropped.
THEOREM NoUseAfterDrop == Spec => []NoDangling
BY OwnershipInvariant, PTL DEF IInv

\* No live object is without an owner.
THEOREM NothingLeaks == Spec => []NoLeak
BY OwnershipInvariant, PTL DEF IInv

=============================================================================

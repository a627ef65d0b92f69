------------------------------- MODULE Owned -------------------------------
(***************************************************************************)
(* Value ownership in zenoh-cpp (api/base.hxx, api/interop.hxx).           *)
(*                                                                         *)
(* Every C++ wrapper (Session, Sample, Query, Bytes, KeyExpr, ...) derives *)
(* from Owned<T> and holds one C struct z_owned_XXX_t, which either owns a *)
(* C-library object or is a gravestone.  Ownership moves between wrappers, *)
(* raw C structs and the arguments that callbacks alias, and nothing but   *)
(* the code of Owned keeps an object from being dropped twice or leaked.   *)
(*                                                                         *)
(* A place is anything that has room for a C struct:                       *)
(*   Wrappers  C++ objects derived from Owned<T>;                          *)
(*   CStructs  bare z_owned_XXX_t values, as a C function argument that    *)
(*             consumes its object, or the result of move_to_c_obj;        *)
(*   Args      the struct behind the T& a callback is called with: owned   *)
(*             by the library, but the callback may move out of it.        *)
(***************************************************************************)
EXTENDS Naturals

CONSTANTS Wrappers, CStructs, Args,
          Obj,         \* C-library objects
          Null,        \* a place whose struct is a gravestone
          Gone         \* a place that does not exist (not constructed, or destroyed)

ASSUME PlacesDisjoint ==
    /\ Wrappers \cap CStructs = {}
    /\ Wrappers \cap Args = {}
    /\ CStructs \cap Args = {}

ASSUME ObjDistinct == Null \notin Obj /\ Gone \notin Obj /\ Null # Gone

VARIABLES held,        \* what each place holds
          state        \* "unborn", "live" or "dropped", for each object

vars == <<held, state>>

Place == Wrappers \cup CStructs \cup Args

\* The places a C++ T& may refer to.
Refs == Wrappers \cup Args

TypeOK ==
    /\ held \in [Place -> Obj \cup {Null, Gone}]
    /\ state \in [Obj -> {"unborn", "live", "dropped"}]

Init ==
    /\ held = [p \in Place |-> Gone]
    /\ state = [o \in Obj |-> "unborn"]

Exists(p) == held[p] # Gone

\* z_drop(z_move(x)): the object, if there is one, is released; a gravestone
\* is left alone.  The caller says what the place holds next.
Dropped(p) == [o \in Obj |-> IF held[p] = o THEN "dropped" ELSE state[o]]

\* z_take and z_take_from_loaned: d takes what s holds, s becomes a gravestone.
Taken(d, s) == [held EXCEPT ![d] = held[s], ![s] = Null]

-----------------------------------------------------------------------------
(* Constructing, moving and destroying wrappers.                            *)

\* A factory (declare_*, recv, clone, ...): the wrapper starts as a gravestone
\* and a C function fills it in, or fails and leaves the gravestone.
Construct(w, o) ==
    /\ ~Exists(w) /\ state[o] = "unborn"
    /\ \/ /\ held' = [held EXCEPT ![w] = o]
          /\ state' = [state EXCEPT ![o] = "live"]
       \/ /\ held' = [held EXCEPT ![w] = Null]
          /\ UNCHANGED state

\* Owned(Owned&& v): a gravestone, then move assignment.
MoveConstruct(w, r) ==
    /\ ~Exists(w) /\ Exists(r)
    /\ held' = Taken(w, r)
    /\ UNCHANGED state

\* Mutant: the target's object is overwritten without z_drop.
MoveAssign_NoDrop(d, s) ==
    /\ Exists(d) /\ Exists(s)
    /\ IF d = s THEN UNCHANGED vars ELSE held' = Taken(d, s) /\ UNCHANGED state

\* Owned& operator=(Owned&& v).  Taking from a gravestone gives a gravestone,
\* whether through z_take or through the check before z_take_from_loaned.
MoveAssign(d, s) ==
    /\ Exists(d) /\ Exists(s)
    /\ IF d = s
       THEN UNCHANGED vars
       ELSE /\ state' = Dropped(d)
            /\ held' = Taken(d, s)

\* operator=(const T& other) of the copyable wrappers: drop, then clone.
CopyAssign(d, s, o) ==
    /\ Exists(d) /\ held[s] \in Obj /\ state[o] = "unborn"
    /\ IF d = s
       THEN UNCHANGED vars
       ELSE /\ state' = [Dropped(d) EXCEPT ![o] = "live"]
            /\ held' = [held EXCEPT ![d] = o]

\* ~Owned().
Destroy(w) ==
    /\ Exists(w)
    /\ state' = Dropped(w)
    /\ held' = [held EXCEPT ![w] = Gone]

-----------------------------------------------------------------------------
(* Crossing the border to the C library.                                    *)

\* Owned(OwnedType* pv): takes the struct's object and leaves a gravestone.
TakeFromC(w, c) ==
    /\ ~Exists(w) /\ Exists(c)
    /\ held' = Taken(w, c)
    /\ UNCHANGED state

\* Mutant: the bitwise copy without the z_internal_null of the source.
MoveToC_KeepSource(c, r) ==
    /\ ~Exists(c) /\ Exists(r)
    /\ held' = [held EXCEPT ![c] = held[r]]
    /\ UNCHANGED state

\* move_to_c_obj(std::move(r)): a bitwise copy of the struct, then the source
\* is overwritten by a gravestone.
MoveToC(c, r) ==
    /\ ~Exists(c) /\ Exists(r)
    /\ held' = [held EXCEPT ![c] = held[r], ![r] = Null]
    /\ UNCHANGED state

\* Mutant: the object is passed without z_move, and the wrapper keeps it.
Consume_KeepSource(r) == Exists(r) /\ state' = Dropped(r) /\ UNCHANGED held

\* as_moved_c_ptr(r) handed to a C function: the function consumes the object
\* and leaves a gravestone, even when it fails.
Consume(r) ==
    /\ Exists(r)
    /\ state' = Dropped(r)
    /\ held' = [held EXCEPT ![r] = Null]

\* z_drop on a bare struct, whose lifetime ends with it.
DropC(c) ==
    /\ Exists(c)
    /\ state' = Dropped(c)
    /\ held' = [held EXCEPT ![c] = Gone]

\* The library calls a closure with a loaned object of its own; the closure
\* sees it as a T& (as_owned_cpp_ref).
CallbackEnter(a, o) ==
    /\ ~Exists(a) /\ state[o] = "unborn"
    /\ held' = [held EXCEPT ![a] = o]
    /\ state' = [state EXCEPT ![o] = "live"]

\* The closure has returned; the library drops what is left in its struct.
CallbackReturn(a) ==
    /\ Exists(a)
    /\ state' = Dropped(a)
    /\ held' = [held EXCEPT ![a] = Gone]

Next ==
    \/ \E w \in Wrappers, o \in Obj : Construct(w, o)
    \/ \E w \in Wrappers, r \in Refs : MoveConstruct(w, r)
    \/ \E d, s \in Refs : MoveAssign(d, s)
    \/ \E d, s \in Refs, o \in Obj : CopyAssign(d, s, o)
    \/ \E w \in Wrappers : Destroy(w)
    \/ \E w \in Wrappers, c \in CStructs : TakeFromC(w, c)
    \/ \E c \in CStructs, r \in Refs : MoveToC(c, r)
    \/ \E r \in Refs : Consume(r)
    \/ \E c \in CStructs : DropC(c)
    \/ \E a \in Args, o \in Obj : CallbackEnter(a, o)
    \/ \E a \in Args : CallbackReturn(a)

Spec == Init /\ [][Next]_vars

-----------------------------------------------------------------------------
(* Properties.                                                              *)

\* An object has at most one owner among wrappers, bare structs and callback
\* arguments, so no two destructors can release it.
UniqueOwner ==
    \A p, q \in Place : held[p] \in Obj /\ held[p] = held[q] => p = q

\* What a place holds has not been dropped: no z_drop runs twice on an object
\* and no accessor reads a released one.
NoDangling == \A p \in Place : held[p] \in Obj => state[held[p]] = "live"

\* A live object has an owner, whose destructor will release it: no sequence
\* of moves, assignments and callbacks leaks one.
NoLeak == \A o \in Obj : state[o] = "live" => \E p \in Place : held[p] = o

=============================================================================

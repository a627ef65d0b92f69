-------------------------------- MODULE Shm --------------------------------
(***************************************************************************)
(* Shared memory buffers (api/shm) and their life as payloads.  A provider *)
(* allocates chunks of a segment: a ZShmMut is the only reference to its   *)
(* chunk, a ZShm is one of several, a Bytes made from either refers to the *)
(* same memory, here and, once it was sent, in the process that receives   *)
(* it, whose session attaches the segment with one of its SHM clients.  A  *)
(* chunk without references is given back to the backend when the provider *)
(* collects garbage, and is allocated again.                               *)
(*                                                                         *)
(* The reference counts, and what the policies of the allocation functions *)
(* do beyond collecting garbage, are zenoh-c's.                            *)
(***************************************************************************)
EXTENDS Bytes

VARIABLES backend,     \* the provider's backend object: "none", "alive" or "deleted"
          rcv,         \* the receiver of alloc_gc_defrag_async: "none", "waiting" for
                       \* its result or "called"
          rlive        \* it exists

svars == <<backend, rcv, rlive>>
vars == <<bvars, svars>>

ShmInit ==
    /\ BytesInit
    /\ backend = "none" /\ rcv = "none" /\ rlive = FALSE

-----------------------------------------------------------------------------
(* Providers.                                                               *)

\* CppShmProvider(backend): backend.release() hands the object over.
NewProvider ==
    /\ backend = "none"
    /\ backend' = "alive"
    /\ UNCHANGED <<rcv, rlive, bvars>>

\* The provider takes the backend with it; the application keeps a provider that
\* an allocation still uses.
DestroyProvider ==
    /\ backend = "alive" /\ rcv # "waiting"
    /\ backend' = "deleted"
    /\ UNCHANGED <<rcv, rlive, bvars>>

-----------------------------------------------------------------------------
(* Allocation.                                                              *)

\* Chunks that nobody refers to.
Garbage == {c \in Chunk \cap alloc : rc[c] = 0}

\* The backend gets back what is garbage, if the policy collects, and gives out
\* chunk c with its first n references.
Reserve(c, collect, n) ==
    LET freed == IF collect THEN Garbage ELSE {}
    IN  /\ backend = "alive"
        /\ c \in Chunk \ (alloc \ freed)
        /\ alloc' = (alloc \ freed) \cup {c}
        /\ mem' = [r \in Region |-> IF r \in freed \cup {c} THEN Junk ELSE mem[r]]
        /\ rc' = [rc EXCEPT ![c] = n]
        /\ UNCHANGED twice

\* Converters::from: a C result with status OK becomes a ZShmMut.
ToMut(h, c) == Free(h) /\ Become(h, "mut", <<c>>, Junk)

\* alloc (collect = FALSE), alloc_gc and alloc_gc_defrag*, of a provider or of a
\* layout.
Alloc(h, c, collect) ==
    /\ ToMut(h, c)
    /\ Reserve(c, collect, 1)
    /\ UNCHANGED <<reader, svars>>

\* garbage_collect, and an alloc_gc* that fails with an AllocError.
garbage_collect ==
    /\ backend = "alive" /\ Garbage # {}
    /\ alloc' = alloc \ Garbage
    /\ mem' = [r \in Region |-> IF r \in Garbage THEN Junk ELSE mem[r]]
    /\ UNCHANGED <<val, want, rc, twice, reader, svars>>

\* Mutant: receiver.get() instead of receiver.release(): it is deleted on return.
alloc_gc_defrag_async_Get ==
    /\ backend = "alive" /\ rcv = "none"
    /\ rcv' = "waiting" /\ rlive' = FALSE
    /\ UNCHANGED <<backend, bvars>>

\* receiver.release() hands the object to the C library.
alloc_gc_defrag_async ==
    /\ backend = "alive" /\ rcv = "none"
    /\ rcv' = "waiting" /\ rlive' = TRUE
    /\ UNCHANGED <<backend, bvars>>

\* ShmProviderAsyncInterface::result: on_result gets the buffer and keeps it, or
\* lets its argument go, which leaves garbage; or it gets an error.
AsyncResultKept(h, c) ==
    /\ rcv = "waiting" /\ rcv' = "called"
    /\ ToMut(h, c)
    /\ Reserve(c, TRUE, 1)
    /\ UNCHANGED <<reader, backend, rlive>>

AsyncResultIgnored(c) ==
    /\ rcv = "waiting"
    /\ rcv' = "called"
    /\ Reserve(c, TRUE, 0)
    /\ UNCHANGED <<val, want, reader, backend, rlive>>

AsyncError ==
    /\ rcv = "waiting"
    /\ rcv' = "called"
    /\ UNCHANGED <<bvars, backend, rlive>>

\* ShmProviderAsyncInterface::drop, after the result, or at once when the C
\* library refuses the call.
AsyncDrop ==
    /\ rcv \in {"waiting", "called"}
    /\ rcv' = "none" /\ rlive' = FALSE
    /\ twice' = (twice \/ ~rlive)
    /\ UNCHANGED <<val, want, mem, alloc, rc, reader, backend>>

-----------------------------------------------------------------------------
(* Buffers.                                                                 *)

\* Mutant: the mutable buffer is not moved.
FromMut_KeepSource(h, k) ==
    /\ Free(h) /\ Is(k, "mut")
    /\ Become(h, "shm", val[k].slices, want[k])
    /\ ShareSlices(val[k].slices)
    /\ UNCHANGED <<reader, svars>>

\* ZShm(ZShmMut&&).
FromMut(h, k) ==
    /\ Free(h) /\ Is(k, "mut")
    /\ val' = [val EXCEPT ![h] = Obj("shm", val[k].slices), ![k] = Gone]
    /\ want' = [want EXCEPT ![h] = want[k], ![k] = <<>>]
    /\ UNCHANGED <<mem, alloc, rc, twice, reader, svars>>

InSegment(h) == \E i \in DOMAIN val[h].slices : val[h].slices[i] \in Chunk

\* as_shm: a Bytes with one slice, of shared memory, is seen as a ZShm.
as_shm(h) == Contiguous(h) /\ InSegment(h)
IsShm(h) == Is(h, "shm") \/ as_shm(h)

\* ZShm(const ZShm&).
CopyShm(h, k) ==
    /\ Free(h) /\ IsShm(k)
    /\ Become(h, "shm", val[k].slices, want[k])
    /\ ShareSlices(val[k].slices)
    /\ UNCHANGED <<reader, svars>>

\* zenoh-c lets a buffer be changed when nobody else refers to it.
Unique(h) == rc[val[h].slices[1]] = 1

\* try_mutate(ZShm&&): the ZShm keeps its buffer when nothing is returned.
try_mutate(h, k) ==
    /\ Free(h) /\ Is(k, "shm") /\ Unique(k)
    /\ val' = [val EXCEPT ![h] = Obj("mut", val[k].slices), ![k] = Gone]
    /\ want' = [want EXCEPT ![h] = want[k], ![k] = <<>>]
    /\ UNCHANGED <<mem, alloc, rc, twice, reader, svars>>

\* try_mutate(ZShm&), and a write through the ZShmMut& it returns.
mutate_in_place(h, d) ==
    /\ IsShm(h) /\ Unique(h) /\ Idle(h)
    /\ mem' = [mem EXCEPT ![val[h].slices[1]] = <<d>>]
    /\ want' = [want EXCEPT ![h] = <<d>>]
    /\ UNCHANGED <<val, alloc, rc, twice, reader, svars>>

\* Bytes(ZShm&&) and Bytes(ZShmMut&&): a failure leaves an empty Bytes.
FromShm(b, k) ==
    /\ Free(b) /\ val[k].type \in {"shm", "mut"}
    /\ val' = [val EXCEPT ![b] = Obj("bytes", val[k].slices), ![k] = Gone]
    /\ want' = [want EXCEPT ![b] = want[k], ![k] = <<>>]
    /\ UNCHANGED <<mem, alloc, rc, twice, reader, svars>>

FromShmFails(b, k) ==
    /\ Free(b) /\ val[k].type \in {"shm", "mut"}
    /\ val' = [val EXCEPT ![b] = Obj("bytes", <<>>), ![k] = Gone]
    /\ want' = [want EXCEPT ![b] = <<>>, ![k] = <<>>]
    /\ DropSlices(val[k].slices)
    /\ UNCHANGED <<reader, svars>>

-----------------------------------------------------------------------------
(* Payloads that cross to another process.                                  *)

\* put: the payload is moved to the library.
Send(h) ==
    /\ Is(h, "bytes") /\ Idle(h)
    /\ val' = [val EXCEPT ![h] = Obj("sent", val[h].slices)]
    /\ UNCHANGED <<want, mem, alloc, rc, twice, reader, svars>>

\* A subscriber gets the payload; shared memory is mapped by a segment, which
\* _z_cpp_shm_client_attach_fn gets from the client unless the session has it.
Receive(h) ==
    /\ Is(h, "sent")
    /\ val' = [val EXCEPT ![h] = Obj("bytes", val[h].slices)]
    /\ UNCHANGED <<want, mem, alloc, rc, twice, reader, svars>>

\* The client returns null: the payload cannot be read and is dropped.
AttachFails(h) ==
    /\ Is(h, "sent") /\ InSegment(h)
    /\ Become(h, "gone", <<>>, <<>>)
    /\ DropSlices(val[h].slices)
    /\ UNCHANGED <<reader, svars>>

ShmNext ==
    \/ BytesNext /\ UNCHANGED svars
    \/ NewProvider \/ DestroyProvider \/ garbage_collect
    \/ \E h \in Handle, c \in Chunk, collect \in BOOLEAN : Alloc(h, c, collect)
    \/ alloc_gc_defrag_async \/ AsyncError \/ AsyncDrop
    \/ \E h \in Handle, c \in Chunk : AsyncResultKept(h, c)
    \/ \E c \in Chunk : AsyncResultIgnored(c)
    \/ \E h, k \in Handle :
         \/ FromMut(h, k) \/ CopyShm(h, k) \/ try_mutate(h, k)
         \/ FromShm(h, k) \/ FromShmFails(h, k)
    \/ \E h \in Handle, d \in Data : mutate_in_place(h, d)
    \/ \E h \in Handle : Send(h) \/ Receive(h) \/ AttachFails(h)

Spec == ShmInit /\ [][ShmNext]_vars

-----------------------------------------------------------------------------
(* The promise of module Payload.                                           *)

P == INSTANCE Payload WITH
        Object <- Handle,
        Datum <- Data \cup {"junk"},
        kind <- [h \in Handle |-> val[h].type],
        content <- [h \in Handle |-> Contents(h)],
        on <- reader.on,
        pos <- reader.pos

\* Objects that share counted regions, chunks that are collected and allocated
\* again and buffers written in place behave as values of their own: what the
\* memory of an object holds changes by the calls on that object only.
ImplementsPayload == P!PayloadSpec

-----------------------------------------------------------------------------
(* Properties.                                                              *)

\* Every object reads as what was put into it, for as long as it lives: no write
\* through another object, no deleter, no collection and no new allocation of
\* the memory gets in its way.
ContentsStable == \A h \in Handle : ~Free(h) => Contents(h) = want[h]

\* The memory of a ZShmMut, which the application may write to at any time, is
\* not seen by any other object of this or another process.
MutExclusive ==
    \A h, k \in Handle : Is(h, "mut") /\ k # h => Count(val[k].slices, val[h].slices[1]) = 0

\* The receiver of an asynchronous allocation lives until it was told the result,
\* or the call was refused, and is deleted once; the backend outlives it.
ReceiverLives ==
    /\ rcv # "none" <=> rlive
    /\ rcv = "waiting" => backend = "alive"

=============================================================================

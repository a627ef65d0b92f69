------------------------------- MODULE Bytes -------------------------------
(***************************************************************************)
(* Payloads (api/bytes.hxx).  A Bytes is a list of slices of memory regions *)
(* that the C library counts references to: a clone shares the regions, a  *)
(* Writer collects data it copies and the regions of other Bytes.  A region *)
(* comes from the library's own copy of some data, or from a buffer of the *)
(* application (a std::vector, a std::string, a pointer) with a deleter,   *)
(* which must run once, after the last reference has gone.                 *)
(*                                                                         *)
(* A handle is a C++ object of any of the types below.  Which regions a    *)
(* write_all makes is not promised (slice_iter: "no guarantee is provided  *)
(* on the internal memory layout"); here each makes one.                   *)
(***************************************************************************)
EXTENDS Integers, Sequences, SequencesExt, FiniteSets

CONSTANTS Handle,    \* C++ objects
          Heap,      \* memory regions of the process
          Chunk,     \* memory regions of a shared memory segment
          Data,      \* what a buffer can be filled with
          MaxLen,    \* bytes in a payload
          MaxOffset  \* bound of the arguments of the seek functions

ASSUME BytesBounds == MaxLen \in Nat /\ MaxOffset \in Nat
ASSUME Objects == IsFiniteSet(Handle) /\ Heap \cap Chunk = {}

VARIABLES val,       \* what a handle is: its type and its regions
          want,      \* what the application last put into a handle
          mem,       \* the contents of a region
          alloc,     \* regions in use, as their allocator sees it
          rc,        \* references to a region, as the C library counts them
          twice,     \* a region was released that was not in use
          reader     \* a Reader and its position

bvars == <<val, want, mem, alloc, rc, twice, reader>>

Region == Heap \cup Chunk
Junk == <<"junk">>
Obj(t, s) == [type |-> t, slices |-> s]
Gone == Obj("gone", <<>>)
NoReader == [on |-> {}, pos |-> 0]

\* "vector" stands for every buffer of the application; "shm" and "mut" are ZShm
\* and ZShmMut; "sent" is a Bytes on its way to another process.
Type == {"gone", "vector", "bytes", "writer", "shm", "mut", "sent"}

At(s, r) == {i \in DOMAIN s : s[i] = r}
Count(s, r) == Cardinality(At(s, r))
Is(h, t) == val[h].type = t
Free(h) == val[h] = Gone

\* A handle may be changed, moved or destroyed unless a Reader uses it: a Reader
\* borrows its Bytes, which the application has to keep.
Idle(h) == reader.on # {h}

\* The regions that SliceIterator goes through, and the data of the payload.
slice_iter(h) == [i \in DOMAIN val[h].slices |-> mem[val[h].slices[i]]]
Contents(h) == FlattenSeq(slice_iter(h))

BytesInit ==
    /\ val = [h \in Handle |-> Gone] /\ want = [h \in Handle |-> <<>>]
    /\ mem = [r \in Region |-> Junk] /\ alloc = {} /\ rc = [r \in Region |-> 0]
    /\ twice = FALSE /\ reader = NoReader

-----------------------------------------------------------------------------
(* Memory.                                                                  *)

\* h becomes an object of type t with slices s that reads as d.
Become(h, t, s, d) ==
    /\ val' = [val EXCEPT ![h] = Obj(t, s)]
    /\ want' = [want EXCEPT ![h] = d]

\* A region with contents d and its first reference.
Allocate(r, d) ==
    /\ r \in Heap \ alloc
    /\ mem' = [mem EXCEPT ![r] = d]
    /\ alloc' = alloc \cup {r}
    /\ rc' = [rc EXCEPT ![r] = 1]
    /\ UNCHANGED twice

\* _zenoh_drop_with_context: the deleters of the regions R run.
Delete(R) ==
    /\ alloc' = alloc \ R
    /\ mem' = [r \in Region |-> IF r \in R THEN Junk ELSE mem[r]]
    /\ twice' = (twice \/ ~(R \subseteq alloc))

\* The C library drops slices s.  A chunk stays in use until it is collected.
DropSlices(s) ==
    /\ rc' = [r \in Region |-> rc[r] - Count(s, r)]
    /\ Delete({r \in Heap : Count(s, r) > 0 /\ rc[r] <= Count(s, r)})

ShareSlices(s) ==
    /\ rc' = [r \in Region |-> rc[r] + Count(s, r)]
    /\ UNCHANGED <<mem, alloc, twice>>

-----------------------------------------------------------------------------
(* Construction and destruction.                                            *)

\* The application fills a buffer of its own.
MakeVector(h, r, d) ==
    /\ Free(h)
    /\ Become(h, "vector", <<r>>, <<d>>)
    /\ Allocate(r, <<d>>)
    /\ UNCHANGED reader

\* It writes to it, or to a ZShmMut.
Write(h, d) ==
    /\ val[h].type \in {"vector", "mut"}
    /\ mem' = [mem EXCEPT ![val[h].slices[1]] = <<d>>]
    /\ want' = [want EXCEPT ![h] = <<d>>]
    /\ UNCHANGED <<val, alloc, rc, twice, reader>>

\* Mutant: the data of the vector is referred to, not copied.
CopyFrom_Alias(b, v, r) ==
    /\ Free(b) /\ Is(v, "vector")
    /\ Become(b, "bytes", val[v].slices, want[v])
    /\ ShareSlices(val[v].slices)
    /\ UNCHANGED reader

\* Bytes(const std::vector&), Bytes(std::string_view) and their kin.
CopyFrom(b, v, r) ==
    /\ Free(b) /\ Is(v, "vector")
    /\ Become(b, "bytes", <<r>>, want[v])
    /\ Allocate(r, Contents(v))
    /\ UNCHANGED reader

\* Bytes(std::vector&&), Bytes(std::string&&), Bytes(ptr, len, deleter): the
\* buffer itself, with a deleter; what is left to the caller is empty.
TakeFrom(b, v) ==
    /\ Free(b) /\ Is(v, "vector")
    /\ val' = [val EXCEPT ![b] = Obj("bytes", val[v].slices), ![v] = Gone]
    /\ want' = [want EXCEPT ![b] = want[v], ![v] = <<>>]
    /\ UNCHANGED <<mem, alloc, rc, twice, reader>>

\* Bytes() and Writer().
Empty(h, t) ==
    /\ Free(h)
    /\ Become(h, t, <<>>, <<>>)
    /\ UNCHANGED <<mem, alloc, rc, twice, reader>>

\* Mutant: the struct is copied without z_bytes_clone.
clone_Bitwise(b, h) ==
    /\ Free(b) /\ Is(h, "bytes")
    /\ Become(b, "bytes", val[h].slices, want[h])
    /\ UNCHANGED <<mem, alloc, rc, twice, reader>>

\* z_bytes_clone: another Bytes with the same regions.
clone(b, h) ==
    /\ Free(b) /\ Is(h, "bytes")
    /\ Become(b, "bytes", val[h].slices, want[h])
    /\ ShareSlices(val[h].slices)
    /\ UNCHANGED reader

\* The destructor of a handle.
Destroy(h) ==
    /\ ~Free(h) /\ Idle(h)
    /\ Become(h, "gone", <<>>, <<>>)
    /\ DropSlices(val[h].slices)
    /\ UNCHANGED reader

-----------------------------------------------------------------------------
(* Reading.                                                                 *)

size(h) == Len(Contents(h))

\* as_vector and as_string: a reader that reads size() bytes into a new buffer
\* (an empty one has no memory and is left out).
as_vector(v, h, r) ==
    /\ Free(v) /\ Is(h, "bytes") /\ size(h) > 0
    /\ Become(v, "vector", <<r>>, want[h])
    /\ Allocate(r, SubSeq(Contents(h), 1, size(h)))
    /\ UNCHANGED reader

\* A Reader is a struct of its own; it is forgotten at the end of its scope.
OpenReader(h) ==
    /\ reader = NoReader /\ Is(h, "bytes")
    /\ reader' = [on |-> {h}, pos |-> 0]
    /\ UNCHANGED <<val, want, mem, alloc, rc, twice>>

CloseReader ==
    /\ reader # NoReader
    /\ reader' = NoReader
    /\ UNCHANGED <<val, want, mem, alloc, rc, twice>>

tell == reader.pos
remaining(h) == size(h) - reader.pos

\* Mutant: the position moves by the length of the caller's buffer.
ReadCount_Asked(h, n) == n

\* "Might be less than len if there is not enough data".
ReadCount(h, n) == IF n < remaining(h) THEN n ELSE remaining(h)

read(h, n) ==
    /\ reader.on = {h}
    /\ reader' = [reader EXCEPT !.pos = @ + ReadCount(h, n)]
    /\ UNCHANGED <<val, want, mem, alloc, rc, twice>>

\* seek_from_start, seek_from_current, seek_from_end: a position outside of the
\* data is refused and the reader stays where it is.
SeekFrom(h, whence, offset) ==
    LET base == CASE whence = "start" -> 0 [] whence = "current" -> tell [] whence = "end" -> size(h)
    IN  IF base + offset \in 0..size(h) THEN base + offset ELSE tell

seek(h) ==
    /\ reader.on = {h}
    /\ \E p \in {SeekFrom(h, w, o) : w \in {"start", "current", "end"}, o \in -MaxOffset..MaxOffset} :
         reader' = [reader EXCEPT !.pos = p]
    /\ UNCHANGED <<val, want, mem, alloc, rc, twice>>

\* get_contiguous_view succeeds.
Contiguous(h) == Is(h, "bytes") /\ Len(val[h].slices) <= 1

-----------------------------------------------------------------------------
(* Writing.                                                                 *)

write_all(w, r, d) ==
    /\ Is(w, "writer") /\ Len(want[w]) < MaxLen
    /\ Become(w, "writer", Append(val[w].slices, r), Append(want[w], d))
    /\ Allocate(r, <<d>>)
    /\ UNCHANGED reader

\* append consumes the data even when it fails.
append(w, b) ==
    /\ Is(w, "writer") /\ Is(b, "bytes") /\ Idle(b)
    /\ Len(want[w]) + Len(want[b]) <= MaxLen
    /\ val' = [val EXCEPT ![w] = Obj("writer", val[w].slices \o val[b].slices), ![b] = Gone]
    /\ want' = [want EXCEPT ![w] = @ \o want[b], ![b] = <<>>]
    /\ UNCHANGED <<mem, alloc, rc, twice, reader>>

AppendFails(w, b) ==
    /\ Is(w, "writer") /\ Is(b, "bytes") /\ Idle(b)
    /\ Become(b, "gone", <<>>, <<>>)
    /\ DropSlices(val[b].slices)
    /\ UNCHANGED reader

finish(b, w) ==
    /\ Free(b) /\ Is(w, "writer")
    /\ val' = [val EXCEPT ![b] = Obj("bytes", val[w].slices), ![w] = Gone]
    /\ want' = [want EXCEPT ![b] = want[w], ![w] = <<>>]
    /\ UNCHANGED <<mem, alloc, rc, twice, reader>>

BytesNext ==
    \/ \E h, k \in Handle, r \in Heap : CopyFrom(h, k, r) \/ as_vector(h, k, r)
    \/ \E h, k \in Handle :
         \/ TakeFrom(h, k) \/ clone(h, k)
         \/ append(h, k) \/ AppendFails(h, k) \/ finish(h, k)
    \/ \E h \in Handle, r \in Heap, d \in Data : MakeVector(h, r, d) \/ write_all(h, r, d)
    \/ \E h \in Handle, d \in Data : Write(h, d)
    \/ \E h \in Handle, t \in {"bytes", "writer"} : Empty(h, t)
    \/ \E h \in Handle : Destroy(h) \/ OpenReader(h) \/ seek(h)
    \/ \E h \in Handle, n \in 0..MaxLen : read(h, n)
    \/ CloseReader

-----------------------------------------------------------------------------
(* Properties.                                                              *)

\* The regions are in use exactly as long as some object refers to them: "a
\* thread-safe delete function to be invoked once corresponding Bytes object and
\* all of its clones are destroyed" (bytes.hxx), and no region is released twice.
Holders(v, H, r) == UNION {{h} \X At(v[h].slices, r) : h \in H}
References(r) == Cardinality(Holders(val, Handle, r))

DeletedOnce ==
    /\ ~twice
    /\ \A r \in Heap : r \in alloc <=> References(r) > 0
    /\ \A r \in Chunk : References(r) > 0 => r \in alloc

\* A Reader stays inside of its payload, and what it has left to read is the end
\* of what the application put there.
ReaderInBounds ==
    \A h \in reader.on :
        /\ tell \in 0..Len(want[h])
        /\ SubSeq(Contents(h), tell + 1, size(h)) = SubSeq(want[h], tell + 1, Len(want[h]))

=============================================================================

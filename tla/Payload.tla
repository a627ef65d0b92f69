------------------------------ MODULE Payload ------------------------------
(***************************************************************************)
(* What Bytes and the shared memory buffers promise to the application     *)
(* (api/bytes.hxx, api/shm): every object is a value of its own.  There is *)
(* no memory here, no reference count and no provider.  A step changes the *)
(* objects it is called on and no other, a copy reads as its original did  *)
(* and from then on leads a life of its own, and a move leaves nothing to  *)
(* its source.  A Reader moves within the payload it borrows.              *)
(*                                                                         *)
(* Module Shm implements it with regions that several objects share.       *)
(***************************************************************************)
EXTENDS Naturals, Sequences

CONSTANTS Object, Datum

VARIABLES kind,     \* object: "gone", or what it is
          content,  \* object: what it reads as
          on, pos   \* the Bytes a Reader is on, if there is one, and where it is

payloadVars == <<kind, content, on, pos>>

Kind == {"gone", "vector", "bytes", "writer", "shm", "mut", "sent"}

Typed == kind \in [Object -> Kind] /\ content \in [Object -> Seq(Datum)]

PayloadInit ==
    /\ kind = [h \in Object |-> "gone"]
    /\ content = [h \in Object |-> <<>>]
    /\ on = {} /\ pos = 0

\* What may be made of what, leaving it as it is or taking its data.
Copies == {<<"vector", "bytes">>, <<"bytes", "vector">>, <<"bytes", "bytes">>,
           <<"bytes", "shm">>, <<"shm", "shm">>}
Moves == {<<"vector", "bytes">>, <<"writer", "bytes">>, <<"mut", "shm">>,
          <<"shm", "mut">>, <<"shm", "bytes">>, <<"mut", "bytes">>}

Borrowed(h) == h \in on

Becomes(h, t, d) == kind'[h] = t /\ content'[h] = d

\* A step on the objects in H leaves all others as they are.
Only(H) == \A x \in Object \ H : Becomes(x, kind[x], content[x])

-----------------------------------------------------------------------------
(* Steps on one object.                                                     *)

\* A buffer of the application, or one of shared memory, with anything in it.
New(h, d) == kind[h] = "gone" /\ \E t \in {"vector", "mut"} : Becomes(h, t, <<d>>)

Empty(h) == kind[h] = "gone" /\ \E t \in {"bytes", "writer"} : Becomes(h, t, <<>>)

Copy(h, k) ==
    /\ kind[h] = "gone" /\ <<kind[k], kind'[h]>> \in Copies
    /\ content'[h] = content[k]

\* The application writes to a buffer, a Bytes of shared memory included.
Write(h, d) ==
    /\ kind[h] \in {"vector", "mut", "shm", "bytes"} /\ ~Borrowed(h)
    /\ Becomes(h, kind[h], <<d>>)

Extend(w, d) == kind[w] = "writer" /\ Becomes(w, "writer", Append(content[w], d))

Drop(h) == kind[h] # "gone" /\ ~Borrowed(h) /\ Becomes(h, "gone", <<>>)

\* A Bytes goes to another process and arrives there as it was.
Ship(h) == kind[h] = "bytes" /\ ~Borrowed(h) /\ Becomes(h, "sent", content[h])

Arrive(h) == kind[h] = "sent" /\ Becomes(h, "bytes", content[h])

StepOn(h) ==
    \/ Drop(h) \/ Empty(h) \/ Ship(h) \/ Arrive(h)
    \/ \E d \in Datum : New(h, d) \/ Write(h, d) \/ Extend(h, d)
    \/ \E k \in Object : Copy(h, k)

-----------------------------------------------------------------------------
(* Steps that take the data of a second object.                             *)

Move(h, k) ==
    /\ kind[h] = "gone" /\ <<kind[k], kind'[h]>> \in Moves
    /\ content'[h] = content[k]

\* A conversion that fails takes its source all the same.
MoveFails(h, k) ==
    /\ kind[h] = "gone" /\ kind[k] \in {"shm", "mut"}
    /\ Becomes(h, "bytes", <<>>)

Join(w, b) ==
    /\ kind[w] = "writer" /\ kind[b] = "bytes" /\ ~Borrowed(b)
    /\ Becomes(w, "writer", content[w] \o content[b])

StepOnBoth(h, k) ==
    /\ h # k /\ Becomes(k, "gone", <<>>)
    /\ Move(h, k) \/ MoveFails(h, k) \/ Join(h, k)

-----------------------------------------------------------------------------
(* A Reader is made, moves within the data, and is forgotten.               *)

Open(h) == on = {} /\ kind[h] = "bytes" /\ on' = {h} /\ pos' = 0

Seek(h) == on = {h} /\ on' = on /\ pos' \in 0..Len(content[h])

Close == on' = {} /\ pos' = 0

\* Looking at objects, and everything that happens beneath them.
Look == UNCHANGED <<on, pos>>

-----------------------------------------------------------------------------

PayloadNext ==
    \/ /\ UNCHANGED kind
       /\ Look \/ Close \/ \E h \in Object : Open(h) \/ Seek(h)
       /\ UNCHANGED content
    \/ /\ UNCHANGED <<on, pos>>
       /\ \/ \E h \in Object : Only({h}) /\ StepOn(h)
          \/ \E h, k \in Object : StepOnBoth(h, k) /\ Only({h, k})
       /\ Typed'

PayloadSpec == PayloadInit /\ [][PayloadNext]_payloadVars

============================================================================

------------------------------ MODULE Channels ------------------------------
(***************************************************************************)
(* A channel between the library's threads and the application's           *)
(* (api/channels.hxx): into_cb_handler_pair gives a closure, which the     *)
(* library calls with every entry, and a handler with recv and try_recv.   *)
(*                                                                         *)
(* The closure blocks the library's thread when a FIFO buffer is full, and *)
(* drops the oldest entry of a full ring.  It is released, and the channel *)
(* disconnected, when its entity is undeclared or destroyed, the session   *)
(* closed, the query finished or cancelled, and no call is in progress     *)
(* (module Entities).  The handler may be dropped first.                   *)
(***************************************************************************)
EXTENDS Naturals, Sequences, SequencesExt

CONSTANTS Capacity,
          Producers,   \* threads of the library
          Consumers,   \* threads of the application that fetch entries
          MaxMsgs      \* bound on the entries produced

ASSUME CapacityPositive == Capacity \in Nat \ {0}
ASSUME MaxMsgsNat == MaxMsgs \in Nat

VARIABLES
    buf,       \* entries in the channel, oldest first
    next,      \* number of entries produced so far
    pend,      \* producer: the entry its call is about to insert, or 0
    sender,    \* the closure: "registered", "unregistered" or "dropped"
    handler,   \* "held" or "dropped"
    source,    \* "entity": channel of a subscriber or queryable; "get": of a query
    policy,    \* "fifo" or "ring"
    waits,     \* does undeclaring wait for calls in progress?  (the library's choice)
    owner,     \* the thread that ends the source: "idle", "cancelling",
               \* "destroying", "undeclaring" or "done"
    cons,      \* consumer: "idle", or "recv" inside a blocking recv
    last,      \* consumer: what its last recv or try_recv returned
    log, got   \* history: entries inserted, and entries delivered, in order

vars == <<buf, next, pend, sender, handler, source, policy, waits, owner, cons, last, log, got>>
kind == <<source, policy, waits>>

Msg == 1..MaxMsgs

DataOK ==
    /\ buf \in Seq(Msg) /\ Len(buf) <= Capacity
    /\ log \in Seq(Msg) /\ got \in Seq(Msg)
    /\ next \in 0..MaxMsgs
    /\ pend \in [Producers -> 0..MaxMsgs]

PhaseOK ==
    /\ sender \in {"registered", "unregistered", "dropped"}
    /\ handler \in {"held", "dropped"}
    /\ owner \in {"idle", "cancelling", "destroying", "undeclaring", "done"}
    /\ cons \in [Consumers -> {"idle", "recv"}]
    /\ last \in [Consumers -> {"none", "data", "nodata", "disconnected"}]

KindOK == source \in {"entity", "get"} /\ policy \in {"fifo", "ring"} /\ waits \in BOOLEAN

TypeOK == DataOK /\ PhaseOK /\ KindOK

\* The closure is with the library and the handler with the application.
Created == sender = "registered" /\ handler = "held"

\* A get that failed: the library has released the closure; the handler is
\* returned if there is an err pointer and dropped before the exception if not.
GetFailed == source = "get" /\ sender = "dropped" /\ handler \in {"held", "dropped"}

Init ==
    /\ buf = <<>> /\ next = 0 /\ log = <<>> /\ got = <<>>
    /\ pend = [p \in Producers |-> 0]
    /\ Created \/ GetFailed
    /\ owner = "idle"
    /\ source \in {"entity", "get"} /\ policy \in {"fifo", "ring"} /\ waits \in BOOLEAN
    /\ cons = [c \in Consumers |-> "idle"]
    /\ last = [c \in Consumers |-> "none"]

NoCall == \A p \in Producers : pend[p] = 0

-----------------------------------------------------------------------------
(* The closure.                                                             *)

\* The library calls the closure with a new entry.
Call(p) ==
    /\ sender = "registered" /\ pend[p] = 0 /\ next < MaxMsgs
    /\ next' = next + 1
    /\ pend' = [pend EXCEPT ![p] = next + 1]
    /\ UNCHANGED <<buf, sender, handler, owner, cons, last, log, got, kind>>

\* Mutant: FIFO and ring are confused.
Insert_Swapped(p) ==
    /\ pend[p] # 0 /\ handler = "held"
    /\ policy = "ring" => Len(buf) < Capacity
    /\ buf' = Append(IF Len(buf) < Capacity THEN buf ELSE Tail(buf), pend[p])
    /\ log' = Append(log, pend[p])
    /\ pend' = [pend EXCEPT ![p] = 0]
    /\ UNCHANGED <<next, sender, handler, owner, cons, last, got, kind>>

\* Mutant: a full ring drops its newest entry.
Insert_DropNewest(p) ==
    /\ pend[p] # 0 /\ handler = "held"
    /\ buf' = Append(IF Len(buf) < Capacity THEN buf ELSE Front(buf), pend[p])
    /\ log' = Append(log, pend[p])
    /\ pend' = [pend EXCEPT ![p] = 0]
    /\ UNCHANGED <<next, sender, handler, owner, cons, last, got, kind>>

\* The call inserts its entry and returns.  Without room it waits (FIFO) or
\* makes room by removing the oldest entry (ring).
Insert(p) ==
    /\ pend[p] # 0 /\ handler = "held"
    /\ policy = "fifo" => Len(buf) < Capacity
    /\ buf' = Append(IF Len(buf) < Capacity THEN buf ELSE Tail(buf), pend[p])
    /\ log' = Append(log, pend[p])
    /\ pend' = [pend EXCEPT ![p] = 0]
    /\ UNCHANGED <<next, sender, handler, owner, cons, last, got, kind>>

\* Mutant: a call goes on waiting for room when nobody can make any.
InsertDisconnected_Waits(p) ==
    /\ pend[p] # 0 /\ handler = "dropped" /\ sender = "registered"
    /\ pend' = [pend EXCEPT ![p] = 0]
    /\ UNCHANGED <<buf, next, sender, handler, owner, cons, last, log, got, kind>>

\* With the handler gone nobody can fetch the entry: the call gives it up.
InsertDisconnected(p) ==
    /\ pend[p] # 0 /\ handler = "dropped"
    /\ pend' = [pend EXCEPT ![p] = 0]
    /\ UNCHANGED <<buf, next, sender, handler, owner, cons, last, log, got, kind>>

\* The unregistered closure is released once no call is in progress; the
\* channel is disconnected from here on.
DropSender ==
    /\ sender = "unregistered" /\ NoCall
    /\ sender' = "dropped"
    /\ UNCHANGED <<buf, next, pend, handler, owner, cons, last, log, got, kind>>

-----------------------------------------------------------------------------
(* The handler.                                                             *)

Pop == /\ got' = Append(got, Head(buf))
       /\ buf' = Tail(buf)

\* A consumer that still expects entries starts a call.  undeclare() && moves
\* the handler out of the entity, so nobody uses it meanwhile; a query's
\* handler is independent of the token.
MayFetch(c) ==
    /\ handler = "held" /\ cons[c] = "idle" /\ last[c] # "disconnected"
    /\ source = "entity" => owner \in {"idle", "done"}

\* FifoHandler::recv, RingHandler::recv: a blocking z_recv.
RecvBegin(c) ==
    /\ MayFetch(c)
    /\ cons' = [cons EXCEPT ![c] = "recv"]
    /\ UNCHANGED <<buf, next, pend, sender, handler, owner, last, log, got, kind>>

\* Mutant: the end of the channel does not wake a blocked recv.
RecvEnd_NotWoken(c) ==
    /\ cons[c] = "recv" /\ buf # <<>> /\ Pop
    /\ last' = [last EXCEPT ![c] = "data"]
    /\ cons' = [cons EXCEPT ![c] = "idle"]
    /\ UNCHANGED <<next, pend, sender, handler, owner, log, kind>>

\* z_recv returns with an entry, or because the channel is disconnected and
\* empty; every error is reported as Z_DISCONNECTED.
RecvEnd(c) ==
    /\ cons[c] = "recv"
    /\ \/ /\ buf # <<>> /\ Pop
          /\ last' = [last EXCEPT ![c] = "data"]
       \/ /\ buf = <<>> /\ sender = "dropped"
          /\ last' = [last EXCEPT ![c] = "disconnected"]
          /\ UNCHANGED <<buf, got>>
    /\ cons' = [cons EXCEPT ![c] = "idle"]
    /\ UNCHANGED <<next, pend, sender, handler, owner, log, kind>>

\* Mutant: the switch over z_try_recv's result knows no Z_CHANNEL_DISCONNECTED.
TryRecv_NoDisconnected(c) ==
    /\ MayFetch(c)
    /\ \/ /\ buf # <<>> /\ Pop
          /\ last' = [last EXCEPT ![c] = "data"]
       \/ /\ buf = <<>>
          /\ last' = [last EXCEPT ![c] = "nodata"]
          /\ UNCHANGED <<buf, got>>
    /\ UNCHANGED <<next, pend, sender, handler, owner, cons, log, kind>>

\* Mutant: an unregistered closure counts as a disconnected channel, although a
\* call in progress may still insert.
TryRecv_Early(c) ==
    /\ MayFetch(c)
    /\ \/ /\ buf # <<>> /\ Pop
          /\ last' = [last EXCEPT ![c] = "data"]
       \/ /\ buf = <<>>
          /\ last' = [last EXCEPT ![c] =
                         IF sender # "registered" THEN "disconnected" ELSE "nodata"]
          /\ UNCHANGED <<buf, got>>
    /\ UNCHANGED <<next, pend, sender, handler, owner, cons, log, kind>>

\* try_recv: z_try_recv never waits, and tells an empty channel from a
\* disconnected one.
TryRecv(c) ==
    /\ MayFetch(c)
    /\ \/ /\ buf # <<>> /\ Pop
          /\ last' = [last EXCEPT ![c] = "data"]
       \/ /\ buf = <<>>
          /\ last' = [last EXCEPT ![c] =
                         IF sender = "dropped" THEN "disconnected" ELSE "nodata"]
          /\ UNCHANGED <<buf, got>>
    /\ UNCHANGED <<next, pend, sender, handler, owner, cons, log, kind>>

\* Nobody uses the handler any more.
HandlerFree == handler = "held" /\ \A c \in Consumers : cons[c] = "idle"

\* The handler is destroyed with its buffer: ~Owned on the handler.
DropHandler ==
    /\ source = "get" \/ owner = "done"
    /\ HandlerFree
    /\ handler' = "dropped" /\ buf' = <<>>
    /\ UNCHANGED <<next, pend, sender, owner, cons, last, log, got, kind>>

-----------------------------------------------------------------------------
(* The end of the source.                                                   *)

\* Mutant: the closure stays registered.
Unregistered_Not == sender

Unregistered == IF sender = "registered" THEN "unregistered" ELSE sender

\* Session::close on another thread, or the query has received its last reply:
\* the library gives the closure up.
SourceEnds ==
    /\ sender = "registered"
    /\ sender' = "unregistered"
    /\ UNCHANGED <<buf, next, pend, handler, owner, cons, last, log, got, kind>>

\* Subscriber<Handler>::undeclare, Queryable<Handler>::undeclare: the handler
\* stays with the application.
Undeclare ==
    /\ source = "entity" /\ owner = "idle" /\ HandlerFree
    /\ owner' = "undeclaring" /\ sender' = Unregistered
    /\ UNCHANGED <<buf, next, pend, handler, cons, last, log, got, kind>>

\* Mutant: the base class first, as if Handler were a base class before Owned.
Destroy_BaseFirst ==
    /\ source = "entity" /\ owner = "idle" /\ HandlerFree
    /\ owner' = "destroying" /\ sender' = Unregistered
    /\ UNCHANGED <<buf, next, pend, handler, cons, last, log, got, kind>>

\* ~Subscriber<Handler>, ~Queryable<Handler>: first the member _handler ...
Destroy ==
    /\ source = "entity" /\ owner = "idle" /\ HandlerFree
    /\ owner' = "destroying"
    /\ handler' = "dropped" /\ buf' = <<>>
    /\ UNCHANGED <<next, pend, sender, cons, last, log, got, kind>>

\* ... then the base class Owned, which undeclares.
DestroyBase ==
    /\ owner = "destroying"
    /\ owner' = "undeclaring" /\ sender' = Unregistered
    /\ UNCHANGED <<buf, next, pend, handler, cons, last, log, got, kind>>

\* CancellationToken::cancel on the query's token.
Cancel ==
    /\ source = "get" /\ owner = "idle"
    /\ owner' = "cancelling" /\ sender' = Unregistered
    /\ UNCHANGED <<buf, next, pend, handler, cons, last, log, got, kind>>

\* cancel waits for the calls in progress and for the release of the closure;
\* undeclare releases the closure itself unless a call is in progress.
EndReturn ==
    /\ owner \in {"undeclaring", "cancelling"}
    /\ \/ sender = "dropped"
       \/ owner = "undeclaring" /\ ~waits /\ ~NoCall
    /\ owner' = "done"
    /\ UNCHANGED <<buf, next, pend, sender, handler, cons, last, log, got, kind>>

Next ==
    \/ \E p \in Producers : Call(p) \/ Insert(p) \/ InsertDisconnected(p)
    \/ \E c \in Consumers : RecvBegin(c) \/ RecvEnd(c) \/ TryRecv(c)
    \/ DropSender \/ DropHandler \/ SourceEnds
    \/ Undeclare \/ Destroy \/ DestroyBase \/ Cancel \/ EndReturn

Spec == Init /\ [][Next]_vars

\* Threads inside a call proceed when they can: the library's and the owner's.
\* A thread blocked in recv is woken once there is something to return.  The
\* library may produce nothing and the application need not fetch.
Fairness ==
    /\ \A p \in Producers : WF_vars(Insert(p) \/ InsertDisconnected(p))
    /\ \A c \in Consumers : WF_vars(RecvEnd(c))
    /\ WF_vars(DropSender)
    /\ WF_vars(DestroyBase) /\ WF_vars(EndReturn)

\* The consumers poll until they are told Z_DISCONNECTED, the loop of
\* docs/pubsub.rst, while the handler is there.
Draining == \A c \in Consumers : WF_vars(TryRecv(c) \/ RecvEnd(c))

FairSpec == Spec /\ Fairness

-----------------------------------------------------------------------------
(* Properties.                                                              *)

\* The channel implements the stream: order, no duplicates, no loss but a full
\* ring's oldest entry, and no data after Z_DISCONNECTED.  The stream has ended
\* when nothing can be inserted any more, and its position is what has left
\* the buffer.
S == INSTANCE Stream WITH
        Entries <- Msg,
        lossy <- policy = "ring",
        pos <- Len(log) - Len(buf),
        ended <- sender = "dropped" \/ handler = "dropped",
        eos <- \E c \in Consumers : last[c] = "disconnected"

ImplementsStream == S!StreamSpec

\* The buffer is the newest part of what was inserted; a FIFO channel moreover
\* has delivered everything before it, until its handler is dropped.
BufferIsTail ==
    handler = "held" =>
        /\ IsSuffix(buf, log)
        /\ policy = "fifo" => log = got \o buf

\* A consumer blocked in recv is released by an entry or by the end of the
\* source: it does not wait on a channel nobody can feed.
RecvReturns ==
    \A c \in Consumers :
        sender # "registered" /\ cons[c] = "recv" ~> cons[c] = "idle"

\* Destroying a channel entity always terminates, even while the library's
\* threads wait for room in a full FIFO and undeclaring waits for them: the
\* handler goes first.
DestroyReturns == owner = "destroying" ~> owner = "done"

\* Dropping the handler is enough to free the closure of an ended source: a
\* library thread that waits for room in it gives up.
DroppedHandlerFreesSender ==
    sender = "unregistered" /\ handler = "dropped" ~> sender = "dropped"

\* undeclare and cancel return whatever the application does, for a ring, and
\* undeclare also for a FIFO if it does not wait for a library thread that may
\* be waiting for room.
EndReturns ==
    /\ owner = "undeclaring" /\ (policy = "ring" \/ ~waits) ~> owner = "done"
    /\ owner = "cancelling" /\ policy = "ring" ~> owner = "done"

\* cancel returns for a FIFO as well if somebody goes on draining it.
CancelReturns == Draining => (owner = "cancelling" ~> owner = "done")

\* A draining consumer of an ended source, or of a get that failed, learns that it
\* is disconnected, and so leaves its loop, unless the handler was dropped or
\* undeclare waits for a library thread that waits for room.
EndIsSeen ==
    Draining =>
        \A c \in Consumers :
            sender # "registered" /\ (source = "get" \/ policy = "ring" \/ ~waits) ~>
                last[c] = "disconnected" \/ handler = "dropped"

=============================================================================

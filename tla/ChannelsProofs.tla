--------------------------- MODULE ChannelsProofs ---------------------------
(***************************************************************************)
(* A channel implements the stream of module Stream, for every capacity    *)
(* and every number of producers, consumers and entries; and its buffer is *)
(* the newest part of what was inserted, all that was not delivered if the *)
(* channel is a FIFO.                                                      *)
(***************************************************************************)
EXTENDS Channels, TLAPS

\* b is the end of l.
TailOf(b, l) ==
    /\ Len(b) <= Len(l)
    /\ \A i \in 1..Len(b) : b[i] = l[Len(l) - Len(b) + i]

\* What is in the channel, as long as somebody holds the handler, and after that.
BufferInv ==
    /\ TailOf(buf, log)
    /\ handler = "held" /\ policy = "fifo" => log = got \o buf
    /\ handler = "dropped" => buf = <<>>

\* The closure is dropped after its last call, so that a consumer who was told
\* that the channel is disconnected has missed nothing.
EndInv ==
    /\ sender = "dropped" => NoCall
    /\ \A c \in Consumers :
          last[c] = "disconnected" => cons[c] = "idle" /\ sender = "dropped" /\ buf = <<>>

IInv == TypeOK /\ BufferInv /\ EndInv

-----------------------------------------------------------------------------
(* Sequences.                                                               *)

\* An entry inserted into the channel enters the log as well.
LEMMA TailAppend ==
  ASSUME NEW E, NEW b \in Seq(E), NEW l \in Seq(E), NEW x \in E, TailOf(b, l)
  PROVE  TailOf(Append(b, x), Append(l, x))
BY DEF TailOf

\* The first entry of the buffer is the next one of the log.
LEMMA TailTail ==
  ASSUME NEW E, NEW b \in Seq(E), NEW l \in Seq(E), TailOf(b, l), b # <<>>
  PROVE  /\ TailOf(Tail(b), l)
         /\ Tail(b) \in Seq(E) /\ Len(Tail(b)) = Len(b) - 1 /\ Len(b) >= 1
         /\ Head(b) \in E /\ Head(b) = l[Len(l) - Len(b) + 1]
<1>1. /\ Tail(b) \in Seq(E) /\ Len(Tail(b)) = Len(b) - 1 /\ Len(b) >= 1 /\ Head(b) = b[1]
      /\ Len(b) \in Nat /\ Len(l) \in Nat /\ b[1] \in E
  OBVIOUS
<1>2. \A i \in 1..(Len(b) - 1) : Tail(b)[i] = b[i + 1]
  OBVIOUS
<1> QED BY <1>1, <1>2 DEF TailOf

\* Delivering the first entry keeps delivered entries and buffer together.
LEMMA MoveHead ==
  ASSUME NEW E, NEW g \in Seq(E), NEW b \in Seq(E), b # <<>>
  PROVE  Append(g, Head(b)) \o Tail(b) = g \o b
OBVIOUS

LEMMA MoveLast ==
  ASSUME NEW E, NEW g \in Seq(E), NEW b \in Seq(E), NEW x \in E
  PROVE  g \o Append(b, x) = Append(g \o b, x)
OBVIOUS

\* TailOf is what the community module calls a suffix.
LEMMA TailIsSuffix ==
  ASSUME NEW E, NEW b \in Seq(E), NEW l \in Seq(E), TailOf(b, l)
  PROVE  IsSuffix(b, l)
<1> DEFINE rb == Reverse(b)
           rl == Reverse(l)
<1>1. /\ rb \in Seq(E) /\ rl \in Seq(E) /\ Len(rb) = Len(b) /\ Len(rl) = Len(l)
      /\ Len(b) \in Nat /\ Len(l) \in Nat /\ Len(b) <= Len(l)
  BY DEF Reverse, TailOf
<1>2. ASSUME NEW i \in 1..Len(b) PROVE rb[i] = rl[i]
  BY <1>1 DEF Reverse, TailOf
<1>3. SubSeq(rb, 1, Len(rb)) = SubSeq(rl, 1, Len(rb))
  BY <1>1, <1>2
<1> QED BY <1>1, <1>3 DEF IsSuffix, IsPrefix

-----------------------------------------------------------------------------
(* The invariant.                                                           *)

\* The channel is empty at first; that of a get that failed has no closure.
LEMMA InitInv == Init => IInv
<1> SUFFICES ASSUME Init PROVE IInv
  OBVIOUS
<1>1. DataOK
  BY CapacityPositive, MaxMsgsNat DEF Init, DataOK, Msg
<1>2. PhaseOK
  BY DEF Init, PhaseOK, Created, GetFailed
<1>3. KindOK
  BY DEF Init, KindOK
<1>4. BufferInv
  BY DEF Init, BufferInv, TailOf
<1>5. EndInv
  BY DEF Init, EndInv, NoCall
<1> QED BY <1>1, <1>2, <1>3, <1>4, <1>5 DEF IInv, TypeOK

\* A call begins; the closure is registered.
LEMMA CallKeeps ==
  ASSUME IInv, NEW p \in Producers, Call(p)
  PROVE  IInv'
<1> USE DEF Call, kind
<1>1. DataOK'
  BY MaxMsgsNat DEF IInv, TypeOK, DataOK, Msg
<1>2. PhaseOK' /\ KindOK'
  BY DEF IInv, TypeOK, PhaseOK, KindOK
<1>3. BufferInv' /\ EndInv'
  BY DEF IInv, BufferInv, EndInv
<1> QED BY <1>1, <1>2, <1>3 DEF IInv, TypeOK

\* The types and the buffer when an entry is inserted, with room or without.
LEMMA InsertBuffer ==
  ASSUME IInv, NEW p \in Producers, Insert(p)
  PROVE  /\ pend[p] \in Msg /\ DataOK' /\ BufferInv'
         /\ Len(buf) < Capacity =>
               buf' = Append(buf, pend[p]) /\ Len(buf') = Len(buf) + 1
         /\ ~(Len(buf) < Capacity) => policy = "ring" /\ buf # <<>> /\ Len(buf') = Len(buf)
<1> DEFINE x == pend[p]
           b == IF Len(buf) < Capacity THEN buf ELSE Tail(buf)
<1>1. /\ x \in Msg /\ buf \in Seq(Msg) /\ log \in Seq(Msg) /\ got \in Seq(Msg)
      /\ Len(buf) \in Nat /\ Len(buf) <= Capacity /\ Capacity \in Nat /\ Capacity > 0
      /\ policy \in {"fifo", "ring"}
  BY CapacityPositive, MaxMsgsNat DEF IInv, TypeOK, DataOK, KindOK, Msg, Insert
<1>2. buf' = Append(b, x) /\ log' = Append(log, x) /\ got' = got
  BY DEF Insert
<1>3. b \in Seq(Msg) /\ TailOf(b, log) /\ Len(b) < Capacity
  <2>1. CASE Len(buf) < Capacity
    BY <2>1, <1>1 DEF IInv, BufferInv
  <2>2. CASE ~(Len(buf) < Capacity)
    <3>1. buf # <<>>
      BY <2>2, <1>1
    <3> QED BY <2>2, <3>1, <1>1, TailTail DEF IInv, BufferInv
  <2> QED BY <2>1, <2>2
<1>4. buf' \in Seq(Msg) /\ log' \in Seq(Msg) /\ Len(buf') = Len(b) + 1
  BY <1>1, <1>2, <1>3
<1>5. DataOK'
  <2>1. pend' \in [Producers -> 0..MaxMsgs] /\ next' = next
    BY MaxMsgsNat DEF IInv, TypeOK, DataOK, Insert
  <2>2. Len(buf') <= Capacity
    BY <1>1, <1>3, <1>4
  <2> QED BY <1>1, <1>2, <1>4, <2>1, <2>2 DEF IInv, TypeOK, DataOK
<1>6. TailOf(buf, log)'
  BY <1>1, <1>2, <1>3, TailAppend
<1>7. handler' = "held" /\ policy' = policy /\ handler = "held"
  BY DEF Insert, kind
<1>8. policy = "fifo" => log' = got' \o buf'
  <2> SUFFICES ASSUME policy = "fifo" PROVE log' = got' \o buf'
    OBVIOUS
  <2>1. b = buf /\ log = got \o buf
    BY <1>7 DEF Insert, IInv, BufferInv
  <2>2. buf' = Append(buf, x)
    BY <2>1, <1>2
  <2>3. got \o Append(buf, x) = Append(got \o buf, x)
    BY <1>1, MoveLast
  <2> QED BY <2>1, <2>2, <2>3, <1>2
<1>9. BufferInv'
  BY <1>6, <1>7, <1>8 DEF BufferInv
<1>10. Len(buf) < Capacity => buf' = Append(buf, x) /\ Len(buf') = Len(buf) + 1
  BY <1>2, <1>4
<1>11. ~(Len(buf) < Capacity) => policy = "ring" /\ buf # <<>> /\ Len(buf') = Len(buf)
  <2> SUFFICES ASSUME ~(Len(buf) < Capacity)
               PROVE  policy = "ring" /\ buf # <<>> /\ Len(buf') = Len(buf)
    OBVIOUS
  <2>1. policy = "ring" /\ buf # <<>>
    BY <1>1 DEF Insert
  <2>2. Len(b) = Len(buf) - 1
    BY <2>1, <1>1, TailTail DEF IInv, BufferInv
  <2> QED BY <2>1, <2>2, <1>1, <1>4
<1> QED BY <1>1, <1>5, <1>9, <1>10, <1>11

\* An entry is inserted: the closure is not dropped, as a call is in progress.
LEMMA InsertKeeps ==
  ASSUME IInv, NEW p \in Producers, Insert(p)
  PROVE  IInv' /\ sender # "dropped"
<1>1. sender # "dropped"
  BY DEF Insert, IInv, EndInv, NoCall
<1>2. PhaseOK' /\ KindOK'
  BY DEF Insert, kind, IInv, TypeOK, PhaseOK, KindOK
<1>3. EndInv'
  BY <1>1 DEF Insert, IInv, EndInv
<1> QED BY <1>1, <1>2, <1>3, InsertBuffer DEF IInv, TypeOK

\* A call gives its entry up.
LEMMA InsertDisconnectedKeeps ==
  ASSUME IInv, NEW p \in Producers, InsertDisconnected(p)
  PROVE  IInv'
<1> USE DEF InsertDisconnected, kind
<1>1. DataOK'
  BY MaxMsgsNat DEF IInv, TypeOK, DataOK
<1>2. PhaseOK' /\ KindOK'
  BY DEF IInv, TypeOK, PhaseOK, KindOK
<1>3. BufferInv'
  BY DEF IInv, BufferInv
<1>4. EndInv'
  BY DEF IInv, TypeOK, DataOK, EndInv, NoCall
<1> QED BY <1>1, <1>2, <1>3, <1>4 DEF IInv, TypeOK

\* What a fetched entry does to the buffer and to the stream.
LEMMA PopBuffer ==
  ASSUME IInv, Pop, buf # <<>>, UNCHANGED <<log, next, pend, handler, kind>>
  PROVE  /\ DataOK' /\ BufferInv'
         /\ Len(buf') = Len(buf) - 1 /\ Len(buf) >= 1
         /\ got' = Append(got, log[Len(log) - Len(buf) + 1])
<1>1. /\ buf \in Seq(Msg) /\ log \in Seq(Msg) /\ got \in Seq(Msg)
      /\ Len(buf) \in Nat /\ Len(buf) <= Capacity /\ Capacity \in Nat
  BY CapacityPositive DEF IInv, TypeOK, DataOK
<1>2. /\ TailOf(Tail(buf), log)
      /\ Tail(buf) \in Seq(Msg) /\ Len(Tail(buf)) = Len(buf) - 1 /\ Len(buf) >= 1
      /\ Head(buf) \in Msg /\ Head(buf) = log[Len(log) - Len(buf) + 1]
  BY <1>1, TailTail DEF IInv, BufferInv
<1>3. got' = Append(got, Head(buf)) /\ buf' = Tail(buf)
  BY DEF Pop
<1>4. DataOK'
  <2>1. got' \in Seq(Msg) /\ buf' \in Seq(Msg) /\ Len(buf') <= Capacity
    BY <1>1, <1>2, <1>3
  <2> QED BY <2>1 DEF IInv, TypeOK, DataOK
<1>5. BufferInv'
  <2>1. TailOf(buf', log')
    BY <1>2, <1>3
  <2>2. handler = "held" /\ policy = "fifo" => log' = got' \o buf'
    BY <1>1, <1>3, MoveHead DEF IInv, BufferInv
  <2>3. handler # "dropped"
    BY DEF IInv, BufferInv
  <2> QED BY <2>1, <2>2, <2>3 DEF BufferInv, kind
<1> QED BY <1>2, <1>3, <1>4, <1>5

\* A consumer fetches an entry, or learns that there is none or none will come.
\* One that was told so before does not fetch again.
LEMMA FetchKeeps ==
  ASSUME IInv, NEW c \in Consumers, RecvEnd(c) \/ TryRecv(c)
  PROVE  /\ IInv' /\ last[c] # "disconnected"
         /\ UNCHANGED <<log, sender, handler, policy>>
         /\ \/ /\ Pop /\ buf # <<>>
               /\ last' = [last EXCEPT ![c] = "data"]
            \/ /\ UNCHANGED <<buf, got>> /\ buf = <<>>
               /\ \/ sender = "dropped" /\ last' = [last EXCEPT ![c] = "disconnected"]
                  \/ last' = [last EXCEPT ![c] = "nodata"]
<1>1. /\ last[c] # "disconnected"
      /\ UNCHANGED <<log, sender, handler, kind, next, pend, owner>>
  BY DEF RecvEnd, TryRecv, MayFetch, IInv, EndInv
<1>2. \/ /\ Pop /\ buf # <<>>
         /\ last' = [last EXCEPT ![c] = "data"]
      \/ /\ UNCHANGED <<buf, got>> /\ buf = <<>>
         /\ \/ sender = "dropped" /\ last' = [last EXCEPT ![c] = "disconnected"]
            \/ last' = [last EXCEPT ![c] = "nodata"]
  BY DEF RecvEnd, TryRecv
<1>3. cons' = cons \/ cons' = [cons EXCEPT ![c] = "idle"]
  BY DEF RecvEnd, TryRecv
<1>4. DataOK' /\ BufferInv'
  <2>1. CASE Pop /\ buf # <<>>
    BY <2>1, <1>1, PopBuffer
  <2>2. CASE UNCHANGED <<buf, got>>
    BY <2>2, <1>1 DEF IInv, TypeOK, DataOK, BufferInv, kind
  <2> QED BY <2>1, <2>2, <1>2
<1>5. PhaseOK'
  BY <1>1, <1>2, <1>3 DEF IInv, TypeOK, PhaseOK
<1>6. KindOK'
  BY <1>1 DEF IInv, TypeOK, KindOK, kind
<1>7. EndInv'
  <2>1. sender' = "dropped" => NoCall'
    BY <1>1 DEF IInv, EndInv, NoCall
  <2>2. ASSUME NEW d \in Consumers, last'[d] = "disconnected"
        PROVE  cons'[d] = "idle" /\ sender' = "dropped" /\ buf' = <<>>
    <3>1. CASE d = c
      <4>1. UNCHANGED buf /\ buf = <<>> /\ sender = "dropped"
        BY <2>2, <3>1, <1>2 DEF IInv, TypeOK, PhaseOK
      <4>2. cons'[c] = "idle"
        BY DEF RecvEnd, TryRecv, MayFetch, IInv, TypeOK, PhaseOK
      <4> QED BY <3>1, <4>1, <4>2, <1>1
    <3>2. CASE d # c
      <4>1. last[d] = "disconnected"
        BY <2>2, <3>2, <1>2 DEF IInv, TypeOK, PhaseOK
      <4>2. cons[d] = "idle" /\ sender = "dropped" /\ buf = <<>>
        BY <4>1 DEF IInv, EndInv
      <4>3. cons'[d] = "idle"
        BY <4>2, <3>2, <1>3 DEF IInv, TypeOK, PhaseOK
      <4> QED BY <4>2, <4>3, <1>1, <1>2
    <3> QED BY <3>1, <3>2
  <2> QED BY <2>1, <2>2 DEF EndInv
<1> QED BY <1>1, <1>2, <1>4, <1>5, <1>6, <1>7 DEF IInv, TypeOK, kind

\* A consumer that expects entries starts to wait.
LEMMA RecvBeginKeeps ==
  ASSUME IInv, NEW c \in Consumers, RecvBegin(c)
  PROVE  IInv'
<1> USE DEF RecvBegin, MayFetch, kind
<1>1. DataOK' /\ KindOK'
  BY DEF IInv, TypeOK, DataOK, KindOK
<1>2. PhaseOK'
  BY DEF IInv, TypeOK, PhaseOK
<1>3. BufferInv'
  BY DEF IInv, BufferInv
<1>4. EndInv'
  BY DEF IInv, TypeOK, PhaseOK, EndInv, NoCall
<1> QED BY <1>1, <1>2, <1>3, <1>4 DEF IInv, TypeOK

\* The closure is released when no call is in progress.
LEMMA DropSenderKeeps ==
  ASSUME IInv, DropSender
  PROVE  IInv'
<1> USE DEF DropSender, kind
<1>1. DataOK' /\ KindOK' /\ PhaseOK'
  BY DEF IInv, TypeOK, DataOK, KindOK, PhaseOK
<1>2. BufferInv' /\ EndInv'
  BY DEF IInv, BufferInv, EndInv, NoCall
<1> QED BY <1>1, <1>2 DEF IInv, TypeOK

\* The handler goes with its buffer, by itself or as a member of its entity.
LEMMA HandlerGoesKeeps ==
  ASSUME IInv, DropHandler \/ Destroy
  PROVE  /\ IInv'
         /\ handler' = "dropped" /\ buf' = <<>> /\ UNCHANGED <<log, got, last, policy>>
<1>1. /\ handler' = "dropped" /\ buf' = <<>>
      /\ UNCHANGED <<log, got, next, pend, sender, cons, last, kind>>
      /\ owner' \in {owner, "destroying"}
  BY DEF DropHandler, Destroy
<1>2. DataOK'
  BY <1>1, CapacityPositive DEF IInv, TypeOK, DataOK
<1>3. PhaseOK' /\ KindOK'
  BY <1>1 DEF IInv, TypeOK, PhaseOK, KindOK, kind
<1>4. BufferInv'
  <2>1. TailOf(<<>>, log)
    BY DEF IInv, TypeOK, DataOK, TailOf
  <2> QED BY <2>1, <1>1 DEF BufferInv
<1>5. EndInv'
  BY <1>1 DEF IInv, EndInv, NoCall
<1> QED BY <1>1, <1>2, <1>3, <1>4, <1>5 DEF IInv, TypeOK, kind

\* The end of the source unregisters the closure, but does not drop it.
LEMMA SourceKeeps ==
  ASSUME IInv, SourceEnds \/ Undeclare \/ DestroyBase \/ Cancel \/ EndReturn
  PROVE  /\ IInv'
         /\ UNCHANGED <<buf, log, got, last, policy, handler>>
         /\ sender' = "dropped" <=> sender = "dropped"
<1>1. /\ UNCHANGED <<buf, next, pend, handler, cons, last, log, got, kind>>
      /\ sender' \in {sender, Unregistered}
      /\ owner' \in {owner, "undeclaring", "cancelling", "done"}
  BY DEF SourceEnds, Undeclare, DestroyBase, Cancel, EndReturn, Unregistered
<1>2. sender' = "dropped" <=> sender = "dropped"
  BY <1>1 DEF Unregistered
<1>3. DataOK' /\ KindOK'
  BY <1>1 DEF IInv, TypeOK, DataOK, KindOK, kind
<1>4. PhaseOK'
  BY <1>1 DEF IInv, TypeOK, PhaseOK, Unregistered
<1>5. BufferInv'
  BY <1>1 DEF IInv, BufferInv, kind
<1>6. EndInv'
  BY <1>1, <1>2 DEF IInv, EndInv, NoCall
<1> QED BY <1>1, <1>2, <1>3, <1>4, <1>5, <1>6 DEF IInv, TypeOK, kind

\* Every step keeps the invariant.
LEMMA NextKeeps == IInv /\ [Next]_vars => IInv'
<1> SUFFICES ASSUME IInv, [Next]_vars PROVE IInv'
  OBVIOUS
<1>1. CASE UNCHANGED vars
  BY <1>1 DEF vars, IInv, TypeOK, DataOK, PhaseOK, KindOK, BufferInv, EndInv, NoCall
<1> QED BY <1>1, CallKeeps, InsertKeeps, InsertDisconnectedKeeps, RecvBeginKeeps, FetchKeeps,
           DropSenderKeeps, HandlerGoesKeeps, SourceKeeps DEF Next

\* The inductive invariant holds throughout.
THEOREM ChannelInvariant == Spec => []IInv
<1>1. Init => IInv
  BY InitInv
<1>2. IInv /\ [Next]_vars => IInv'
  BY NextKeeps
<1> QED BY <1>1, <1>2, PTL DEF Spec

\* The buffer is the newest part of what was inserted, and for a FIFO exactly what
\* was not delivered.
THEOREM BufferIsNewest == Spec => []BufferIsTail
<1>1. IInv => BufferIsTail
  <2> SUFFICES ASSUME IInv, handler = "held"
               PROVE  IsSuffix(buf, log) /\ (policy = "fifo" => log = got \o buf)
    BY DEF BufferIsTail
  <2>1. IsSuffix(buf, log)
    BY TailIsSuffix DEF IInv, TypeOK, DataOK, BufferInv
  <2> QED BY <2>1 DEF IInv, BufferInv
<1> QED BY <1>1, ChannelInvariant, PTL

-----------------------------------------------------------------------------
(* The refinement.  pos, ended and eos are what the channel's state is for  *)
(* the stream.                                                              *)

Ended == sender = "dropped" \/ handler = "dropped"
Eos == \E c \in Consumers : last[c] = "disconnected"
Pos == Len(log) - Len(buf)

\* An initial channel is an initial stream.
LEMMA RefinesInit == Init => S!StreamInit
<1> SUFFICES ASSUME Init PROVE S!StreamInit
  OBVIOUS
<1>1. Len(log) - Len(buf) = 0
  BY DEF Init
<1>2. (\E c \in Consumers : last[c] = "disconnected") = FALSE
  BY DEF Init
<1>3. (sender = "dropped" \/ handler = "dropped") \in BOOLEAN /\ (policy = "ring") \in BOOLEAN
  OBVIOUS
<1> QED BY <1>1, <1>2, <1>3 DEF Init, S!StreamInit

\* An inserted entry enters the stream, or replaces its oldest one.
LEMMA RefinesInsert ==
  ASSUME IInv, NEW p \in Producers, Insert(p)
  PROVE  S!StreamNext
<1>1. /\ ~Ended /\ Ended' = Ended
      /\ Eos' = Eos /\ (policy = "ring")' = (policy = "ring") /\ got' = got
      /\ log' = Append(log, pend[p]) /\ pend[p] \in Msg
  BY InsertKeeps, InsertBuffer DEF Insert, kind, Ended, Eos
<1>2. /\ Len(log') = Len(log) + 1 /\ Len(log) \in Nat /\ Len(buf) \in Nat
      /\ Len(buf) <= Len(log)
  BY <1>1 DEF IInv, TypeOK, DataOK, BufferInv, TailOf
<1>3. CASE Len(buf) < Capacity
  <2>1. Pos' = Pos
    BY <1>2, <1>3, InsertBuffer DEF Pos
  <2>2. S!Enter(pend[p])
    BY <1>1, <2>1 DEF S!Enter, Ended, Eos, Pos
  <2> QED BY <1>1, <2>2 DEF S!StreamNext
<1>4. CASE ~(Len(buf) < Capacity)
  <2>1. policy = "ring" /\ buf # <<>> /\ Len(buf') = Len(buf)
    BY <1>4, InsertBuffer
  <2>2. Len(buf) > 0
    BY <2>1 DEF IInv, TypeOK, DataOK
  <2>3. Pos' = Pos + 1 /\ Pos < Len(log)
    BY <1>2, <2>1, <2>2 DEF Pos
  <2>4. S!Replace(pend[p])
    BY <1>1, <2>1, <2>3 DEF S!Replace, Ended, Eos, Pos
  <2> QED BY <1>1, <2>4 DEF S!StreamNext
<1> QED BY <1>3, <1>4

\* A fetched entry is the next one of the stream, and Z_DISCONNECTED comes at its
\* end.
LEMMA RefinesFetch ==
  ASSUME IInv, NEW c \in Consumers, RecvEnd(c) \/ TryRecv(c)
  PROVE  S!StreamNext \/ UNCHANGED S!streamVars
<1>1. /\ last[c] # "disconnected" /\ UNCHANGED <<log, sender, handler, policy>>
      /\ last \in [Consumers -> {"none", "data", "nodata", "disconnected"}]
      /\ Len(log) \in Nat /\ Len(buf) \in Nat
  BY FetchKeeps DEF IInv, TypeOK, DataOK, PhaseOK
<1>2. CASE Pop /\ buf # <<>> /\ last' = [last EXCEPT ![c] = "data"]
  <2>1. Eos' = Eos /\ Ended' = Ended
    BY <1>1, <1>2 DEF Eos, Ended
  <2>2. /\ Len(buf') = Len(buf) - 1 /\ Len(buf) >= 1
        /\ got' = Append(got, log[Len(log) - Len(buf) + 1])
    BY <1>2, PopBuffer DEF RecvEnd, TryRecv
  <2>3. Pos' = Pos + 1 /\ Pos < Len(log)
    BY <1>1, <2>2 DEF Pos
  <2>4. S!Deliver
    BY <1>1, <2>1, <2>2, <2>3 DEF S!Deliver, Pos, Ended, Eos
  <2> QED BY <2>4 DEF S!StreamNext
<1>3. CASE /\ UNCHANGED <<buf, got>> /\ buf = <<>> /\ sender = "dropped"
           /\ last' = [last EXCEPT ![c] = "disconnected"]
  <2>1. Eos' /\ Ended /\ Ended' = Ended
    BY <1>1, <1>3 DEF Eos, Ended
  <2>2. Pos = Len(log) /\ Pos' = Pos
    BY <1>1, <1>3 DEF Pos
  <2>3. S!Disconnect
    BY <1>1, <1>3, <2>1, <2>2 DEF S!Disconnect, Pos, Ended, Eos
  <2> QED BY <2>3 DEF S!StreamNext
<1>4. CASE UNCHANGED <<buf, got>> /\ last' = [last EXCEPT ![c] = "nodata"]
  <2>1. Eos' = Eos
    BY <1>1, <1>4 DEF Eos
  <2> QED BY <1>1, <1>4, <2>1 DEF S!streamVars, Eos
<1> QED BY <1>2, <1>3, <1>4, FetchKeeps

\* The stream ends with the closure or with the handler.
LEMMA RefinesEnd ==
  ASSUME IInv, DropSender \/ DropHandler \/ Destroy
  PROVE  S!StreamNext
<1>1. Ended' /\ Eos' = Eos /\ UNCHANGED <<log, got, policy>>
  BY DEF DropSender, DropHandler, Destroy, kind, Ended, Eos
<1>2. Pos' \in {Pos, Len(log)}
  <2>1. CASE DropSender
    BY <2>1 DEF DropSender, Pos
  <2>2. CASE DropHandler \/ Destroy
    BY <2>2 DEF DropHandler, Destroy, Pos, IInv, TypeOK, DataOK
  <2> QED BY <2>1, <2>2
<1>3. S!End
  BY <1>1, <1>2 DEF S!End, Pos, Ended, Eos
<1> QED BY <1>3 DEF S!StreamNext

\* All other steps are invisible.
LEMMA RefinesStutter ==
  ASSUME IInv,
         \/ \E p \in Producers : Call(p) \/ InsertDisconnected(p)
         \/ \E c \in Consumers : RecvBegin(c)
         \/ SourceEnds \/ Undeclare \/ DestroyBase \/ Cancel \/ EndReturn
         \/ UNCHANGED vars
  PROVE  UNCHANGED S!streamVars
<1>1. /\ UNCHANGED <<buf, log, got, last, policy, handler>>
      /\ sender' = "dropped" <=> sender = "dropped"
  BY SourceKeeps DEF Call, InsertDisconnected, RecvBegin, kind, vars
<1>2. Ended' = Ended /\ Eos' = Eos
  BY <1>1 DEF Ended, Eos
<1> QED BY <1>1, <1>2 DEF S!streamVars, Ended, Eos

\* Every step of the channel is a step of the stream, or invisible to it.
LEMMA RefinesNext == IInv /\ [Next]_vars => [S!StreamNext]_(S!streamVars)
<1> SUFFICES ASSUME IInv, [Next]_vars PROVE S!StreamNext \/ UNCHANGED S!streamVars
  OBVIOUS
<1> QED BY RefinesInsert, RefinesFetch, RefinesEnd, RefinesStutter DEF Next

\* The channel keeps the promises of the stream: order, no duplicates, no loss but
\* the oldest entry of a full ring, and no data after Z_DISCONNECTED.
THEOREM ChannelIsStream == Spec => ImplementsStream
<1>1. Init => S!StreamInit
  BY RefinesInit
<1>2. IInv /\ [Next]_vars => [S!StreamNext]_(S!streamVars)
  BY RefinesNext
<1> QED BY <1>1, <1>2, ChannelInvariant, PTL DEF Spec, ImplementsStream, S!StreamSpec

=============================================================================

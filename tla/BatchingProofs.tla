--------------------------- MODULE BatchingProofs ---------------------------
(***************************************************************************)
(* What batching promises, for any number of guards, messages and moves    *)
(* and every size of a batch: messages are neither lost nor reordered,     *)
(* and, until a guard is moved, the batch and the reference to the session *)
(* belong to exactly one guard, which flushes the batch before the session *)
(* ends.                                                                   *)
(***************************************************************************)
EXTENDS Batching, FiniteSetTheorems, TLAPS

\* Only a session that is batching stores messages, and it has at most one
\* reference more than its wrapper's, whatever guards are moved.
BatchInv ==
    /\ ~batching => batch = <<>>
    /\ refs <= (IF wrapper THEN 1 ELSE 0) + (IF batching THEN 1 ELSE 0)

\* As long as no guard was moved, the guard that stands for the batch is the one
\* that holds a reference.
GuardInv ==
    moves = 0 =>
        /\ batching <=> active # None
        /\ \A g \in Guard : held[g] = "session" <=> g = active
        /\ refs = (IF wrapper THEN 1 ELSE 0) + (IF active # None THEN 1 ELSE 0)

IInv == TypeOK /\ BatchInv /\ GuardInv /\ InOrder

-----------------------------------------------------------------------------
(* Sequences of messages.                                                   *)

\* A message appended to the batch, or sent behind an empty one, is the last one.
LEMMA AppendLast ==
  ASSUME NEW S, NEW s \in Seq(S), NEW b \in Seq(S), NEW x \in S
  PROVE  /\ s \o Append(b, x) = Append(s \o b, x)
         /\ (s \o b) \o <<x>> = Append(s \o b, x)
         /\ s \o b \in Seq(S)
OBVIOUS

LEMMA EmptyRight ==
  ASSUME NEW S, NEW s \in Seq(S)
  PROVE  s \o <<>> = s
OBVIOUS

\* Numbering the messages goes on.
LEMMA AppendNumber ==
  ASSUME NEW n \in Nat
  PROVE  Append([i \in 1..n |-> i], n + 1) = [i \in 1..(n + 1) |-> i]
OBVIOUS

-----------------------------------------------------------------------------
(* The steps.                                                               *)

\* A session is opened without a batch.
LEMMA InitInv == Init => IInv
<1> SUFFICES ASSUME Init PROVE IInv
  OBVIOUS
<1>1. TypeOK
  <2>1. FlagsOK
    BY DEF Init, FlagsOK
  <2>2. ValuesOK
    BY BoundsNat, BatchSizePositive DEF Init, ValuesOK
  <2> QED BY <2>1, <2>2 DEF TypeOK
<1>2. BatchInv /\ GuardInv
  BY NoneIsNoGuard DEF Init, BatchInv, GuardInv
<1>3. InOrder
  BY DEF Init, InOrder
<1> QED BY <1>1, <1>2, <1>3 DEF IInv

\* A second batch is refused, so that there is never a second guard with one.
LEMMA StartKeeps ==
  ASSUME IInv, NEW g \in Guard, NEW m, start_batching(g, m)
  PROVE  IInv'
<1> USE DEF start_batching, BatchGuard, Alive
<1>1. TypeOK'
  <2>1. FlagsOK'
    BY DEF IInv, TypeOK, FlagsOK
  <2>2. ValuesOK'
    BY DEF IInv, TypeOK, ValuesOK, BatchInv
  <2> QED BY <2>1, <2>2 DEF TypeOK
<1>2. BatchInv'
  BY DEF IInv, TypeOK, ValuesOK, BatchInv
<1>3. GuardInv'
  BY NoneIsNoGuard DEF IInv, TypeOK, ValuesOK, GuardInv
<1>4. InOrder'
  BY DEF IInv, InOrder
<1> QED BY <1>1, <1>2, <1>3, <1>4 DEF IInv

\* A message is stored or sent behind all the others.
LEMMA PutKeeps ==
  ASSUME IInv, put
  PROVE  IInv'
<1> USE DEF put
<1>1. puts \in Nat /\ puts + 1 \in 1..MaxPuts /\ Len(batch) \in Nat
  BY BoundsNat DEF IInv, TypeOK, ValuesOK
<1>2. batch \in Seq(1..MaxPuts) /\ sent \in Seq(1..MaxPuts) /\ Len(batch) <= BatchSize
  BY DEF IInv, TypeOK, ValuesOK
<1>3. /\ batch' \in Seq(1..MaxPuts) /\ sent' \in Seq(1..MaxPuts) /\ Len(batch') <= BatchSize
      /\ sent' \o batch' = Append(sent \o batch, puts + 1)
  <2>1. CASE batching /\ Len(batch) < BatchSize
    <3>1. batch' = Append(batch, puts + 1) /\ sent' = sent
      BY <2>1
    <3> QED BY <3>1, <2>1, <1>1, <1>2, AppendLast, BatchSizePositive
  <2>2. CASE batching /\ ~(Len(batch) < BatchSize)
    <3>1. batch' = <<puts + 1>> /\ sent' = sent \o batch
      BY <2>2
    <3>2. batch' \in Seq(1..MaxPuts) /\ Len(batch') <= BatchSize
      BY <3>1, <1>1, BatchSizePositive
    <3>3. sent' \in Seq(1..MaxPuts)
      BY <3>1, <1>2
    <3>4. sent' \o batch' = Append(sent \o batch, puts + 1)
      BY <3>1, <1>1, <1>2, AppendLast
    <3> QED BY <3>2, <3>3, <3>4
  <2>3. CASE ~batching
    <3>1. batch = <<>> /\ batch' = <<>> /\ sent' = Append(sent, puts + 1)
      BY <2>3 DEF IInv, BatchInv
    <3>2. sent' \in Seq(1..MaxPuts)
      BY <3>1, <1>1, <1>2
    <3> QED BY <3>1, <3>2, <1>1, <1>2, EmptyRight, BatchSizePositive
  <2> QED BY <2>1, <2>2, <2>3
<1>4. TypeOK'
  <2>1. FlagsOK'
    BY DEF IInv, TypeOK, FlagsOK
  <2>2. ValuesOK'
    BY <1>1, <1>3 DEF IInv, TypeOK, ValuesOK
  <2> QED BY <2>1, <2>2 DEF TypeOK
<1>5. BatchInv' /\ GuardInv'
  BY DEF IInv, BatchInv, GuardInv
<1>6. InOrder'
  BY <1>1, <1>3, AppendNumber DEF IInv, InOrder
<1> QED BY <1>4, <1>5, <1>6 DEF IInv

\* Sending the batch keeps the order and the types.
LEMMA FlushKeeps ==
  ASSUME IInv, FlushBatch, UNCHANGED puts
  PROVE  /\ batch' = <<>> /\ batch' \in Seq(1..MaxPuts) /\ Len(batch') <= BatchSize
         /\ sent' \in Seq(1..MaxPuts)
         /\ InOrder'
<1>1. batch \in Seq(1..MaxPuts) /\ sent \in Seq(1..MaxPuts)
  BY DEF IInv, TypeOK, ValuesOK
<1>2. batch' = <<>> /\ batch' \in Seq(1..MaxPuts) /\ Len(batch') <= BatchSize
  BY BatchSizePositive DEF FlushBatch
<1>3. sent' = sent \o batch /\ sent' \in Seq(1..MaxPuts)
  BY <1>1 DEF FlushBatch
<1>4. sent' \o batch' = sent \o batch
  BY <1>2, <1>3, EmptyRight
<1> QED BY <1>2, <1>3, <1>4 DEF IInv, InOrder

\* An explicit flush leaves the batch open.
LEMMA flushKeeps ==
  ASSUME IInv, NEW g \in Guard, flush(g)
  PROVE  IInv'
<1>1. /\ batch' = <<>> /\ batch' \in Seq(1..MaxPuts) /\ Len(batch') <= BatchSize
      /\ sent' \in Seq(1..MaxPuts) /\ InOrder'
  BY FlushKeeps DEF flush
<1>2. TypeOK'
  <2>1. FlagsOK'
    BY DEF flush, IInv, TypeOK, FlagsOK
  <2>2. ValuesOK'
    BY <1>1 DEF flush, IInv, TypeOK, ValuesOK
  <2> QED BY <2>1, <2>2 DEF TypeOK
<1>3. BatchInv' /\ GuardInv'
  BY <1>1 DEF flush, IInv, BatchInv, GuardInv
<1> QED BY <1>1, <1>2, <1>3 DEF IInv

\* A guard that goes out of scope flushes and stops the batch if it holds the
\* session, and does nothing otherwise.
LEMMA DestroyGuardKeeps ==
  ASSUME IInv, NEW g \in Guard, DestroyGuard(g)
  PROVE  IInv'
<1> USE DEF DestroyGuard, Alive
<1>1. CASE held[g] = "session"
  <2>1. /\ batch' = <<>> /\ batch' \in Seq(1..MaxPuts) /\ Len(batch') <= BatchSize
        /\ sent' \in Seq(1..MaxPuts) /\ InOrder'
    BY <1>1, FlushKeeps
  <2>2. TypeOK'
    <3>1. FlagsOK'
      BY <1>1 DEF IInv, TypeOK, FlagsOK
    <3>2. ValuesOK'
      BY <1>1, <2>1 DEF IInv, TypeOK, ValuesOK
    <3> QED BY <3>1, <3>2 DEF TypeOK
  <2>3. BatchInv'
    BY <1>1, <2>1 DEF IInv, TypeOK, ValuesOK, BatchInv
  <2>4. GuardInv'
    BY <1>1, NoneIsNoGuard DEF IInv, TypeOK, ValuesOK, GuardInv
  <2> QED BY <2>1, <2>2, <2>3, <2>4 DEF IInv
<1>2. CASE held[g] # "session"
  <2>1. TypeOK'
    <3>1. FlagsOK'
      BY <1>2 DEF IInv, TypeOK, FlagsOK
    <3>2. ValuesOK'
      BY <1>2 DEF IInv, TypeOK, ValuesOK
    <3> QED BY <3>1, <3>2 DEF TypeOK
  <2>2. BatchInv'
    BY <1>2 DEF IInv, BatchInv
  <2>3. GuardInv'
    BY <1>2, NoneIsNoGuard DEF IInv, TypeOK, ValuesOK, GuardInv
  <2>4. InOrder'
    BY <1>2 DEF IInv, InOrder
  <2> QED BY <2>1, <2>2, <2>3, <2>4 DEF IInv
<1> QED BY <1>1, <1>2

\* A moved guard voids what is promised of unmoved ones, and nothing else.
LEMMA MoveKeeps ==
  ASSUME IInv, NEW d \in Guard, NEW s \in Guard, MoveGuard(d, s)
  PROVE  IInv'
<1> USE DEF MoveGuard
<1>1. TypeOK'
  <2>1. FlagsOK'
    BY DEF IInv, TypeOK, FlagsOK
  <2>2. ValuesOK'
    BY BoundsNat DEF IInv, TypeOK, ValuesOK
  <2> QED BY <2>1, <2>2 DEF TypeOK
<1>2. BatchInv' /\ InOrder'
  BY DEF IInv, BatchInv, InOrder
<1>3. GuardInv'
  BY BoundsNat DEF IInv, TypeOK, ValuesOK, GuardInv
<1> QED BY <1>1, <1>2, <1>3 DEF IInv

\* The wrapper's reference goes.
LEMMA DestroySessionKeeps ==
  ASSUME IInv, DestroySession
  PROVE  IInv'
<1> USE DEF DestroySession, Alive
<1>1. TypeOK'
  <2>1. FlagsOK'
    BY DEF IInv, TypeOK, FlagsOK
  <2>2. ValuesOK'
    BY DEF IInv, TypeOK, ValuesOK
  <2> QED BY <2>1, <2>2 DEF TypeOK
<1>2. BatchInv' /\ GuardInv' /\ InOrder'
  BY DEF IInv, TypeOK, ValuesOK, BatchInv, GuardInv, InOrder
<1> QED BY <1>1, <1>2 DEF IInv

\* Every step keeps the invariant.
LEMMA NextKeeps == IInv /\ [Next]_vars => IInv'
<1> SUFFICES ASSUME IInv, [Next]_vars PROVE IInv'
  OBVIOUS
<1>1. CASE UNCHANGED vars
  BY <1>1 DEF vars, IInv, TypeOK, FlagsOK, ValuesOK, BatchInv, GuardInv, InOrder
<1> QED BY <1>1, StartKeeps, flushKeeps, DestroyGuardKeeps, MoveKeeps, PutKeeps,
           DestroySessionKeeps DEF Next

\* The inductive invariant holds throughout.
THEOREM BatchInvariant == Spec => []IInv
<1>1. Init => IInv
  BY InitInv
<1>2. IInv /\ [Next]_vars => IInv'
  BY NextKeeps
<1> QED BY <1>1, <1>2, PTL DEF Spec

\* Until a guard is moved, batching lasts exactly as long as a guard.
THEOREM BatchLastsAsGuard == Spec => []UnmovedGuardIsBatch
<1>1. IInv => UnmovedGuardIsBatch
  BY DEF IInv, GuardInv, UnmovedGuardIsBatch
<1> QED BY <1>1, BatchInvariant, PTL

\* Until a guard is moved, the references are those of the wrapper and the guards.
THEOREM ReferencesCounted == Spec => []RefsCounted
<1>1. IInv => RefsCounted
  <2> SUFFICES ASSUME IInv, moves = 0
               PROVE  refs = (IF wrapper THEN 1 ELSE 0)
                             + Cardinality({g \in Guard : held[g] = "session"})
    BY DEF RefsCounted
  <2>1. CASE active = None
    <3>1. {g \in Guard : held[g] = "session"} = {}
      BY <2>1, NoneIsNoGuard DEF IInv, GuardInv
    <3> QED BY <2>1, <3>1, FS_EmptySet DEF IInv, GuardInv
  <2>2. CASE active # None
    <3>1. {g \in Guard : held[g] = "session"} = {active}
      BY <2>2 DEF IInv, TypeOK, ValuesOK, GuardInv
    <3> QED BY <2>2, <3>1, FS_Singleton DEF IInv, GuardInv
  <2> QED BY <2>1, <2>2
<1> QED BY <1>1, BatchInvariant, PTL

\* A session whose guards were not moved does not end with messages in its batch.
THEOREM SessionEndsFlushed == Spec => []EndFlushes
<1>1. IInv => EndFlushes
  BY DEF IInv, TypeOK, ValuesOK, BatchInv, GuardInv, EndFlushes, Alive
<1> QED BY <1>1, BatchInvariant, PTL

\* Messages are neither lost nor reordered, also when guards are moved.
THEOREM MessagesInOrder == Spec => []InOrder
<1>1. IInv => InOrder
  BY DEF IInv
<1> QED BY <1>1, BatchInvariant, PTL

=============================================================================

--------------------------- MODULE EntitiesProofs ---------------------------
(***************************************************************************)
(* No callback runs on a released context, every on_drop runs exactly once *)
(* and no closure is orphaned, for every set of entities and scopes and    *)
(* every number of concurrent calls.                                       *)
(*                                                                         *)
(* The invariant is stated for one entity.  Most actions change one entity *)
(* only; Unregister changes many, but each of them in one of three ways.   *)
(***************************************************************************)
EXTENDS Entities, TLAPS

\* What the listed properties leave out: the context is there from the start of
\* the declaration until the library has given the closure up, and only channel
\* entities have a handler.
Life(e) ==
    /\ reg[e] => ctx[e] = "live"
    /\ phase[e] = "idle" => ctx[e] = "none"
    /\ phase[e] = "calling" => ctx[e] = "live" /\ ~reg[e] /\ running[e] = 0
    /\ handler[e] = "held" => variant[e] = "channel"

\* The properties of module Entities, for one entity.
CallsOk(e) == running[e] > 0 => ctx[e] = "live"

DropsOk(e) == drops[e] = IF ctx[e] \in {"deleting", "deleted"} THEN 1 ELSE 0

ReleaserOk(e) == ctx[e] = "live" => phase[e] = "calling" \/ reg[e] \/ running[e] > 0

FailureOk(e) ==
    phase[e] \in {"threw", "errored"} =>
        /\ ctx[e] = "deleted" /\ drops[e] = 1 /\ ~reg[e] /\ running[e] = 0
        /\ phase[e] = "threw" => handler[e] # "held"

ClosedOk(e) ==
    reg[e] => /\ open[scope[e]] = "open" /\ open[Session] = "open"
              /\ phase[e] \in {"registered", "declared", "background", "destroying"}

EInv(e) ==
    /\ Life(e) /\ CallsOk(e) /\ DropsOk(e)
    /\ ReleaserOk(e) /\ FailureOk(e) /\ ClosedOk(e)

IInv == TypeOK /\ \A e \in Entity : EInv(e)

\* The invariant contains the properties.
LEMMA InvImplies ==
  IInv => /\ CallsOnLiveContext /\ DropOnce /\ ContextHasReleaser
          /\ FailureIsClean /\ ClosedMeansUnregistered
BY DEF IInv, EInv, CallsOk, DropsOk, ReleaserOk, FailureOk, ClosedOk,
       CallsOnLiveContext, DropOnce, ContextHasReleaser, FailureIsClean,
       ClosedMeansUnregistered

\* It holds before anything is declared.
LEMMA InitInv == Init => IInv
BY SessionIsScope, MaxRunningPositive
   DEF Init, IInv, TypeOK, EInv, Life, CallsOk, DropsOk, ReleaserOk, FailureOk, ClosedOk

\* Everything the invariant says of e depends only on these.
Same(e) ==
    /\ scope'[e] = scope[e] /\ variant'[e] = variant[e] /\ phase'[e] = phase[e]
    /\ reg'[e] = reg[e] /\ running'[e] = running[e] /\ ctx'[e] = ctx[e]
    /\ drops'[e] = drops[e] /\ handler'[e] = handler[e]

\* An entity nothing changed for keeps its invariant while no scope changes.
LEMMA SameKeeps ==
  ASSUME NEW e \in Entity, EInv(e), Same(e), UNCHANGED open
  PROVE  EInv(e)'
BY DEF EInv, Same, Life, CallsOk, DropsOk, ReleaserOk, FailureOk, ClosedOk

\* An action on one entity need only be checked for that entity.
LEMMA OneEntity ==
  ASSUME IInv, TypeOK', UNCHANGED open,
         NEW e \in Entity, EInv(e)',
         \A x \in Entity \ {e} : Same(x)
  PROVE  IInv'
<1> SUFFICES ASSUME NEW x \in Entity PROVE EInv(x)'
  BY DEF IInv
<1>1. CASE x = e
  BY <1>1
<1>2. CASE x # e
  BY <1>2, SameKeeps DEF IInv
<1> QED BY <1>1, <1>2

\* Giving closures up keeps the invariant of every entity x: an entity of S loses
\* its registration, and its context is released now or by its last call; its
\* owner may be undeclaring it.  The scopes of the others stay open.
LEMMA UnregisterKeeps ==
  ASSUME IInv, NEW S \in SUBSET Entity, NEW who, Unregister(S, who),
         UNCHANGED <<scope, variant, running, drops, handler>>,
         NEW x \in Entity,
         \/ phase'[x] = phase[x]
         \/ x \in S /\ phase[x] \in {"declared", "destroying"} /\ phase'[x] = "undeclaring",
         reg[x] /\ x \notin S => open'[scope[x]] = "open" /\ open'[Session] = "open"
  PROVE  EInv(x)'
<1> EInv(x) /\ TypeOK
  BY DEF IInv
<1> USE DEF Unregister, TypeOK
<1>1. Life(x)'
  BY DEF EInv, Life, CallsOk
<1>2. CallsOk(x)'
  BY DEF EInv, Life, CallsOk
<1>3. DropsOk(x)'
  BY DEF EInv, Life, DropsOk
<1>4. ReleaserOk(x)'
  BY DEF EInv, Life, ReleaserOk, ClosedOk
<1>5. FailureOk(x)'
  BY DEF EInv, FailureOk
<1>6. ClosedOk(x)'
  BY DEF EInv, ClosedOk
<1> QED BY <1>1, <1>2, <1>3, <1>4, <1>5, <1>6 DEF EInv

\* Giving closures up keeps the types.
LEMMA UnregisterType ==
  ASSUME TypeOK, NEW S \in SUBSET Entity, NEW who \in {"owner", "scope"}, Unregister(S, who)
  PROVE  /\ reg' \in [Entity -> BOOLEAN]
         /\ ctx' \in [Entity -> {"none", "live", "dropping", "deleting", "deleted"}]
         /\ dropper' \in [Entity -> {"none", "owner", "scope", "callback"}]
BY DEF TypeOK, Unregister

\* Declaring.
LEMMA DeclareKeeps ==
  ASSUME IInv, NEW e \in Entity, NEW s \in Scope, NEW m \in {"throw", "err"},
         NEW v \in {"object", "background", "channel"}, Declare(e, s, v, m)
  PROVE  IInv'
<1> USE DEF Declare, IInv
<1>1. TypeOK'
  BY DEF TypeOK
<1>2. EInv(e)'
  BY DEF TypeOK, EInv, Life, CallsOk, DropsOk, ReleaserOk, FailureOk, ClosedOk
<1>3. \A x \in Entity \ {e} : Same(x)
  BY DEF TypeOK, Same
<1> QED BY <1>1, <1>2, <1>3, OneEntity

\* The library's threads.
LEMMA CallKeeps ==
  ASSUME IInv, NEW e \in Entity, Call(e)
  PROVE  IInv'
<1> USE DEF Call, IInv
<1>1. TypeOK'
  BY MaxRunningPositive DEF TypeOK
<1>2. EInv(e)'
  BY MaxRunningPositive DEF TypeOK, EInv, Life, CallsOk, DropsOk, ReleaserOk, FailureOk, ClosedOk
<1>3. \A x \in Entity \ {e} : Same(x)
  BY DEF TypeOK, Same
<1> QED BY <1>1, <1>2, <1>3, OneEntity

\* The last call of an unregistered closure leaves the context to its release.
LEMMA CallEndKeeps ==
  ASSUME IInv, NEW e \in Entity, CallEnd(e)
  PROVE  IInv'
<1> USE DEF CallEnd, IInv
<1>1. TypeOK'
  BY MaxRunningPositive DEF TypeOK
<1>2. EInv(e)'
  BY MaxRunningPositive DEF TypeOK, EInv, Life, CallsOk, DropsOk, ReleaserOk, FailureOk, ClosedOk
<1>3. \A x \in Entity \ {e} : Same(x)
  BY DEF TypeOK, Same
<1> QED BY <1>1, <1>2, <1>3, OneEntity

\* on_drop is counted when it leaves the state where it is due.
LEMMA OnDropKeeps ==
  ASSUME IInv, NEW e \in Entity, OnDrop(e)
  PROVE  IInv'
<1> USE DEF OnDrop, IInv
<1>1. TypeOK'
  BY MaxRunningPositive DEF TypeOK
<1>2. EInv(e)'
  BY MaxRunningPositive DEF TypeOK, EInv, Life, CallsOk, DropsOk, ReleaserOk, FailureOk, ClosedOk
<1>3. \A x \in Entity \ {e} : Same(x)
  BY DEF TypeOK, Same
<1> QED BY <1>1, <1>2, <1>3, OneEntity

\* The context is freed after on_drop.
LEMMA DeleteKeeps ==
  ASSUME IInv, NEW e \in Entity, Delete(e)
  PROVE  IInv'
<1> USE DEF Delete, IInv
<1>1. TypeOK'
  BY MaxRunningPositive DEF TypeOK
<1>2. EInv(e)'
  BY MaxRunningPositive DEF TypeOK, EInv, Life, CallsOk, DropsOk, ReleaserOk, FailureOk, ClosedOk
<1>3. \A x \in Entity \ {e} : Same(x)
  BY DEF TypeOK, Same
<1> QED BY <1>1, <1>2, <1>3, OneEntity

\* The result of a declaration.
LEMMA RegisterKeeps ==
  ASSUME IInv, NEW e \in Entity, Register(e)
  PROVE  IInv'
<1> USE DEF Register, IInv
<1>1. TypeOK'
  BY MaxRunningPositive DEF TypeOK
<1>2. EInv(e)'
  BY MaxRunningPositive DEF TypeOK, EInv, Life, CallsOk, DropsOk, ReleaserOk, FailureOk, ClosedOk
<1>3. \A x \in Entity \ {e} : Same(x)
  BY DEF TypeOK, Same
<1> QED BY <1>1, <1>2, <1>3, OneEntity

\* The library releases the closure it refuses.
LEMMA RejectKeeps ==
  ASSUME IInv, NEW e \in Entity, Reject(e)
  PROVE  IInv'
<1> USE DEF Reject, IInv
<1>1. TypeOK'
  BY MaxRunningPositive DEF TypeOK
<1>2. EInv(e)'
  BY MaxRunningPositive DEF TypeOK, EInv, Life, CallsOk, DropsOk, ReleaserOk, FailureOk, ClosedOk
<1>3. \A x \in Entity \ {e} : Same(x)
  BY DEF TypeOK, Same
<1> QED BY <1>1, <1>2, <1>3, OneEntity

\* A successful declaration returns.
LEMMA DeclareReturnKeeps ==
  ASSUME IInv, NEW e \in Entity, DeclareReturn(e)
  PROVE  IInv'
<1> USE DEF DeclareReturn, IInv
<1>1. TypeOK'
  BY MaxRunningPositive DEF TypeOK
<1>2. EInv(e)'
  BY MaxRunningPositive DEF TypeOK, EInv, Life, CallsOk, DropsOk, ReleaserOk, FailureOk, ClosedOk
<1>3. \A x \in Entity \ {e} : Same(x)
  BY DEF TypeOK, Same
<1> QED BY <1>1, <1>2, <1>3, OneEntity

\* A failed declaration returns after the release.
LEMMA DeclareFailKeeps ==
  ASSUME IInv, NEW e \in Entity, DeclareFail(e)
  PROVE  IInv'
<1> USE DEF DeclareFail, IInv
<1>1. TypeOK'
  BY MaxRunningPositive DEF TypeOK
<1>2. EInv(e)'
  BY MaxRunningPositive DEF TypeOK, EInv, Life, CallsOk, DropsOk, ReleaserOk, FailureOk, ClosedOk
<1>3. \A x \in Entity \ {e} : Same(x)
  BY DEF TypeOK, Same
<1> QED BY <1>1, <1>2, <1>3, OneEntity

\* The first half of a destructor, and what the application does afterwards.
LEMMA DestroyKeeps ==
  ASSUME IInv, NEW e \in Entity, Destroy(e)
  PROVE  IInv'
<1> USE DEF Destroy, IInv
<1>1. TypeOK'
  BY MaxRunningPositive DEF TypeOK
<1>2. EInv(e)'
  BY MaxRunningPositive DEF TypeOK, EInv, Life, CallsOk, DropsOk, ReleaserOk, FailureOk, ClosedOk
<1>3. \A x \in Entity \ {e} : Same(x)
  BY DEF TypeOK, Same
<1> QED BY <1>1, <1>2, <1>3, OneEntity

\* undeclare and destructors return.
LEMMA UndeclareReturnKeeps ==
  ASSUME IInv, NEW e \in Entity, UndeclareReturn(e)
  PROVE  IInv'
<1> USE DEF UndeclareReturn, IInv
<1>1. TypeOK'
  BY MaxRunningPositive DEF TypeOK
<1>2. EInv(e)'
  BY MaxRunningPositive DEF TypeOK, EInv, Life, CallsOk, DropsOk, ReleaserOk, FailureOk, ClosedOk
<1>3. \A x \in Entity \ {e} : Same(x)
  BY DEF TypeOK, Same
<1> QED BY <1>1, <1>2, <1>3, OneEntity

\* The application drops its handler.
LEMMA DropHandlerKeeps ==
  ASSUME IInv, NEW e \in Entity, DropHandler(e)
  PROVE  IInv'
<1> USE DEF DropHandler, IInv
<1>1. TypeOK'
  BY MaxRunningPositive DEF TypeOK
<1>2. EInv(e)'
  BY MaxRunningPositive DEF TypeOK, EInv, Life, CallsOk, DropsOk, ReleaserOk, FailureOk, ClosedOk
<1>3. \A x \in Entity \ {e} : Same(x)
  BY DEF TypeOK, Same
<1> QED BY <1>1, <1>2, <1>3, OneEntity

\* Giving one closure up: undeclare, and the second half of a destructor.
LEMMA UndeclareKeeps ==
  ASSUME IInv, NEW e \in Entity, Undeclare(e)
  PROVE  IInv'
<1> USE DEF Undeclare
<1>1. TypeOK'
  BY UnregisterType DEF IInv, TypeOK
<1>2. ASSUME NEW x \in Entity PROVE EInv(x)'
  <2>1. \/ phase'[x] = phase[x]
        \/ x \in {e} /\ phase[x] \in {"declared", "destroying"} /\ phase'[x] = "undeclaring"
    BY DEF IInv, TypeOK
  <2>2. reg[x] => open'[scope[x]] = "open" /\ open'[Session] = "open"
    BY DEF IInv, EInv, ClosedOk
  <2> QED BY <2>1, <2>2, UnregisterKeeps
<1> QED BY <1>1, <1>2 DEF IInv

\* The base class of a wrapper is destroyed.
LEMMA DestroyBaseKeeps ==
  ASSUME IInv, NEW e \in Entity, DestroyBase(e)
  PROVE  IInv'
<1> USE DEF DestroyBase
<1>1. TypeOK'
  BY UnregisterType DEF IInv, TypeOK
<1>2. ASSUME NEW x \in Entity PROVE EInv(x)'
  <2>1. \/ phase'[x] = phase[x]
        \/ x \in {e} /\ phase[x] \in {"declared", "destroying"} /\ phase'[x] = "undeclaring"
    BY DEF IInv, TypeOK
  <2>2. reg[x] => open'[scope[x]] = "open" /\ open'[Session] = "open"
    BY DEF IInv, EInv, ClosedOk
  <2> QED BY <2>1, <2>2, UnregisterKeeps
<1> QED BY <1>1, <1>2 DEF IInv

\* Closing a publisher or the session.
LEMMA CloseScopeKeeps ==
  ASSUME IInv, NEW s \in Scope, CloseScope(s)
  PROVE  IInv'
<1> DEFINE S == {e \in Entity : scope[e] = s}
<1>1. TypeOK'
  BY UnregisterType DEF CloseScope, IInv, TypeOK
<1>2. ASSUME NEW x \in Entity PROVE EInv(x)'
  <2>1. reg[x] /\ x \notin S => open'[scope[x]] = "open" /\ open'[Session] = "open"
    BY SessionIsScope DEF CloseScope, IInv, TypeOK, EInv, ClosedOk
  <2>2. Unregister(S, "scope")
    BY DEF CloseScope
  <2>3. phase'[x] = phase[x] /\ UNCHANGED <<scope, variant, running, drops, handler>>
    BY DEF CloseScope
  <2> QED BY <2>1, <2>2, <2>3, UnregisterKeeps
<1> QED BY <1>1, <1>2 DEF IInv

\* Closing the session gives every closure up.
LEMMA CloseSessionKeeps ==
  ASSUME IInv, CloseSession
  PROVE  IInv'
<1>1. TypeOK'
  BY UnregisterType, SessionIsScope DEF CloseSession, IInv, TypeOK
<1>2. ASSUME NEW x \in Entity PROVE EInv(x)'
  BY UnregisterKeeps DEF CloseSession
<1> QED BY <1>1, <1>2 DEF IInv

\* Opening a scope, or the return of a close: no open scope stops being open.
LEMMA ScopeStepKeeps ==
  ASSUME IInv, NEW s \in Scope, OpenScope(s) \/ CloseReturn(s)
  PROVE  IInv'
<1>1. TypeOK'
  BY DEF OpenScope, CloseReturn, IInv, TypeOK
<1>2. ASSUME NEW x \in Entity PROVE EInv(x)'
  BY SessionIsScope DEF OpenScope, CloseReturn, IInv, TypeOK, EInv, Life, CallsOk, DropsOk,
     ReleaserOk, FailureOk, ClosedOk
<1> QED BY <1>1, <1>2 DEF IInv

\* Every declare function of the API is a Declare.
LEMMA EveryDeclare ==
  ASSUME NEW e \in Entity, NEW m \in {"throw", "err"},
         DeclareOnSession(e, m) \/ \E s \in Scope \ {Session} : DeclareOnScope(e, s, m)
  PROVE  \E s \in Scope, v \in {"object", "background", "channel"} : Declare(e, s, v, m)
<1>1. CASE DeclareOnSession(e, m)
  <2>1. \E v \in {"object", "background", "channel"} : Declare(e, Session, v, m)
    BY <1>1 DEF DeclareOnSession, declare_subscriber, declare_background_subscriber,
       declare_subscriber_channel, declare_queryable, declare_background_queryable,
       declare_queryable_channel, liveliness_declare_subscriber,
       liveliness_declare_background_subscriber, liveliness_declare_subscriber_channel,
       declare_transport_events_listener, declare_background_transport_events_listener,
       declare_transport_events_listener_channel, declare_link_events_listener,
       declare_background_link_events_listener, declare_link_events_listener_channel,
       declare_querying_subscriber, declare_background_querying_subscriber,
       declare_querying_subscriber_channel, declare_advanced_subscriber,
       declare_background_advanced_subscriber, declare_advanced_subscriber_channel,
       detect_publishers, detect_publishers_background
  <2> QED BY <2>1, SessionIsScope
<1>2. CASE \E s \in Scope \ {Session} : DeclareOnScope(e, s, m)
  BY <1>2 DEF DeclareOnScope, declare_publisher_matching_listener,
     declare_background_publisher_matching_listener, declare_querier_matching_listener,
     declare_background_querier_matching_listener, declare_advanced_matching_listener,
     declare_background_advanced_matching_listener, declare_sample_miss_listener,
     declare_background_sample_miss_listener
<1> QED BY <1>1, <1>2

\* Every step keeps the invariant.
LEMMA NextKeeps == IInv /\ [Next]_vars => IInv'
<1> SUFFICES ASSUME IInv, [Next]_vars PROVE IInv'
  OBVIOUS
<1>1. ASSUME NEW e \in Entity, NEW m \in {"throw", "err"},
             DeclareOnSession(e, m) \/ \E s \in Scope \ {Session} : DeclareOnScope(e, s, m)
      PROVE  IInv'
  BY <1>1, EveryDeclare, DeclareKeeps
<1>2. ASSUME NEW e \in Entity, Call(e) \/ Progress(e) PROVE IInv'
  BY <1>2, CallKeeps, RegisterKeeps, RejectKeeps, CallEndKeeps, OnDropKeeps, DeleteKeeps,
     DeclareReturnKeeps, DeclareFailKeeps, DestroyBaseKeeps, UndeclareReturnKeeps
     DEF Progress
<1>3. ASSUME NEW e \in Entity, Undeclare(e) \/ Destroy(e) \/ DropHandler(e) PROVE IInv'
  BY <1>3, UndeclareKeeps, DestroyKeeps, DropHandlerKeeps
<1>4. ASSUME NEW s \in Scope, OpenScope(s) \/ CloseScope(s) \/ CloseReturn(s) PROVE IInv'
  BY <1>4, ScopeStepKeeps, CloseScopeKeeps
<1>5. CASE CloseSession
  BY <1>5, CloseSessionKeeps
<1>6. CASE UNCHANGED vars
  BY <1>6 DEF vars, IInv, TypeOK, EInv, Life, CallsOk, DropsOk, ReleaserOk, FailureOk, ClosedOk
<1> QED BY <1>1, <1>2, <1>3, <1>4, <1>5, <1>6 DEF Next

\* The inductive invariant holds throughout.
THEOREM ContextInvariant == Spec => []IInv
<1>1. Init => IInv
  BY InitInv
<1>2. IInv /\ [Next]_vars => IInv'
  BY NextKeeps
<1> QED BY <1>1, <1>2, PTL DEF Spec

\* Every variable keeps its type.
THEOREM TypeCorrect == Spec => []TypeOK
<1>1. IInv => TypeOK
  BY DEF IInv
<1> QED BY <1>1, ContextInvariant, PTL

\* However undeclare, destructors, publishers, close and the library's threads
\* interleave, no callback runs on a context whose release has begun.
THEOREM NoCallAfterDrop == Spec => []CallsOnLiveContext
<1>1. IInv => CallsOnLiveContext
  BY InvImplies
<1> QED BY <1>1, ContextInvariant, PTL

\* on_drop runs exactly once for every context that is freed.
THEOREM OnDropExactlyOnce == Spec => []DropOnce
<1>1. IInv => DropOnce
  BY InvImplies
<1> QED BY <1>1, ContextInvariant, PTL

\* A live context always has somebody who will release it.
THEOREM NoOrphanContext == Spec => []ContextHasReleaser
<1>1. IInv => ContextHasReleaser
  BY InvImplies
<1> QED BY <1>1, ContextInvariant, PTL

\* A declaration that failed has left neither a closure nor, when it threw, a
\* handler behind.
THEOREM FailedDeclarationIsClean == Spec => []FailureIsClean
<1>1. IInv => FailureIsClean
  BY InvImplies
<1> QED BY <1>1, ContextInvariant, PTL

\* The library holds no closure of an entity whose owner, publisher or session
\* has gone.
THEOREM NoRegistrationAfterEnd == Spec => []ClosedMeansUnregistered
<1>1. IInv => ClosedMeansUnregistered
  BY InvImplies
<1> QED BY <1>1, ContextInvariant, PTL

-----------------------------------------------------------------------------
(* The closures of entities keep the promise of module Closures.            *)

\* The promise's view of the calls in progress.
LEMMA CallsView ==
  ASSUME NEW e \in Entity
  PROVE  /\ C!Quiet(e) <=> running[e] = 0
         /\ [k \in {"library"} |-> running[e]]["library"] = running[e]
BY DEF C!Quiet

\* Before any declaration the library has no closure.
LEMMA RefinesInit == Init => C!ClosureInit
BY DEF Init, C!ClosureInit, ClosureLife

\* The types of the promise.
LEMMA RefinesType == TypeOK => C!Typed
BY MaxRunningPositive DEF TypeOK, C!Typed, ClosureLife

\* A step that leaves the life of the closure, its calls and its drops alone is
\* invisible to it.
LEMMA RefinesIdle ==
  ASSUME NEW x \in Entity, ClosureLife(x)' = ClosureLife(x),
         running'[x] = running[x], drops'[x] = drops[x]
  PROVE  C!Step(x)
BY DEF C!Step, C!Idle

\* The library takes the closure of a declaration or refuses it, and then it has
\* no calls.
LEMMA RefinesDecision ==
  ASSUME IInv, NEW e \in Entity, Register(e) \/ Reject(e)
  PROVE  C!Take(e)
<1>1. ctx[e] = "live" /\ ~reg[e] /\ phase[e] = "calling"
  BY DEF IInv, EInv, Life, Register, Reject
<1>2. ClosureLife(e) = "none"
  BY <1>1 DEF ClosureLife
<1>3. ClosureLife(e)' \in {"held", "withdrawn"}
  BY <1>1 DEF Register, Reject, IInv, TypeOK, ClosureLife
<1>4. running'[e] = running[e] /\ drops'[e] = drops[e]
  BY DEF Register, Reject
<1> QED BY <1>2, <1>3, <1>4 DEF C!Take

\* A call begins on a closure the library holds.
LEMMA RefinesCall ==
  ASSUME IInv, NEW e \in Entity, Call(e)
  PROVE  C!Begin(e, "library")
<1>1. ctx[e] = "live" /\ reg[e]
  BY DEF IInv, EInv, Life, Call
<1>2. ClosureLife(e) = "held" /\ ClosureLife(e)' = "held"
  BY <1>1 DEF Call, ClosureLife
<1>3. running'[e] = running[e] + 1 /\ drops'[e] = drops[e]
  BY DEF Call, IInv, TypeOK
<1> QED BY <1>2, <1>3 DEF C!Begin

\* A call returns; to the promise the last call's release is the closure's own.
LEMMA RefinesCallEnd ==
  ASSUME IInv, NEW e \in Entity, CallEnd(e)
  PROVE  C!Return(e, "library")
<1>1. ctx[e] = "live" /\ phase[e] # "calling"
  BY DEF IInv, EInv, Life, CallsOk, CallEnd
<1>2. ClosureLife(e)' = ClosureLife(e)
  BY <1>1 DEF CallEnd, IInv, TypeOK, ClosureLife
<1>3. running'[e] = running[e] - 1 /\ running[e] > 0 /\ drops'[e] = drops[e]
  BY DEF CallEnd, IInv, TypeOK
<1> QED BY <1>2, <1>3 DEF C!Return

\* on_drop runs on a closure that was given up and has no calls.
LEMMA RefinesOnDrop ==
  ASSUME IInv, NEW e \in Entity, OnDrop(e)
  PROVE  C!OnDrop(e)
<1>1. ctx[e] = "dropping" /\ running[e] = 0 /\ ~reg[e] /\ phase[e] # "calling"
  BY MaxRunningPositive DEF IInv, TypeOK, EInv, Life, CallsOk, OnDrop
<1>2. ClosureLife(e) = "withdrawn" /\ ClosureLife(e)' = "dropped"
  BY <1>1 DEF OnDrop, IInv, TypeOK, ClosureLife
<1>3. running'[e] = running[e] /\ drops'[e] = drops[e] + 1
  BY DEF OnDrop, IInv, TypeOK
<1>4. C!Quiet(e)
  BY <1>1, CallsView
<1> QED BY <1>2, <1>3, <1>4 DEF C!OnDrop

\* Undeclare, destructors, publishers and close withdraw the closures the library
\* holds and are invisible to the others.
LEMMA RefinesUnregister ==
  ASSUME IInv, NEW S \in SUBSET Entity, NEW who, Unregister(S, who),
         UNCHANGED <<running, drops>>,
         NEW x \in Entity, phase[x] = "calling" <=> phase'[x] = "calling"
  PROVE  C!Step(x)
<1> DEFINE given == x \in S /\ reg[x]
<1>1. CASE given
  <2>1. ctx[x] = "live" /\ phase[x] # "calling"
    BY <1>1 DEF IInv, EInv, Life
  <2>2. reg'[x] = FALSE /\ ctx'[x] \in {"live", "dropping"}
    BY <1>1, <2>1 DEF Unregister
  <2>3. ClosureLife(x) = "held" /\ ClosureLife(x)' = "withdrawn"
    BY <1>1, <2>1, <2>2 DEF ClosureLife
  <2> QED BY <2>3 DEF C!Step, C!Withdraw
<1>2. CASE ~given
  <2>1. reg'[x] = reg[x] /\ ctx'[x] = ctx[x]
    BY <1>2 DEF Unregister, IInv, TypeOK
  <2>2. ClosureLife(x)' = ClosureLife(x)
    BY <2>1 DEF ClosureLife
  <2> QED BY <2>2, RefinesIdle
<1> QED BY <1>1, <1>2

\* Every other step leaves a closure alone.
LEMMA RefinesSame ==
  ASSUME IInv, NEW x \in Entity, Same(x)
  PROVE  C!Step(x)
<1>1. ClosureLife(x)' = ClosureLife(x)
  BY DEF Same, ClosureLife
<1> QED BY <1>1, RefinesIdle DEF Same

\* Declaring, returning from API calls, freeing a context after its on_drop and
\* letting go of a handler are invisible: a closure is the library's from the
\* decision on, and gone with its on_drop.
LEMMA RefinesApplication ==
  ASSUME IInv, NEW e \in Entity,
         \/ \E s \in Scope, v \in {"object", "background", "channel"}, m \in {"throw", "err"} :
               Declare(e, s, v, m)
         \/ DeclareReturn(e) \/ DeclareFail(e) \/ Delete(e)
         \/ Destroy(e) \/ UndeclareReturn(e) \/ DropHandler(e)
  PROVE  C!Step(e)
<1>1. running'[e] = running[e] /\ drops'[e] = drops[e] /\ reg'[e] = reg[e]
  BY DEF Declare, DeclareReturn, DeclareFail, Delete, Destroy, UndeclareReturn, DropHandler
<1>2. ClosureLife(e)' = ClosureLife(e)
  <2>1. CASE \E s \in Scope, v \in {"object", "background", "channel"},
                m \in {"throw", "err"} : Declare(e, s, v, m)
    BY <2>1 DEF Declare, IInv, TypeOK, EInv, Life, ClosureLife
  <2>2. CASE DeclareReturn(e) \/ DeclareFail(e)
    BY <2>2 DEF DeclareReturn, DeclareFail, IInv, TypeOK, ClosureLife
  <2>3. CASE Delete(e)
    BY <2>3 DEF Delete, IInv, TypeOK, ClosureLife
  <2>4. CASE Destroy(e) \/ UndeclareReturn(e) \/ DropHandler(e)
    BY <2>4 DEF Destroy, UndeclareReturn, DropHandler, IInv, TypeOK, ClosureLife
  <2> QED BY <2>1, <2>2, <2>3, <2>4
<1> QED BY <1>1, <1>2, RefinesIdle

\* The steps of one entity leave the others alone.
LEMMA OthersSame ==
  ASSUME IInv, NEW e \in Entity,
         \/ \E s \in Scope, v \in {"object", "background", "channel"}, m \in {"throw", "err"} :
               Declare(e, s, v, m)
         \/ DeclareReturn(e) \/ DeclareFail(e) \/ Delete(e)
         \/ Destroy(e) \/ UndeclareReturn(e) \/ DropHandler(e)
         \/ Register(e) \/ Reject(e) \/ Call(e) \/ CallEnd(e) \/ OnDrop(e),
         NEW x \in Entity \ {e}
  PROVE  Same(x)
<1> USE DEF IInv, TypeOK, Same
<1>1. CASE \E s \in Scope, v \in {"object", "background", "channel"},
              m \in {"throw", "err"} : Declare(e, s, v, m)
  BY <1>1 DEF Declare
<1>2. CASE DeclareReturn(e) \/ DeclareFail(e) \/ Delete(e)
  BY <1>2 DEF DeclareReturn, DeclareFail, Delete
<1>3. CASE Destroy(e) \/ UndeclareReturn(e) \/ DropHandler(e)
  BY <1>3 DEF Destroy, UndeclareReturn, DropHandler
<1>4. CASE Register(e) \/ Reject(e) \/ Call(e) \/ CallEnd(e) \/ OnDrop(e)
  BY <1>4 DEF Register, Reject, Call, CallEnd, OnDrop
<1> QED BY <1>1, <1>2, <1>3, <1>4

\* A step of one entity is a step of every closure.
LEMMA RefinesOneEntity ==
  ASSUME IInv, NEW e \in Entity,
         \/ \E s \in Scope, v \in {"object", "background", "channel"}, m \in {"throw", "err"} :
               Declare(e, s, v, m)
         \/ DeclareReturn(e) \/ DeclareFail(e) \/ Delete(e)
         \/ Destroy(e) \/ UndeclareReturn(e) \/ DropHandler(e)
         \/ Register(e) \/ Reject(e) \/ Call(e) \/ CallEnd(e) \/ OnDrop(e),
         NEW x \in Entity
  PROVE  C!Step(x)
<1>1. CASE x = e
  <2>1. CASE Register(e) \/ Reject(e)
    BY <1>1, <2>1, RefinesDecision DEF C!Step
  <2>2. CASE Call(e)
    BY <1>1, <2>2, RefinesCall DEF C!Step
  <2>3. CASE CallEnd(e)
    BY <1>1, <2>3, RefinesCallEnd DEF C!Step
  <2>4. CASE OnDrop(e)
    BY <1>1, <2>4, RefinesOnDrop DEF C!Step
  <2> QED BY <1>1, <2>1, <2>2, <2>3, <2>4, RefinesApplication
<1>2. CASE x # e
  BY <1>2, OthersSame, RefinesSame
<1> QED BY <1>1, <1>2

\* Every way of ending entities withdraws closures and nothing else.
LEMMA RefinesEnding ==
  ASSUME IInv, NEW x \in Entity,
         \/ \E e \in Entity : Undeclare(e) \/ DestroyBase(e)
         \/ \E s \in Scope : CloseScope(s)
         \/ CloseSession
  PROVE  C!Step(x)
<1>1. ASSUME NEW e \in Entity, Undeclare(e) \/ DestroyBase(e) PROVE C!Step(x)
  <2>1. phase[x] = "calling" <=> phase'[x] = "calling"
    BY <1>1 DEF Undeclare, DestroyBase, IInv, TypeOK
  <2>2. Unregister({e}, "owner") /\ UNCHANGED <<running, drops>>
    BY <1>1 DEF Undeclare, DestroyBase
  <2> QED BY <2>1, <2>2, RefinesUnregister
<1>2. ASSUME NEW s \in Scope, CloseScope(s) PROVE C!Step(x)
  <2> DEFINE S == {e \in Entity : scope[e] = s}
  <2>1. Unregister(S, "scope") /\ UNCHANGED <<phase, running, drops>>
    BY <1>2 DEF CloseScope
  <2> QED BY <2>1, RefinesUnregister
<1>3. CASE CloseSession
  BY <1>3, RefinesUnregister DEF CloseSession
<1> QED BY <1>1, <1>2, <1>3

\* Every step is a step of the promise.
LEMMA RefinesNext == IInv /\ IInv' /\ [Next]_vars => [C!ClosureNext]_(C!closureVars)
<1> SUFFICES ASSUME IInv, IInv', [Next]_vars PROVE C!ClosureNext
  OBVIOUS
<1>1. C!Typed'
  <2>1. TypeOK'
    BY DEF IInv
  <2>2. (TypeOK => C!Typed)'
    BY RefinesType, PTL
  <2> QED BY <2>1, <2>2
<1>2. ASSUME NEW x \in Entity PROVE C!Step(x)
  <2>1. ASSUME NEW e \in Entity, NEW m \in {"throw", "err"},
               DeclareOnSession(e, m) \/ \E s \in Scope \ {Session} : DeclareOnScope(e, s, m)
        PROVE  C!Step(x)
    BY <2>1, EveryDeclare, RefinesOneEntity
  <2>2. ASSUME NEW e \in Entity, Call(e) \/ Progress(e) PROVE C!Step(x)
    BY <2>2, RefinesOneEntity, RefinesEnding DEF Progress
  <2>3. ASSUME NEW e \in Entity, Undeclare(e) \/ Destroy(e) \/ DropHandler(e) PROVE C!Step(x)
    BY <2>3, RefinesOneEntity, RefinesEnding
  <2>4. ASSUME NEW s \in Scope, OpenScope(s) \/ CloseReturn(s) PROVE C!Step(x)
    BY <2>4, RefinesSame DEF OpenScope, CloseReturn, Same
  <2>5. CASE UNCHANGED vars
    BY <2>5, RefinesSame DEF vars, Same
  <2> QED BY <2>1, <2>2, <2>3, <2>4, <2>5, RefinesEnding DEF Next
<1> QED BY <1>1, <1>2 DEF C!ClosureNext

\* The closures of entities keep the library's promise, however undeclare,
\* destructors, publishers, close and the library's threads interleave: called only
\* while held, released once, behind the last call.
THEOREM EntitiesKeepClosures == Spec => ImplementsClosures
<1>1. Init => C!ClosureInit
  BY RefinesInit
<1>2. IInv /\ IInv' /\ [Next]_vars => [C!ClosureNext]_(C!closureVars)
  BY RefinesNext
<1> QED BY <1>1, <1>2, ContextInvariant, PTL DEF Spec, ImplementsClosures, C!ClosureSpec

=============================================================================

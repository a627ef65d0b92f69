------------------------------ MODULE Entities ------------------------------
(***************************************************************************)
(* The life of the entities that carry a callback: subscribers, queryables,*)
(* listeners (api/session.hxx, api/publisher.hxx, api/ext/session_ext.hxx) *)
(* and of the heap context their closures live in (detail/closures.hxx).   *)
(*                                                                         *)
(* A declare_* function moves the user's on_call and on_drop into a heap   *)
(* context (Closure::into_context), wraps it in a C closure and hands that *)
(* closure to the C library.  From then on the library alone decides when  *)
(* the callback runs, from its own threads, and it releases the context    *)
(* with _zenoh_on_drop once the closure is unregistered and no call is in  *)
(* progress.  The entity ends by undeclare(), by its destructor, with the  *)
(* publisher or querier it belongs to, or with the session; background     *)
(* entities have no wrapper and end only with what they belong to.         *)
(*                                                                         *)
(* A scope is what an entity is declared on: the session, or a publisher   *)
(* (querier, advanced subscriber), which the session closes in turn.       *)
(***************************************************************************)
EXTENDS Naturals

CONSTANTS Entity,
          Scope, Session,   \* Session \in Scope
          MaxRunning        \* bound on the concurrent calls of one closure

ASSUME SessionIsScope == Session \in Scope
ASSUME MaxRunningPositive == MaxRunning \in Nat \ {0}

VARIABLES
    open,      \* scope: "idle", "open", "closing" or "closed"
    scope,     \* entity: the scope it was declared on
    variant,   \* "none", "object" (returned wrapper), "background" or "channel"
    mode,      \* "throw" when the err pointer is null, else "err"
    phase,     \* where the application's API calls on the entity are
    reg,       \* does the library hold the closure?
    running,   \* calls of the closure in progress
    ctx,       \* the closure's heap context
    dropper,   \* which thread releases the context
    drops,     \* how often on_drop was called
    handler    \* channel variant: the FifoHandler or RingHandler

vars == <<open, scope, variant, mode, phase, reg, running, ctx, dropper, drops, handler>>

TypeOK ==
    /\ open \in [Scope -> {"idle", "open", "closing", "closed"}]
    /\ scope \in [Entity -> Scope]
    /\ variant \in [Entity -> {"none", "object", "background", "channel"}]
    /\ mode \in [Entity -> {"throw", "err"}]
    /\ phase \in [Entity -> {"idle", "calling", "registered", "rejected", "declared",
                             "background", "threw", "errored", "destroying",
                             "undeclaring", "done"}]
    /\ reg \in [Entity -> BOOLEAN]
    /\ running \in [Entity -> 0..MaxRunning]
    /\ ctx \in [Entity -> {"none", "live", "dropping", "deleting", "deleted"}]
    /\ dropper \in [Entity -> {"none", "owner", "scope", "callback"}]
    /\ drops \in [Entity -> Nat]
    /\ handler \in [Entity -> {"none", "held", "dropped"}]

Init ==
    /\ open = [s \in Scope |-> IF s = Session THEN "open" ELSE "idle"]
    /\ scope = [e \in Entity |-> Session]
    /\ variant = [e \in Entity |-> "none"]
    /\ mode = [e \in Entity |-> "throw"]
    /\ phase = [e \in Entity |-> "idle"]
    /\ reg = [e \in Entity |-> FALSE]
    /\ running = [e \in Entity |-> 0]
    /\ ctx = [e \in Entity |-> "none"]
    /\ dropper = [e \in Entity |-> "none"]
    /\ drops = [e \in Entity |-> 0]
    /\ handler = [e \in Entity |-> "none"]

-----------------------------------------------------------------------------
(* Closure contexts.                                                        *)

\* Mutant: the context is released while calls are in progress.
Unregister_IgnoreRunning(S, who) ==
    LET now == {e \in S : reg[e]}
    IN  /\ reg' = [e \in Entity |-> reg[e] /\ e \notin S]
        /\ ctx' = [e \in Entity |-> IF e \in now THEN "dropping" ELSE ctx[e]]
        /\ dropper' = [e \in Entity |-> IF e \in now THEN who ELSE dropper[e]]

\* The library gives up the closures of the entities in S.  A context with no
\* call in progress is released by the thread doing so, on behalf of who; the
\* others are released by the last call to return.
Unregister(S, who) ==
    LET now == {e \in S : reg[e] /\ running[e] = 0}
    IN  /\ reg' = [e \in Entity |-> reg[e] /\ e \notin S]
        /\ ctx' = [e \in Entity |-> IF e \in now THEN "dropping" ELSE ctx[e]]
        /\ dropper' = [e \in Entity |-> IF e \in now THEN who ELSE dropper[e]]

\* The library calls the closure: IClosure::call_from_context runs the user's
\* callback on one of the library's threads.
Call(e) ==
    /\ reg[e] /\ running[e] < MaxRunning
    /\ running' = [running EXCEPT ![e] = @ + 1]
    /\ UNCHANGED <<open, scope, variant, mode, phase, reg, ctx, dropper, drops, handler>>

\* The user's callback returns.  The last call of an unregistered closure
\* releases the context from the callback's thread.
CallEnd(e) ==
    /\ running[e] > 0
    /\ running' = [running EXCEPT ![e] = @ - 1]
    /\ IF ~reg[e] /\ running[e] = 1
       THEN /\ ctx' = [ctx EXCEPT ![e] = "dropping"]
            /\ dropper' = [dropper EXCEPT ![e] = "callback"]
       ELSE UNCHANGED <<ctx, dropper>>
    /\ UNCHANGED <<open, scope, variant, mode, phase, reg, drops, handler>>

\* Mutant: the second run of delete_from_context, as if OnDrop did not advance.
OnDrop_Again(e) ==
    /\ ctx[e] \in {"dropping", "deleting"} /\ drops[e] < 2
    /\ drops' = [drops EXCEPT ![e] = @ + 1]
    /\ ctx' = [ctx EXCEPT ![e] = "deleting"]
    /\ UNCHANGED <<open, scope, variant, mode, phase, reg, running, dropper, handler>>

\* Mutant: the last call to return does not release the context.
OnDrop_NotByCallback(e) ==
    /\ ctx[e] = "dropping" /\ dropper[e] # "callback"
    /\ drops' = [drops EXCEPT ![e] = @ + 1]
    /\ ctx' = [ctx EXCEPT ![e] = "deleting"]
    /\ UNCHANGED <<open, scope, variant, mode, phase, reg, running, dropper, handler>>

\* delete_from_context, first statement: the user's on_drop runs and returns.
OnDrop(e) ==
    /\ ctx[e] = "dropping"
    /\ drops' = [drops EXCEPT ![e] = @ + 1]
    /\ ctx' = [ctx EXCEPT ![e] = "deleting"]
    /\ UNCHANGED <<open, scope, variant, mode, phase, reg, running, dropper, handler>>

\* delete_from_context, second statement: the context is freed.
Delete(e) ==
    /\ ctx[e] = "deleting"
    /\ ctx' = [ctx EXCEPT ![e] = "deleted"]
    /\ UNCHANGED <<open, scope, variant, mode, phase, reg, running, dropper, drops, handler>>

-----------------------------------------------------------------------------
(* Declaring.                                                               *)

\* The common body of the declare_* functions up to the C call: build the
\* context and the C closure (or the callback-handler pair of a channel) and
\* convert the options.
Declare(e, s, v, m) ==
    /\ phase[e] = "idle" /\ open[s] # "idle"
    /\ phase' = [phase EXCEPT ![e] = "calling"]
    /\ scope' = [scope EXCEPT ![e] = s]
    /\ variant' = [variant EXCEPT ![e] = v]
    /\ mode' = [mode EXCEPT ![e] = m]
    /\ ctx' = [ctx EXCEPT ![e] = "live"]
    /\ handler' = [handler EXCEPT ![e] = IF v = "channel" THEN "held" ELSE "none"]
    /\ UNCHANGED <<open, reg, running, dropper, drops>>

\* The C function registers the closure; messages may arrive from here on,
\* before the declare function has returned.  The err pointer plays no part any
\* more.
Register(e) ==
    /\ phase[e] = "calling"
    /\ open[Session] = "open" /\ open[scope[e]] = "open"
    /\ phase' = [phase EXCEPT ![e] = "registered"]
    /\ mode' = [mode EXCEPT ![e] = "throw"]
    /\ reg' = [reg EXCEPT ![e] = TRUE]
    /\ UNCHANGED <<open, scope, variant, running, ctx, dropper, drops, handler>>

\* Mutant: the closure is passed without z_move and survives the failure.
Reject_KeepClosure(e) ==
    /\ phase[e] = "calling"
    /\ phase' = [phase EXCEPT ![e] = "rejected"]
    /\ UNCHANGED <<open, scope, variant, mode, reg, running, ctx, dropper, drops, handler>>

\* The C function fails.  It has been given the closure by z_move and releases
\* it before it returns.
Reject(e) ==
    /\ phase[e] = "calling"
    /\ phase' = [phase EXCEPT ![e] = "rejected"]
    /\ ctx' = [ctx EXCEPT ![e] = "dropping"]
    /\ dropper' = [dropper EXCEPT ![e] = "owner"]
    /\ UNCHANGED <<open, scope, variant, mode, reg, running, drops, handler>>

\* The declare function returns the wrapper (or nothing, in the background).
DeclareReturn(e) ==
    /\ phase[e] = "registered"
    /\ phase' = [phase EXCEPT ![e] = IF variant[e] = "background" THEN "background" ELSE "declared"]
    /\ UNCHANGED <<open, scope, variant, mode, reg, running, ctx, dropper, drops, handler>>

\* Mutant: the exception is thrown before the handler is dropped.
DeclareFail_KeepHandler(e) ==
    /\ phase[e] = "rejected" /\ ctx[e] = "deleted"
    /\ phase' = [phase EXCEPT ![e] = IF mode[e] = "throw" THEN "threw" ELSE "errored"]
    /\ UNCHANGED <<open, scope, variant, mode, reg, running, ctx, dropper, drops, handler>>

\* The declare function fails: __ZENOH_RESULT_CHECK throws, or stores the
\* result and the function returns a gravestone.  A channel's handler is
\* dropped before the throw, and returned with the gravestone otherwise.
DeclareFail(e) ==
    /\ phase[e] = "rejected" /\ ctx[e] = "deleted"
    /\ phase' = [phase EXCEPT ![e] = IF mode[e] = "throw" THEN "threw" ELSE "errored"]
    /\ handler' = [handler EXCEPT ![e] =
                     IF variant[e] = "channel" /\ mode[e] = "throw" THEN "dropped" ELSE @]
    /\ UNCHANGED <<open, scope, variant, mode, reg, running, ctx, dropper, drops>>

-----------------------------------------------------------------------------
(* Ending.                                                                  *)

\* undeclare() &&: the wrapper becomes a gravestone and the library gives the
\* closure up.  The handler of a channel entity stays with the caller.
Undeclare(e) ==
    /\ phase[e] = "declared"
    /\ phase' = [phase EXCEPT ![e] = "undeclaring"]
    /\ Unregister({e}, "owner")
    /\ UNCHANGED <<open, scope, variant, mode, running, drops, handler>>

\* The destructor of a wrapper.  The handler is a member and Owned the base
\* class, so a channel entity loses its handler first and is undeclared after.
Destroy(e) ==
    /\ phase[e] = "declared"
    /\ phase' = [phase EXCEPT ![e] = "destroying"]
    /\ handler' = [handler EXCEPT ![e] = IF @ = "held" THEN "dropped" ELSE @]
    /\ UNCHANGED <<open, scope, variant, mode, reg, running, ctx, dropper, drops>>

\* Mutant: ~Owned does not drop its struct.
DestroyBase_NoDrop(e) ==
    /\ phase[e] = "destroying"
    /\ phase' = [phase EXCEPT ![e] = "undeclaring"]
    /\ UNCHANGED <<open, scope, variant, mode, reg, running, ctx, dropper, drops, handler>>

DestroyBase(e) ==
    /\ phase[e] = "destroying"
    /\ phase' = [phase EXCEPT ![e] = "undeclaring"]
    /\ Unregister({e}, "owner")
    /\ UNCHANGED <<open, scope, variant, mode, running, drops, handler>>

\* undeclare or the destructor returns, after the releases it had to do itself.
\* An undeclare that fails may throw before it returns the handler, which then
\* goes with the wrapper.
UndeclareReturn(e) ==
    /\ phase[e] = "undeclaring"
    /\ dropper[e] = "owner" => ctx[e] = "deleted"
    /\ phase' = [phase EXCEPT ![e] = "done"]
    /\ handler' \in {handler, [handler EXCEPT ![e] = IF @ = "held" THEN "dropped" ELSE @]}
    /\ UNCHANGED <<open, scope, variant, mode, reg, running, ctx, dropper, drops>>

\* The application lets go of a handler it got back from undeclare or from a
\* failed declaration: ~Owned.
DropHandler(e) ==
    /\ phase[e] \in {"done", "errored"} /\ handler[e] = "held"
    /\ handler' = [handler EXCEPT ![e] = "dropped"]
    /\ UNCHANGED <<open, scope, variant, mode, phase, reg, running, ctx, dropper, drops>>

-----------------------------------------------------------------------------
(* Scopes.                                                                  *)

\* declare_publisher, declare_querier, ...
OpenScope(s) ==
    /\ open[s] = "idle" /\ open[Session] = "open"
    /\ open' = [open EXCEPT ![s] = "open"]
    /\ UNCHANGED <<scope, variant, mode, phase, reg, running, ctx, dropper, drops, handler>>

\* Undeclaring or destroying a publisher ends the listeners declared on it.
CloseScope(s) ==
    /\ s # Session /\ open[s] = "open"
    /\ open' = [open EXCEPT ![s] = "closing"]
    /\ Unregister({e \in Entity : scope[e] = s}, "scope")
    /\ UNCHANGED <<scope, variant, mode, phase, running, drops, handler>>

\* Session::close (or the session's destructor): every callback is undeclared.
CloseSession ==
    /\ open[Session] = "open"
    /\ open' = [open EXCEPT ![Session] = "closing"]
    /\ Unregister(Entity, "scope")
    /\ UNCHANGED <<scope, variant, mode, phase, running, drops, handler>>

CloseReturn(s) ==
    /\ open[s] = "closing"
    /\ \A e \in Entity : dropper[e] = "scope" => ctx[e] = "deleted"
    /\ open' = [open EXCEPT ![s] = "closed"]
    /\ UNCHANGED <<scope, variant, mode, phase, reg, running, ctx, dropper, drops, handler>>

-----------------------------------------------------------------------------
(* The API's declare functions; m says whether an err pointer was given.    *)

declare_subscriber(e, m)                    == Declare(e, Session, "object", m)
declare_background_subscriber(e, m)         == Declare(e, Session, "background", m)
declare_subscriber_channel(e, m)            == Declare(e, Session, "channel", m)
declare_queryable(e, m)                     == Declare(e, Session, "object", m)
declare_background_queryable(e, m)          == Declare(e, Session, "background", m)
declare_queryable_channel(e, m)             == Declare(e, Session, "channel", m)
liveliness_declare_subscriber(e, m)         == Declare(e, Session, "object", m)
liveliness_declare_background_subscriber(e, m) == Declare(e, Session, "background", m)
liveliness_declare_subscriber_channel(e, m) == Declare(e, Session, "channel", m)
declare_transport_events_listener(e, m)     == Declare(e, Session, "object", m)
declare_background_transport_events_listener(e, m) == Declare(e, Session, "background", m)
declare_transport_events_listener_channel(e, m) == Declare(e, Session, "channel", m)
declare_link_events_listener(e, m)          == Declare(e, Session, "object", m)
declare_background_link_events_listener(e, m) == Declare(e, Session, "background", m)
declare_link_events_listener_channel(e, m)  == Declare(e, Session, "channel", m)
declare_querying_subscriber(e, m)           == Declare(e, Session, "object", m)
declare_background_querying_subscriber(e, m) == Declare(e, Session, "background", m)
declare_querying_subscriber_channel(e, m)   == Declare(e, Session, "channel", m)
declare_advanced_subscriber(e, m)           == Declare(e, Session, "object", m)
declare_background_advanced_subscriber(e, m) == Declare(e, Session, "background", m)
declare_advanced_subscriber_channel(e, m)   == Declare(e, Session, "channel", m)
detect_publishers(e, m)                     == Declare(e, Session, "object", m)
detect_publishers_background(e, m)          == Declare(e, Session, "background", m)

\* Listeners belong to a publisher, a querier or an advanced subscriber.
declare_publisher_matching_listener(e, s, m)            == Declare(e, s, "object", m)
declare_background_publisher_matching_listener(e, s, m) == Declare(e, s, "background", m)
declare_querier_matching_listener(e, s, m)              == Declare(e, s, "object", m)
declare_background_querier_matching_listener(e, s, m)   == Declare(e, s, "background", m)
declare_advanced_matching_listener(e, s, m)             == Declare(e, s, "object", m)
declare_background_advanced_matching_listener(e, s, m)  == Declare(e, s, "background", m)
declare_sample_miss_listener(e, s, m)                   == Declare(e, s, "object", m)
declare_background_sample_miss_listener(e, s, m)        == Declare(e, s, "background", m)

DeclareOnSession(e, m) ==
    \/ declare_subscriber(e, m)
    \/ declare_background_subscriber(e, m)
    \/ declare_subscriber_channel(e, m)
    \/ declare_queryable(e, m)
    \/ declare_background_queryable(e, m)
    \/ declare_queryable_channel(e, m)
    \/ liveliness_declare_subscriber(e, m)
    \/ liveliness_declare_background_subscriber(e, m)
    \/ liveliness_declare_subscriber_channel(e, m)
    \/ declare_transport_events_listener(e, m)
    \/ declare_background_transport_events_listener(e, m)
    \/ declare_transport_events_listener_channel(e, m)
    \/ declare_link_events_listener(e, m)
    \/ declare_background_link_events_listener(e, m)
    \/ declare_link_events_listener_channel(e, m)
    \/ declare_querying_subscriber(e, m)
    \/ declare_background_querying_subscriber(e, m)
    \/ declare_querying_subscriber_channel(e, m)
    \/ declare_advanced_subscriber(e, m)
    \/ declare_background_advanced_subscriber(e, m)
    \/ declare_advanced_subscriber_channel(e, m)
    \/ detect_publishers(e, m)
    \/ detect_publishers_background(e, m)

DeclareOnScope(e, s, m) ==
    \/ declare_publisher_matching_listener(e, s, m)
    \/ declare_background_publisher_matching_listener(e, s, m)
    \/ declare_querier_matching_listener(e, s, m)
    \/ declare_background_querier_matching_listener(e, s, m)
    \/ declare_advanced_matching_listener(e, s, m)
    \/ declare_background_advanced_matching_listener(e, s, m)
    \/ declare_sample_miss_listener(e, s, m)
    \/ declare_background_sample_miss_listener(e, s, m)

\* What the library and the threads it already occupies will do by themselves:
\* decide a declaration, return from calls, release contexts, return to the
\* application.
Progress(e) ==
    \/ Register(e) \/ Reject(e)
    \/ CallEnd(e) \/ OnDrop(e) \/ Delete(e)
    \/ DeclareReturn(e) \/ DeclareFail(e)
    \/ DestroyBase(e) \/ UndeclareReturn(e)

Next ==
    \/ \E e \in Entity, m \in {"throw", "err"} :
          \/ DeclareOnSession(e, m)
          \/ \E s \in Scope \ {Session} : DeclareOnScope(e, s, m)
    \/ \E e \in Entity : Call(e) \/ Progress(e)
    \/ \E e \in Entity : Undeclare(e) \/ Destroy(e) \/ DropHandler(e)
    \/ \E s \in Scope : OpenScope(s) \/ CloseScope(s) \/ CloseReturn(s)
    \/ CloseSession

Spec == Init /\ [][Next]_vars

\* The C functions return, user callbacks terminate, and a thread that has
\* started an API call goes on with it.  Nothing obliges the application to
\* declare, undeclare or close, nor the library to call.
Fairness ==
    /\ \A e \in Entity :
          /\ WF_vars(Register(e) \/ Reject(e))
          /\ WF_vars(CallEnd(e))
          /\ WF_vars(OnDrop(e) \/ Delete(e))
          /\ WF_vars(DeclareReturn(e) \/ DeclareFail(e))
          /\ WF_vars(DestroyBase(e) \/ UndeclareReturn(e))
    /\ \A s \in Scope : WF_vars(CloseReturn(s))

FairSpec == Spec /\ Fairness

-----------------------------------------------------------------------------
(* The promise of module Closures.                                          *)

\* Where the closure of entity e is in its life: the library holds it while it is
\* registered, and has given it up once its declaration was decided otherwise.
ClosureLife(e) ==
    IF ctx[e] \in {"deleting", "deleted"} THEN "dropped"
    ELSE IF reg[e] THEN "held"
    ELSE IF ctx[e] = "none" \/ phase[e] = "calling" THEN "none" ELSE "withdrawn"

C == INSTANCE Closures WITH
        Closure <- Entity,
        Caller <- {"library"},
        life <- [e \in Entity |-> ClosureLife(e)],
        calls <- [e \in Entity |-> [k \in {"library"} |-> running[e]]]

\* The closure of every entity is called only while the library holds it and gets
\* one on_drop, after the last call, although contexts are released in two
\* statements and by whichever thread comes last (delete_from_context).
ImplementsClosures == C!ClosureSpec

-----------------------------------------------------------------------------
(* Properties.                                                              *)

\* The callback never runs on a context whose on_drop has started or that was
\* freed, whichever of undeclare, destructor, close, publisher and callback
\* threads ends the entity.
CallsOnLiveContext == \A e \in Entity : running[e] > 0 => ctx[e] = "live"

\* on_drop is called exactly once by the time the context is freed, and not at
\* all before: "Will be called once" (session.hxx, on_drop of declare_*).
DropOnce ==
    \A e \in Entity : drops[e] = IF ctx[e] \in {"deleting", "deleted"} THEN 1 ELSE 0

\* A live context has somebody who will release it: a declare call still
\* deciding, the library's registration, or a call in progress.  Nothing an
\* application does orphans a closure.
ContextHasReleaser ==
    \A e \in Entity :
        ctx[e] = "live" => phase[e] = "calling" \/ reg[e] \/ running[e] > 0

\* A failed declaration leaves nothing behind: the closure was released before
\* the application learns of the failure, no callback can come any more, and a
\* thrown exception does not leave the channel's handler behind.
FailureIsClean ==
    \A e \in Entity :
        phase[e] \in {"threw", "errored"} =>
            /\ ctx[e] = "deleted" /\ drops[e] = 1 /\ ~reg[e] /\ running[e] = 0
            /\ phase[e] = "threw" => handler[e] # "held"

\* Once an entity's owner, its publisher or its session has gone, the library
\* no longer holds its closure, in whatever order they went.
ClosedMeansUnregistered ==
    \A e \in Entity :
        reg[e] => /\ open[scope[e]] = "open" /\ open[Session] = "open"
                  /\ phase[e] \in {"registered", "declared", "background", "destroying"}

\* The end of an entity leads to its on_drop and to the release of its context,
\* whether it comes from a failed declaration, from undeclare or the
\* destructor, or with its publisher or its session, background entities and
\* the publisher's listeners included.
OnDropHappens ==
    \A e \in Entity :
        (\/ phase[e] \in {"rejected", "undeclaring"}
         \/ open[scope[e]] = "closing"
         \/ open[Session] = "closing") ~> ctx[e] \in {"none", "deleted"}

\* docs/error_handling.rst: with an err pointer, the objects a failing method
\* returns "will be reset to gravestone state".  A channel entity is returned
\* with the live handler of the released closure.
FailedHandlerIsGravestone ==
    \A e \in Entity : phase[e] \in {"threw", "errored"} => handler[e] # "held"

=============================================================================

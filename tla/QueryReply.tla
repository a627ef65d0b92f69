----------------------------- MODULE QueryReply -----------------------------
(***************************************************************************)
(* Queries: the get functions of Session and Querier, the Query objects a  *)
(* queryable answers with, and the cancellation tokens shared by queries   *)
(* (api/session.hxx, api/querier.hxx, api/query.hxx, api/cancellation.hxx).*)
(*                                                                         *)
(* A get hands its reply closure to the library and returns.  Replies come *)
(* from every matching queryable, each followed by a final message that    *)
(* the library sends when the last clone of the queryable's Query is gone. *)
(* The closure is released after the last final message, at the timeout,   *)
(* or when the token is cancelled, and not under a running callback.       *)
(* Messages of one queryable arrive in order; replies are not consolidated *)
(* (Z_CONSOLIDATION_MODE_NONE).                                            *)
(***************************************************************************)
EXTENDS Naturals

CONSTANTS Query,        \* calls of get
          Queryable,    \* who answers: a queryable, or a liveliness token
          Matches,      \* query: the queryables that match its key expression
          Token, None,  \* cancellation tokens; None: the query has none
          MaxRefs,      \* bound on the clones of one Query
          MaxReplies    \* bound on the replies of a queryable to a query

ASSUME NoneIsNoToken == None \notin Token
ASSUME MatchesType == Matches \in [Query -> SUBSET Queryable]
ASSUME BoundsPositive == MaxRefs \in Nat \ {0} /\ MaxReplies \in Nat \ {0}

VARIABLES
    phase,      \* query: "idle", "open", "ended" or "failed"
    reason,     \* why an ended query has ended: "final", or "stopped" by its
                \*   timeout or its token
    token,      \* the token in its options
    waiting,    \* queryables whose final message has not arrived
    closure,    \* its closure: "none", "live" or "dropped" (on_drop has run)
    asked,      \* queryables the request is on its way to
    cancel,     \* token: "fresh", "cancelling" or "cancelled"
    refs,       \* query, queryable: Query objects
    sent,       \* query, queryable: replies sent,
    inflight,   \*   those of them that are on their way,
    running,    \*   those whose callback runs
    delivered,  \*   and those whose callback has returned
    final       \* query, queryable: final message "unsent", "sent" or "arrived"

vars == <<phase, reason, token, waiting, closure, asked, cancel,
          refs, sent, inflight, running, delivered, final>>
getter == <<phase, reason, token, waiting, closure>>
calls == <<running, delivered>>
replier == <<asked, refs, sent, inflight, final>>

\* A value of V for each query and queryable.
Links(V) == [Query -> [Queryable -> V]]

TypeOK ==
    /\ phase \in [Query -> {"idle", "open", "ended", "failed"}]
    /\ reason \in [Query -> {"none", "final", "stopped"}]
    /\ token \in [Query -> Token \cup {None}]
    /\ waiting \in [Query -> SUBSET Queryable]
    /\ closure \in [Query -> {"none", "live", "dropped"}]
    /\ asked \in [Query -> SUBSET Queryable]
    /\ cancel \in [Token -> {"fresh", "cancelling", "cancelled"}]
    /\ refs \in Links(0..MaxRefs)
    /\ sent \in Links(0..MaxReplies)
    /\ inflight \in Links(0..MaxReplies)
    /\ running \in Links(0..MaxReplies)
    /\ delivered \in Links(0..MaxReplies)
    /\ final \in Links({"unsent", "sent", "arrived"})

Init ==
    /\ phase = [q \in Query |-> "idle"]
    /\ reason = [q \in Query |-> "none"]
    /\ token = [q \in Query |-> None]
    /\ waiting = [q \in Query |-> {}]
    /\ closure = [q \in Query |-> "none"]
    /\ asked = [q \in Query |-> {}]
    /\ cancel = [t \in Token |-> "fresh"]
    /\ refs = [q \in Query |-> [k \in Queryable |-> 0]]
    /\ sent = [q \in Query |-> [k \in Queryable |-> 0]]
    /\ inflight = [q \in Query |-> [k \in Queryable |-> 0]]
    /\ running = [q \in Query |-> [k \in Queryable |-> 0]]
    /\ delivered = [q \in Query |-> [k \in Queryable |-> 0]]
    /\ final = [q \in Query |-> [k \in Queryable |-> "unsent"]]

Idle(q) == \A k \in Queryable : running[q][k] = 0

-----------------------------------------------------------------------------
(* The querying side.                                                       *)

\* The C function accepts the query to the matching queryables S and keeps the
\* closure; without any queryable the query is over at once.
Register(q, t, S) ==
    /\ phase[q] = "idle" /\ (t \in Token => cancel[t] = "fresh")
    /\ phase' = [phase EXCEPT ![q] = IF S = {} THEN "ended" ELSE "open"]
    /\ reason' = [reason EXCEPT ![q] = IF S = {} THEN "final" ELSE "none"]
    /\ token' = [token EXCEPT ![q] = t]
    /\ waiting' = [waiting EXCEPT ![q] = S]
    /\ closure' = [closure EXCEPT ![q] = "live"]
    /\ UNCHANGED <<cancel, calls>>

\* A query asks its queryables, whose callbacks answer it ...
Ask(q, S) ==
    /\ asked' = [asked EXCEPT ![q] = S]
    /\ UNCHANGED <<refs, sent, inflight, final>>

\* ... a liveliness query is answered by the network: one reply for each token.
Tokens(q, S) ==
    /\ sent' = [sent EXCEPT ![q] = [k \in Queryable |-> IF k \in S THEN 1 ELSE @[k]]]
    /\ inflight' = [inflight EXCEPT ![q] = [k \in Queryable |-> IF k \in S THEN 1 ELSE @[k]]]
    /\ final' = [final EXCEPT ![q] = [k \in Queryable |-> IF k \in S THEN "sent" ELSE @[k]]]
    /\ UNCHANGED <<asked, refs>>

\* The C function fails, because the token is cancelled or for another reason,
\* and has released the closure.
Fail(q, t) ==
    /\ phase[q] = "idle"
    /\ phase' = [phase EXCEPT ![q] = "failed"]
    /\ token' = [token EXCEPT ![q] = t]
    /\ closure' = [closure EXCEPT ![q] = "dropped"]
    /\ UNCHANGED <<reason, waiting, cancel, calls, replier>>

\* Session::get and Querier::get, with callbacks or with a channel, the handler
\* of which is in module Channels.
session_get(q, t, S)         == (Register(q, t, S) /\ Ask(q, S)) \/ Fail(q, t)
session_get_channel(q, t, S) == (Register(q, t, S) /\ Ask(q, S)) \/ Fail(q, t)
querier_get(q, t, S)         == (Register(q, t, S) /\ Ask(q, S)) \/ Fail(q, t)
querier_get_channel(q, t, S) == (Register(q, t, S) /\ Ask(q, S)) \/ Fail(q, t)

\* Session::liveliness_get.
liveliness_get(q, t, S)         == (Register(q, t, S) /\ Tokens(q, S)) \/ Fail(q, t)
liveliness_get_channel(q, t, S) == (Register(q, t, S) /\ Tokens(q, S)) \/ Fail(q, t)

\* The reply callback returns.
CallEnd(q, k) ==
    /\ running[q][k] > 0
    /\ running' = [running EXCEPT ![q][k] = @ - 1]
    /\ delivered' = [delivered EXCEPT ![q][k] = @ + 1]
    /\ UNCHANGED <<getter, replier, cancel>>

\* Mutant: on_drop runs as soon as the query has ended.
DropClosure_Early(q) ==
    /\ phase[q] = "ended" /\ closure[q] = "live"
    /\ closure' = [closure EXCEPT ![q] = "dropped"]
    /\ UNCHANGED <<phase, reason, token, waiting, calls, replier, cancel>>

\* Mutant: the closure is released when all replies have come, and only then.
DropClosure_FinalOnly(q) ==
    /\ phase[q] = "ended" /\ closure[q] = "live" /\ Idle(q) /\ reason[q] = "final"
    /\ closure' = [closure EXCEPT ![q] = "dropped"]
    /\ UNCHANGED <<phase, reason, token, waiting, calls, replier, cancel>>

\* The closure of an ended query is released when no callback runs: on_drop.
DropClosure(q) ==
    /\ phase[q] = "ended" /\ closure[q] = "live" /\ Idle(q)
    /\ closure' = [closure EXCEPT ![q] = "dropped"]
    /\ UNCHANGED <<phase, reason, token, waiting, calls, replier, cancel>>

\* The queries in Q end without waiting for anybody any more.
End(Q, why) ==
    /\ phase' = [q \in Query |-> IF q \in Q THEN "ended" ELSE phase[q]]
    /\ reason' = [q \in Query |-> IF q \in Q THEN why ELSE reason[q]]

\* Mutant: only a query that somebody still works on times out.
Timeout_Answered(q) ==
    /\ phase[q] = "open" /\ asked[q] = {}
    /\ End({q}, "stopped")
    /\ UNCHANGED <<token, waiting, closure, calls, replier, cancel>>

\* The timeout of the query's options, or the default one, has passed.
Timeout(q) ==
    /\ phase[q] = "open"
    /\ End({q}, "stopped")
    /\ UNCHANGED <<token, waiting, closure, calls, replier, cancel>>

\* CancellationToken::cancel ends every query that was given the token or a
\* copy of it ...
Cancel(t) ==
    /\ cancel[t] = "fresh"
    /\ cancel' = [cancel EXCEPT ![t] = "cancelling"]
    /\ End({q \in Query : token[q] = t /\ phase[q] = "open"}, "stopped")
    /\ UNCHANGED <<token, waiting, closure, calls, replier>>

\* Mutant: cancel does not wait for the callbacks.
CancelReturn_NoWait(t) ==
    /\ cancel[t] = "cancelling"
    /\ cancel' = [cancel EXCEPT ![t] = "cancelled"]
    /\ UNCHANGED <<getter, calls, replier>>

\* ... and returns when their closures were released.
CancelReturn(t) ==
    /\ cancel[t] = "cancelling"
    /\ \A q \in Query : token[q] = t => closure[q] # "live"
    /\ cancel' = [cancel EXCEPT ![t] = "cancelled"]
    /\ UNCHANGED <<getter, calls, replier>>

-----------------------------------------------------------------------------
(* The answering side.                                                      *)

\* The queryable's callback, or channel, receives the query.
OnQuery(q, k) ==
    /\ k \in asked[q]
    /\ asked' = [asked EXCEPT ![q] = @ \ {k}]
    /\ refs' = [refs EXCEPT ![q][k] = 1]
    /\ UNCHANGED <<getter, calls, sent, inflight, final, cancel>>

\* Query::clone.
clone(q, k) ==
    /\ refs[q][k] \in 1..(MaxRefs - 1)
    /\ refs' = [refs EXCEPT ![q][k] = @ + 1]
    /\ UNCHANGED <<getter, calls, asked, sent, inflight, final, cancel>>

\* A reply is sent through any of the clones; when the C function fails nothing
\* is sent.
SendReply(q, k) ==
    /\ refs[q][k] > 0 /\ sent[q][k] < MaxReplies
    /\ sent' = [sent EXCEPT ![q][k] = @ + 1]
    /\ inflight' = [inflight EXCEPT ![q][k] = @ + 1]
    /\ UNCHANGED <<getter, calls, asked, refs, final, cancel>>

reply(q, k)     == SendReply(q, k)
reply_err(q, k) == SendReply(q, k)
reply_del(q, k) == SendReply(q, k)

\* Mutant: the first clone that goes sends the final message.
DropQuery_First(q, k) ==
    /\ refs[q][k] > 0
    /\ refs' = [refs EXCEPT ![q][k] = @ - 1]
    /\ final' = IF final[q][k] = "unsent" THEN [final EXCEPT ![q][k] = "sent"] ELSE final
    /\ UNCHANGED <<getter, calls, asked, sent, inflight, cancel>>

\* ~Query, or the return of the queryable's callback: the last clone sends the
\* final message.
DropQuery(q, k) ==
    /\ refs[q][k] > 0
    /\ refs' = [refs EXCEPT ![q][k] = @ - 1]
    /\ final' = IF refs[q][k] = 1 THEN [final EXCEPT ![q][k] = "sent"] ELSE final
    /\ UNCHANGED <<getter, calls, asked, sent, inflight, cancel>>

\* A reply arrives: the library calls the closure on one of its threads, or
\* discards the reply to a query that has ended.
DeliverReply(q, k) ==
    /\ inflight[q][k] > 0
    /\ inflight' = [inflight EXCEPT ![q][k] = @ - 1]
    /\ running' = IF phase[q] = "open" THEN [running EXCEPT ![q][k] = @ + 1] ELSE running
    /\ UNCHANGED <<getter, delivered, asked, refs, sent, final, cancel>>

\* The final message arrives behind the replies; the last one ends the query.
DeliverFinal(q, k) ==
    /\ final[q][k] = "sent" /\ inflight[q][k] = 0
    /\ final' = [final EXCEPT ![q][k] = "arrived"]
    /\ waiting' = [waiting EXCEPT ![q] = @ \ {k}]
    /\ IF phase[q] = "open" /\ waiting[q] \subseteq {k}
       THEN End({q}, "final") ELSE UNCHANGED <<phase, reason>>
    /\ UNCHANGED <<token, closure, calls, asked, refs, sent, inflight, cancel>>

Next ==
    \/ \E q \in Query, t \in Token \cup {None} : \E S \in SUBSET Matches[q] :
          \/ session_get(q, t, S) \/ session_get_channel(q, t, S)
          \/ querier_get(q, t, S) \/ querier_get_channel(q, t, S)
          \/ liveliness_get(q, t, S) \/ liveliness_get_channel(q, t, S)
    \/ \E q \in Query : DropClosure(q) \/ Timeout(q)
    \/ \E t \in Token : Cancel(t) \/ CancelReturn(t)
    \/ \E q \in Query, k \in Queryable :
          \/ OnQuery(q, k) \/ clone(q, k) \/ DropQuery(q, k)
          \/ reply(q, k) \/ reply_err(q, k) \/ reply_del(q, k)
          \/ DeliverReply(q, k) \/ DeliverFinal(q, k) \/ CallEnd(q, k)

Spec == Init /\ [][Next]_vars

\* Callbacks terminate, the library releases closures and lets cancel return,
\* and every query has a timeout.  A queryable need never answer nor let go of
\* its Query.
FairSpec ==
    /\ Spec
    /\ \A q \in Query : WF_vars(DropClosure(q)) /\ WF_vars(Timeout(q))
    /\ \A q \in Query, k \in Queryable : WF_vars(CallEnd(q, k))
    /\ \A t \in Token : WF_vars(CancelReturn(t))

-----------------------------------------------------------------------------
(* The promise of module Closures.                                          *)

\* Where the reply closure of q is in its life.
ClosureLife(q) ==
    IF closure[q] # "live" THEN closure[q]
    ELSE IF phase[q] = "open" THEN "held" ELSE "withdrawn"

C == INSTANCE Closures WITH
        Closure <- Query,
        Caller <- Queryable,
        life <- [q \in Query |-> ClosureLife(q)],
        calls <- running,
        drops <- [q \in Query |-> IF closure[q] = "dropped" THEN 1 ELSE 0]

\* The reply closure of every query is called only while the query is open and
\* released once, behind the last call, in whatever order replies, finals, the
\* timeout and a cancellation come (_zenoh_on_reply_call and _zenoh_on_drop share
\* the context); a get that fails has released it.
ImplementsClosures == C!ClosureSpec

-----------------------------------------------------------------------------
(* Properties.                                                              *)

\* No reply callback runs once on_drop has released the closure it would run on,
\* in whatever order replies, finals, the timeout and a cancellation come
\* (_zenoh_on_reply_call and _zenoh_on_drop share the context).
NoCallAfterOnDrop ==
    \A q \in Query, k \in Queryable : running[q][k] > 0 => closure[q] = "live"

\* When a query that was neither cut short by its timeout nor cancelled calls
\* on_drop, the callback has returned for every reply that any clone of the
\* Query sent ("on_drop callable that will be called once all replies are
\* received"), and no clone is left that could send another.
AllRepliesBeforeOnDrop ==
    \A q \in Query, k \in Queryable :
        reason[q] = "final" /\ closure[q] = "dropped" =>
            delivered[q][k] = sent[q][k] /\ refs[q][k] = 0

\* Once cancel has returned, no query with the token has a callback that runs or
\* may still run, the queries begun after it included.
CancelledIsQuiet ==
    \A t \in Token : cancel[t] = "cancelled" =>
        \A q \in Query : token[q] = t => closure[q] = "dropped" /\ Idle(q)

\* Every get releases its closure in the end, and so calls on_drop or disconnects
\* its channel, even when no queryable answers (the timeout_ms of its options).
GetEnds == \A q \in Query : phase[q] # "idle" ~> closure[q] = "dropped"

\* CancellationToken::cancel returns.
CancelReturns == \A t \in Token : cancel[t] = "cancelling" ~> cancel[t] = "cancelled"

=============================================================================

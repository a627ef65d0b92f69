-------------------------- MODULE QueryReplyProofs --------------------------
(***************************************************************************)
(* What a get promises about its reply closure, for every number of        *)
(* queries, queryables, tokens, clones and replies: no callback after      *)
(* on_drop, every reply before it unless the query was cut short, and      *)
(* silence once cancel has returned.                                       *)
(*                                                                         *)
(* None of them is inductive: that a final message is the last thing on    *)
(* its link, that a query waits for every queryable that may still answer, *)
(* and that no reply goes astray while it waits, have to be carried along. *)
(***************************************************************************)
EXTENDS QueryReply, TLAPS

\* The link to one queryable.  A request, then clones of the Query, then the
\* final message; the replies precede it and are all accounted for, except those
\* that found their query stopped.
Account(q, k) == inflight[q][k] + running[q][k] + delivered[q][k]

LinkInv(q, k) ==
    /\ k \in asked[q] => refs[q][k] = 0 /\ final[q][k] = "unsent"
    /\ refs[q][k] > 0 => final[q][k] = "unsent"
    /\ k \notin waiting[q] =>
          refs[q][k] = 0 /\ inflight[q][k] = 0 /\ k \notin asked[q] /\ final[q][k] # "sent"
    /\ Account(q, k) <= sent[q][k]
    /\ reason[q] # "stopped" => Account(q, k) = sent[q][k]
    /\ running[q][k] > 0 => closure[q] = "live"

\* The query itself: its closure exists while it is open, and until no callback
\* runs after that.
PhaseInv(q) ==
    /\ phase[q] = "idle" => closure[q] = "none" /\ token[q] = None
    /\ phase[q] \in {"idle", "failed"} =>
          /\ asked[q] = {} /\ waiting[q] = {}
          /\ \A k \in Queryable : sent[q][k] = 0 /\ final[q][k] = "unsent"
    /\ phase[q] = "open" => closure[q] = "live"
    /\ closure[q] = "live" => phase[q] \in {"open", "ended"}
    /\ phase[q] # "ended" => reason[q] = "none"
    /\ phase[q] # "idle" => closure[q] # "none"
    /\ phase[q] = "ended" => reason[q] # "none"
    /\ reason[q] = "final" => waiting[q] = {}

\* A token that was cancelled has ended its queries, and their closures are
\* released when cancel has returned.
TokenInv(q) ==
    /\ token[q] \in Token /\ cancel[token[q]] # "fresh" => phase[q] # "open"
    /\ token[q] \in Token /\ cancel[token[q]] = "cancelled" => closure[q] # "live"

IInv ==
    /\ TypeOK
    /\ \A q \in Query : PhaseInv(q) /\ TokenInv(q)
    /\ \A q \in Query, k \in Queryable : LinkInv(q, k)

\* It holds before any get.
LEMMA InitInv == Init => IInv
<1> SUFFICES ASSUME Init PROVE IInv
  OBVIOUS
<1>1. TypeOK
  BY BoundsPositive DEF Init, TypeOK, Links
<1>2. ASSUME NEW q \in Query PROVE PhaseInv(q) /\ TokenInv(q)
  BY NoneIsNoToken DEF Init, PhaseInv, TokenInv, Links
<1>3. ASSUME NEW q \in Query, NEW k \in Queryable PROVE LinkInv(q, k)
  BY DEF Init, LinkInv, Account, Links
<1> QED BY <1>1, <1>2, <1>3 DEF IInv

\* What the invariant says of query x depends on these and on the tokens.
Same(x) ==
    /\ phase'[x] = phase[x] /\ reason'[x] = reason[x] /\ token'[x] = token[x]
    /\ waiting'[x] = waiting[x] /\ closure'[x] = closure[x] /\ asked'[x] = asked[x]
    /\ refs'[x] = refs[x] /\ sent'[x] = sent[x] /\ inflight'[x] = inflight[x]
    /\ running'[x] = running[x] /\ delivered'[x] = delivered[x] /\ final'[x] = final[x]

\* A step of one query need only be checked for that query.
LEMMA OneQuery ==
  ASSUME IInv, TypeOK', UNCHANGED cancel,
         NEW q \in Query, PhaseInv(q)', TokenInv(q)',
         \A y \in Queryable : LinkInv(q, y)',
         \A x \in Query \ {q} : Same(x)
  PROVE  IInv'
<1>1. ASSUME NEW x \in Query \ {q} PROVE PhaseInv(x)' /\ TokenInv(x)'
  BY DEF IInv, Same, PhaseInv, TokenInv
<1>2. ASSUME NEW x \in Query \ {q}, NEW y \in Queryable PROVE LinkInv(x, y)'
  BY DEF IInv, Same, LinkInv, Account
<1> QED BY <1>1, <1>2 DEF IInv

\* The counters are numbers.
LEMMA Counters ==
  ASSUME TypeOK, NEW q \in Query, NEW k \in Queryable
  PROVE  /\ refs[q][k] \in Nat /\ sent[q][k] \in Nat /\ inflight[q][k] \in Nat
         /\ running[q][k] \in Nat /\ delivered[q][k] \in Nat /\ Account(q, k) \in Nat
BY BoundsPositive DEF TypeOK, Links, Account

\* Nothing has happened on the links of a query that was not begun.
LEMMA FreshLink ==
  ASSUME IInv, NEW q \in Query, phase[q] = "idle", NEW k \in Queryable
  PROVE  /\ refs[q][k] = 0 /\ sent[q][k] = 0 /\ inflight[q][k] = 0
         /\ running[q][k] = 0 /\ delivered[q][k] = 0 /\ final[q][k] = "unsent"
<1>1. waiting[q] = {} /\ sent[q][k] = 0 /\ final[q][k] = "unsent"
  BY DEF IInv, PhaseInv
<1>2. refs[q][k] = 0 /\ inflight[q][k] = 0 /\ Account(q, k) <= 0
  BY <1>1 DEF IInv, LinkInv
<1> QED BY <1>1, <1>2, Counters DEF IInv, Account

\* A query that somebody may still answer and that is not open was stopped.
LEMMA StoppedQuery ==
  ASSUME IInv, NEW q \in Query, phase[q] # "open", waiting[q] # {}
  PROVE  reason[q] = "stopped"
BY DEF IInv, PhaseInv, TypeOK

\* A query is accepted and asks its queryables.
LEMMA RegisterAskKeeps ==
  ASSUME IInv, NEW q \in Query, NEW t \in Token \cup {None}, NEW S \in SUBSET Queryable,
         Register(q, t, S), Ask(q, S)
  PROVE  IInv'
<1> USE BoundsPositive, NoneIsNoToken DEF IInv, TypeOK, Links, Register, Ask, calls
<1>1. TypeOK'
  BY DEF LinkInv, PhaseInv, Account
<1>2. PhaseInv(q)'
  BY DEF PhaseInv, LinkInv, Account
<1>3. TokenInv(q)'
  BY DEF TokenInv, PhaseInv
<1>4. ASSUME NEW y \in Queryable PROVE LinkInv(q, y)'
  <2>1. /\ refs[q][y] = 0 /\ sent[q][y] = 0 /\ inflight[q][y] = 0
        /\ running[q][y] = 0 /\ delivered[q][y] = 0 /\ final[q][y] = "unsent"
    BY FreshLink
  <2> QED BY <2>1 DEF LinkInv, Account
<1>5. \A x \in Query \ {q} : Same(x)
  BY DEF Same
<1> QED BY <1>1, <1>2, <1>3, <1>4, <1>5, OneQuery

\* A liveliness query is accepted and answered by the network.
LEMMA RegisterTokensKeeps ==
  ASSUME IInv, NEW q \in Query, NEW t \in Token \cup {None}, NEW S \in SUBSET Queryable,
         Register(q, t, S), Tokens(q, S)
  PROVE  IInv'
<1> USE BoundsPositive, NoneIsNoToken DEF IInv, TypeOK, Links, Register, Tokens, calls
<1>1. TypeOK'
  BY DEF LinkInv, PhaseInv, Account
<1>2. PhaseInv(q)'
  BY DEF PhaseInv, LinkInv, Account
<1>3. TokenInv(q)'
  BY DEF TokenInv, PhaseInv
<1>4. ASSUME NEW y \in Queryable PROVE LinkInv(q, y)'
  <2>1. /\ refs[q][y] = 0 /\ sent[q][y] = 0 /\ inflight[q][y] = 0
        /\ running[q][y] = 0 /\ delivered[q][y] = 0 /\ final[q][y] = "unsent"
    BY FreshLink
  <2>2. /\ refs'[q][y] = 0 /\ running'[q][y] = 0 /\ delivered'[q][y] = 0
        /\ sent'[q][y] = (IF y \in S THEN 1 ELSE 0)
        /\ inflight'[q][y] = (IF y \in S THEN 1 ELSE 0)
        /\ final'[q][y] = (IF y \in S THEN "sent" ELSE "unsent")
    BY <2>1
  <2>3. waiting'[q] = S /\ asked'[q] = {}
    BY DEF PhaseInv
  <2> QED BY <2>2, <2>3 DEF LinkInv, Account
<1>5. \A x \in Query \ {q} : Same(x)
  BY DEF Same
<1> QED BY <1>1, <1>2, <1>3, <1>4, <1>5, OneQuery

\* A get that fails has no callback to come.
LEMMA FailKeeps ==
  ASSUME IInv, NEW q \in Query, NEW t \in Token \cup {None}, Fail(q, t)
  PROVE  IInv'
<1> USE BoundsPositive, NoneIsNoToken DEF IInv, TypeOK, Links, Fail, calls, replier
<1>1. TypeOK'
  BY DEF LinkInv, PhaseInv, Account
<1>2. PhaseInv(q)'
  BY DEF PhaseInv, LinkInv, Account
<1>3. TokenInv(q)'
  BY DEF TokenInv, PhaseInv
<1>4. ASSUME NEW y \in Queryable PROVE LinkInv(q, y)'
  BY DEF PhaseInv, LinkInv, Account
<1>5. \A x \in Query \ {q} : Same(x)
  BY DEF Same
<1> QED BY <1>1, <1>2, <1>3, <1>4, <1>5, OneQuery

\* A reply callback returns.
LEMMA CallEndKeeps ==
  ASSUME IInv, NEW q \in Query, NEW k \in Queryable, CallEnd(q, k)
  PROVE  IInv'
<1> USE BoundsPositive, NoneIsNoToken DEF IInv, TypeOK, Links, CallEnd, getter, replier
<1>1. TypeOK'
  BY DEF LinkInv, PhaseInv, Account
<1>2. PhaseInv(q)'
  BY DEF PhaseInv, LinkInv, Account
<1>3. TokenInv(q)'
  BY DEF TokenInv, PhaseInv
<1>4. ASSUME NEW y \in Queryable PROVE LinkInv(q, y)'
  <2>1. CASE y = k
    <3>1. Account(q, k)' = Account(q, k)
      BY DEF Account
    <3> QED BY <2>1, <3>1 DEF LinkInv
  <2>2. CASE y # k
    BY <2>2 DEF LinkInv, Account
  <2> QED BY <2>1, <2>2
<1>5. \A x \in Query \ {q} : Same(x)
  BY DEF Same
<1> QED BY <1>1, <1>2, <1>3, <1>4, <1>5, OneQuery

\* The closure is released when no callback runs.
LEMMA DropClosureKeeps ==
  ASSUME IInv, NEW q \in Query, DropClosure(q)
  PROVE  IInv'
<1> USE BoundsPositive, NoneIsNoToken DEF IInv, TypeOK, Links, DropClosure, Idle, calls, replier
<1>1. TypeOK'
  BY DEF LinkInv, PhaseInv, Account
<1>2. PhaseInv(q)'
  BY DEF PhaseInv, LinkInv, Account
<1>3. TokenInv(q)'
  BY DEF TokenInv, PhaseInv
<1>4. ASSUME NEW y \in Queryable PROVE LinkInv(q, y)'
  BY DEF PhaseInv, LinkInv, Account
<1>5. \A x \in Query \ {q} : Same(x)
  BY DEF Same
<1> QED BY <1>1, <1>2, <1>3, <1>4, <1>5, OneQuery

\* A query times out; its closure stays until its callbacks have returned.
LEMMA TimeoutKeeps ==
  ASSUME IInv, NEW q \in Query, Timeout(q)
  PROVE  IInv'
<1> USE BoundsPositive, NoneIsNoToken DEF IInv, TypeOK, Links, Timeout, End, calls, replier
<1>1. TypeOK'
  BY DEF LinkInv, PhaseInv, Account
<1>2. PhaseInv(q)'
  BY DEF PhaseInv, LinkInv, Account
<1>3. TokenInv(q)'
  BY DEF TokenInv, PhaseInv
<1>4. ASSUME NEW y \in Queryable PROVE LinkInv(q, y)'
  BY DEF PhaseInv, LinkInv, Account
<1>5. \A x \in Query \ {q} : Same(x)
  BY DEF Same
<1> QED BY <1>1, <1>2, <1>3, <1>4, <1>5, OneQuery

\* A queryable receives a query.
LEMMA OnQueryKeeps ==
  ASSUME IInv, NEW q \in Query, NEW k \in Queryable, OnQuery(q, k)
  PROVE  IInv'
<1> USE BoundsPositive, NoneIsNoToken DEF IInv, TypeOK, Links, OnQuery, getter, calls
<1>1. TypeOK'
  BY DEF LinkInv, PhaseInv, Account
<1>2. PhaseInv(q)'
  BY DEF PhaseInv, LinkInv, Account
<1>3. TokenInv(q)'
  BY DEF TokenInv, PhaseInv
<1>4. ASSUME NEW y \in Queryable PROVE LinkInv(q, y)'
  BY DEF PhaseInv, LinkInv, Account
<1>5. \A x \in Query \ {q} : Same(x)
  BY DEF Same
<1> QED BY <1>1, <1>2, <1>3, <1>4, <1>5, OneQuery

\* A Query is cloned before its final message only.
LEMMA cloneKeeps ==
  ASSUME IInv, NEW q \in Query, NEW k \in Queryable, clone(q, k)
  PROVE  IInv'
<1> USE BoundsPositive, NoneIsNoToken DEF IInv, TypeOK, Links, clone, getter, calls
<1>1. TypeOK'
  BY DEF LinkInv, PhaseInv, Account
<1>2. PhaseInv(q)'
  BY DEF PhaseInv, LinkInv, Account
<1>3. TokenInv(q)'
  BY DEF TokenInv, PhaseInv
<1>4. ASSUME NEW y \in Queryable PROVE LinkInv(q, y)'
  BY DEF PhaseInv, LinkInv, Account
<1>5. \A x \in Query \ {q} : Same(x)
  BY DEF Same
<1> QED BY <1>1, <1>2, <1>3, <1>4, <1>5, OneQuery

\* A reply is sent while a clone is left: the querier still waits for it.
LEMMA SendReplyKeeps ==
  ASSUME IInv, NEW q \in Query, NEW k \in Queryable, SendReply(q, k)
  PROVE  IInv'
<1> USE BoundsPositive, NoneIsNoToken DEF IInv, TypeOK, Links, SendReply, getter, calls
<1>1. TypeOK'
  BY DEF LinkInv, PhaseInv, Account
<1>2. PhaseInv(q)'
  <2>1. phase[q] \notin {"idle", "failed"}
    <3>1. k \in waiting[q]
      BY DEF LinkInv
    <3> QED BY <3>1 DEF PhaseInv
  <2> QED BY <2>1 DEF PhaseInv
<1>3. TokenInv(q)'
  BY DEF TokenInv, PhaseInv
<1>4. ASSUME NEW y \in Queryable PROVE LinkInv(q, y)'
  <2>1. CASE y = k
    <3>1. Account(q, k)' = Account(q, k) + 1
      BY DEF Account
    <3>2. Account(q, k) \in Nat
      BY DEF Account
    <3> QED BY <2>1, <3>1, <3>2 DEF LinkInv
  <2>2. CASE y # k
    BY <2>2 DEF LinkInv, Account
  <2> QED BY <2>1, <2>2
<1>5. \A x \in Query \ {q} : Same(x)
  BY DEF Same
<1> QED BY <1>1, <1>2, <1>3, <1>4, <1>5, OneQuery

\* The last clone sends the final message.
LEMMA DropQueryKeeps ==
  ASSUME IInv, NEW q \in Query, NEW k \in Queryable, DropQuery(q, k)
  PROVE  IInv'
<1> USE BoundsPositive, NoneIsNoToken DEF IInv, TypeOK, Links, DropQuery, getter, calls
<1>1. TypeOK'
  BY DEF LinkInv, PhaseInv, Account
<1>2. PhaseInv(q)'
  <2>1. phase[q] \notin {"idle", "failed"}
    <3>1. k \in waiting[q]
      BY DEF LinkInv
    <3> QED BY <3>1 DEF PhaseInv
  <2> QED BY <2>1 DEF PhaseInv
<1>3. TokenInv(q)'
  BY DEF TokenInv, PhaseInv
<1>4. ASSUME NEW y \in Queryable PROVE LinkInv(q, y)'
  BY DEF PhaseInv, LinkInv, Account
<1>5. \A x \in Query \ {q} : Same(x)
  BY DEF Same
<1> QED BY <1>1, <1>2, <1>3, <1>4, <1>5, OneQuery

\* A reply arrives; only a stopped query loses it.
LEMMA DeliverReplyKeeps ==
  ASSUME IInv, NEW q \in Query, NEW k \in Queryable, DeliverReply(q, k)
  PROVE  IInv'
<1> USE BoundsPositive, NoneIsNoToken DEF IInv, TypeOK, Links, DeliverReply, getter
<1>1. TypeOK'
  BY DEF LinkInv, PhaseInv, Account
<1>2. PhaseInv(q)'
  BY DEF PhaseInv, LinkInv, Account
<1>3. TokenInv(q)'
  BY DEF TokenInv, PhaseInv
<1>4. ASSUME NEW y \in Queryable PROVE LinkInv(q, y)'
  <2>1. CASE y = k /\ phase[q] = "open"
    <3>1. Account(q, k)' = Account(q, k)
      BY <2>1 DEF Account
    <3>2. closure[q] = "live"
      BY <2>1 DEF PhaseInv
    <3> QED BY <2>1, <3>1, <3>2 DEF LinkInv
  <2>2. CASE y = k /\ phase[q] # "open"
    <3>1. reason[q] = "stopped"
      <4>1. k \in waiting[q]
        BY DEF LinkInv
      <4> QED BY <2>2, <4>1, StoppedQuery
    <3>2. Account(q, k)' = Account(q, k) - 1 /\ Account(q, k) \in Nat
      BY <2>2 DEF Account
    <3> QED BY <2>2, <3>1, <3>2 DEF LinkInv
  <2>3. CASE y # k
    BY <2>3 DEF LinkInv, Account
  <2> QED BY <2>1, <2>2, <2>3
<1>5. \A x \in Query \ {q} : Same(x)
  BY DEF Same
<1> QED BY <1>1, <1>2, <1>3, <1>4, <1>5, OneQuery

\* The final message arrives behind the replies of its queryable.
LEMMA DeliverFinalKeeps ==
  ASSUME IInv, NEW q \in Query, NEW k \in Queryable, DeliverFinal(q, k)
  PROVE  IInv'
<1> USE BoundsPositive, NoneIsNoToken DEF IInv, TypeOK, Links, DeliverFinal, End, calls
<1>1. TypeOK'
  BY DEF LinkInv, PhaseInv, Account
<1>2. PhaseInv(q)'
  <2>1. phase[q] \notin {"idle", "failed"}
    <3>1. k \in waiting[q]
      BY DEF LinkInv
    <3> QED BY <3>1 DEF PhaseInv
  <2> QED BY <2>1 DEF PhaseInv
<1>3. TokenInv(q)'
  BY DEF TokenInv, PhaseInv
<1>4. ASSUME NEW y \in Queryable PROVE LinkInv(q, y)'
  <2>1. Account(q, y)' = Account(q, y)
    BY DEF Account
  <2>2. phase[q] # "ended" => reason[q] = "none"
    BY DEF PhaseInv
  <2> QED BY <2>1, <2>2 DEF LinkInv
<1>5. \A x \in Query \ {q} : Same(x)
  BY DEF Same
<1> QED BY <1>1, <1>2, <1>3, <1>4, <1>5, OneQuery

\* A cancellation ends the queries that have the token, and leaves their links
\* alone.
LEMMA CancelKeeps ==
  ASSUME IInv, NEW t \in Token, Cancel(t)
  PROVE  IInv'
<1> USE BoundsPositive DEF IInv, TypeOK, Links, Cancel, End, calls, replier
<1>1. TypeOK'
  OBVIOUS
<1>2. ASSUME NEW x \in Query PROVE PhaseInv(x)'
  BY DEF PhaseInv
<1>3. ASSUME NEW x \in Query PROVE TokenInv(x)'
  BY DEF TokenInv
<1>4. ASSUME NEW x \in Query, NEW y \in Queryable PROVE LinkInv(x, y)'
  BY DEF LinkInv, Account
<1> QED BY <1>1, <1>2, <1>3, <1>4

\* cancel returns when the closures were released.
LEMMA CancelReturnKeeps ==
  ASSUME IInv, NEW t \in Token, CancelReturn(t)
  PROVE  IInv'
<1> USE DEF IInv, CancelReturn, getter, calls, replier
<1>1. TypeOK'
  BY DEF TypeOK
<1>2. ASSUME NEW x \in Query PROVE PhaseInv(x)'
  BY DEF PhaseInv
<1>3. ASSUME NEW x \in Query PROVE TokenInv(x)'
  BY DEF TokenInv, TypeOK
<1>4. ASSUME NEW x \in Query, NEW y \in Queryable PROVE LinkInv(x, y)'
  BY DEF LinkInv, Account
<1> QED BY <1>1, <1>2, <1>3, <1>4

\* Every get of the API is one of three steps.
LEMMA EveryGet ==
  ASSUME NEW q \in Query, NEW t \in Token \cup {None}, NEW S \in SUBSET Matches[q],
         \/ session_get(q, t, S) \/ session_get_channel(q, t, S)
         \/ querier_get(q, t, S) \/ querier_get_channel(q, t, S)
         \/ liveliness_get(q, t, S) \/ liveliness_get_channel(q, t, S)
  PROVE  \/ Register(q, t, S) /\ Ask(q, S)
         \/ Register(q, t, S) /\ Tokens(q, S)
         \/ Fail(q, t)
BY Zenon DEF session_get, session_get_channel, querier_get, querier_get_channel, liveliness_get,
   liveliness_get_channel

\* Every step keeps the invariant.
LEMMA NextKeeps == IInv /\ [Next]_vars => IInv'
<1> SUFFICES ASSUME IInv, [Next]_vars PROVE IInv'
  OBVIOUS
<1>1. ASSUME NEW q \in Query, NEW t \in Token \cup {None}, NEW S \in SUBSET Matches[q],
             \/ session_get(q, t, S) \/ session_get_channel(q, t, S)
             \/ querier_get(q, t, S) \/ querier_get_channel(q, t, S)
             \/ liveliness_get(q, t, S) \/ liveliness_get_channel(q, t, S)
      PROVE  IInv'
  <2>1. S \in SUBSET Queryable
    BY MatchesType
  <2> QED BY <1>1, <2>1, EveryGet, RegisterAskKeeps, RegisterTokensKeeps, FailKeeps
<1>2. ASSUME NEW q \in Query, DropClosure(q) \/ Timeout(q) PROVE IInv'
  BY <1>2, DropClosureKeeps, TimeoutKeeps
<1>3. ASSUME NEW t \in Token, Cancel(t) \/ CancelReturn(t) PROVE IInv'
  BY <1>3, CancelKeeps, CancelReturnKeeps
<1>4. ASSUME NEW q \in Query, NEW k \in Queryable,
             \/ OnQuery(q, k) \/ clone(q, k) \/ DropQuery(q, k)
             \/ reply(q, k) \/ reply_err(q, k) \/ reply_del(q, k)
             \/ DeliverReply(q, k) \/ DeliverFinal(q, k) \/ CallEnd(q, k)
      PROVE  IInv'
  BY <1>4, OnQueryKeeps, cloneKeeps, DropQueryKeeps, SendReplyKeeps, DeliverReplyKeeps,
     DeliverFinalKeeps, CallEndKeeps DEF reply, reply_err, reply_del
<1>5. CASE UNCHANGED vars
  BY <1>5 DEF vars, IInv, TypeOK, PhaseInv, TokenInv, LinkInv, Account
<1> QED BY <1>1, <1>2, <1>3, <1>4, <1>5 DEF Next

\* The inductive invariant holds throughout.
THEOREM QueryInvariant == Spec => []IInv
<1>1. Init => IInv
  BY InitInv
<1>2. IInv /\ [Next]_vars => IInv'
  BY NextKeeps
<1> QED BY <1>1, <1>2, PTL DEF Spec

\* However replies, final messages, timeouts and cancellations are ordered, no
\* reply callback runs after on_drop.
THEOREM NoReplyAfterOnDrop == Spec => []NoCallAfterOnDrop
<1>1. IInv => NoCallAfterOnDrop
  BY DEF IInv, LinkInv, NoCallAfterOnDrop
<1> QED BY <1>1, QueryInvariant, PTL

\* A query that ends by itself has had every reply of every clone when on_drop
\* runs.
THEOREM OnDropIsLast == Spec => []AllRepliesBeforeOnDrop
<1>1. IInv => AllRepliesBeforeOnDrop
  <2> SUFFICES ASSUME IInv, NEW q \in Query, NEW k \in Queryable,
                      reason[q] = "final", closure[q] = "dropped"
               PROVE  delivered[q][k] = sent[q][k] /\ refs[q][k] = 0
    BY DEF AllRepliesBeforeOnDrop
  <2>1. k \notin waiting[q]
    BY DEF IInv, PhaseInv
  <2>2. refs[q][k] = 0 /\ inflight[q][k] = 0 /\ Account(q, k) = sent[q][k]
    BY <2>1 DEF IInv, LinkInv
  <2>3. running[q][k] = 0 /\ delivered[q][k] \in Nat
    BY BoundsPositive DEF IInv, TypeOK, Links, LinkInv
  <2> QED BY <2>2, <2>3 DEF Account
<1> QED BY <1>1, QueryInvariant, PTL

\* Once cancel has returned, no query with the token runs a callback or ever will.
THEOREM CancelSilences == Spec => []CancelledIsQuiet
<1>1. IInv => CancelledIsQuiet
  <2> SUFFICES ASSUME IInv, NEW t \in Token, cancel[t] = "cancelled",
                      NEW q \in Query, token[q] = t
               PROVE  closure[q] = "dropped" /\ Idle(q)
    BY DEF CancelledIsQuiet
  <2>1. closure[q] # "live" /\ phase[q] \notin {"idle", "open"}
    BY NoneIsNoToken DEF IInv, TokenInv, PhaseInv
  <2>2. closure[q] = "dropped"
    BY <2>1 DEF IInv, TypeOK, PhaseInv
  <2>3. ASSUME NEW k \in Queryable PROVE running[q][k] = 0
    BY <2>1, BoundsPositive DEF IInv, TypeOK, Links, LinkInv
  <2> QED BY <2>2, <2>3 DEF Idle
<1> QED BY <1>1, QueryInvariant, PTL

-----------------------------------------------------------------------------
(* Reply closures keep the promise of module Closures.                      *)

\* Before any get the library has no closure.
LEMMA RefinesInit == Init => C!ClosureInit
BY DEF Init, C!ClosureInit, ClosureLife

\* The types of the promise.
LEMMA RefinesType == TypeOK => C!Typed
BY BoundsPositive DEF TypeOK, Links, C!Typed, ClosureLife

\* What the promise says of query x depends on these.
SameClosure(x) ==
    /\ phase'[x] = phase[x] /\ closure'[x] = closure[x] /\ running'[x] = running[x]

\* A step that leaves them alone is invisible to the closure.
LEMMA RefinesSame ==
  ASSUME NEW x \in Query, SameClosure(x)
  PROVE  C!Step(x)
BY DEF SameClosure, ClosureLife, C!Step, C!Idle

\* A get that the library accepts hands it the closure, even if nobody answers.
LEMMA RefinesRegister ==
  ASSUME IInv, NEW q \in Query, NEW t, NEW S, Register(q, t, S)
  PROVE  C!Take(q)
<1>1. ClosureLife(q) = "none" /\ closure[q] = "none"
  BY DEF IInv, PhaseInv, Register, ClosureLife
<1>2. closure'[q] = "live" /\ phase'[q] \in {"open", "ended"} /\ running'[q] = running[q]
  BY DEF Register, IInv, TypeOK, calls
<1>3. ClosureLife(q)' \in {"held", "withdrawn"}
  BY <1>2 DEF ClosureLife
<1> QED BY <1>1, <1>2, <1>3 DEF C!Take

\* A get that fails has released its closure.
LEMMA RefinesFail ==
  ASSUME IInv, NEW q \in Query, NEW t, Fail(q, t)
  PROVE  C!Refuse(q)
<1>1. ClosureLife(q) = "none" /\ closure[q] = "none"
  BY DEF IInv, PhaseInv, Fail, ClosureLife
<1>2. closure'[q] = "dropped" /\ running'[q] = running[q]
  BY DEF Fail, IInv, TypeOK, calls
<1>3. ClosureLife(q)' = "dropped"
  BY <1>2 DEF ClosureLife
<1> QED BY <1>1, <1>2, <1>3 DEF C!Refuse

\* A reply that arrives begins a call if the library still holds the closure, and
\* is invisible otherwise.
LEMMA RefinesDeliverReply ==
  ASSUME IInv, NEW q \in Query, NEW k \in Queryable, DeliverReply(q, k)
  PROVE  C!Step(q)
<1>1. phase'[q] = phase[q] /\ closure'[q] = closure[q]
  BY DEF DeliverReply, getter
<1>2. CASE phase[q] = "open"
  <2>1. closure[q] = "live"
    BY <1>2 DEF IInv, PhaseInv
  <2>2. ClosureLife(q) = "held" /\ ClosureLife(q)' = "held"
    BY <1>1, <1>2, <2>1 DEF ClosureLife
  <2>3. running'[q] = [running[q] EXCEPT ![k] = @ + 1]
    BY <1>2 DEF DeliverReply, IInv, TypeOK, Links
  <2>4. C!Begin(q, k)
    BY <1>1, <2>2, <2>3 DEF C!Begin
  <2> QED BY <2>4 DEF C!Step
<1>3. CASE phase[q] # "open"
  BY <1>1, <1>3, RefinesSame DEF DeliverReply, SameClosure
<1> QED BY <1>2, <1>3

\* A reply callback returns.
LEMMA RefinesCallEnd ==
  ASSUME IInv, NEW q \in Query, NEW k \in Queryable, CallEnd(q, k)
  PROVE  C!Return(q, k)
<1>1. phase'[q] = phase[q] /\ closure'[q] = closure[q]
  BY DEF CallEnd, getter
<1>2. running[q][k] > 0 /\ running'[q] = [running[q] EXCEPT ![k] = @ - 1]
  BY DEF CallEnd, IInv, TypeOK, Links
<1> QED BY <1>1, <1>2 DEF C!Return, ClosureLife

\* on_drop runs on the closure of an ended query without callbacks.
LEMMA RefinesDropClosure ==
  ASSUME IInv, NEW q \in Query, DropClosure(q)
  PROVE  C!OnDrop(q)
<1>1. closure[q] = "live" /\ closure'[q] = "dropped" /\ running'[q] = running[q]
  BY DEF DropClosure, IInv, TypeOK, calls
<1>2. ClosureLife(q) = "withdrawn" /\ ClosureLife(q)' = "dropped"
  BY <1>1 DEF DropClosure, ClosureLife
<1>3. C!Quiet(q)
  BY DEF DropClosure, Idle, C!Quiet
<1> QED BY <1>1, <1>2, <1>3 DEF C!OnDrop

\* The end of a query withdraws its closure, whoever ends it.
LEMMA RefinesEnd ==
  ASSUME IInv, NEW x \in Query, UNCHANGED <<closure, running>>,
         \/ phase'[x] = phase[x]
         \/ phase[x] = "open" /\ phase'[x] = "ended"
  PROVE  C!Step(x)
<1>1. CASE phase'[x] = phase[x]
  BY <1>1, RefinesSame DEF SameClosure
<1>2. CASE phase[x] = "open" /\ phase'[x] = "ended"
  <2>1. closure[x] = "live"
    BY <1>2 DEF IInv, PhaseInv
  <2>2. ClosureLife(x) = "held" /\ ClosureLife(x)' = "withdrawn"
    BY <1>2, <2>1 DEF ClosureLife
  <2>3. C!Withdraw(x)
    BY <2>1, <2>2 DEF C!Withdraw
  <2> QED BY <2>3 DEF C!Step
<1> QED BY <1>1, <1>2

\* Every way for a query to end is of that kind.
LEMMA RefinesEndings ==
  ASSUME IInv, NEW x \in Query,
         \/ \E q \in Query : Timeout(q)
         \/ \E t \in Token : Cancel(t)
         \/ \E q \in Query, k \in Queryable : DeliverFinal(q, k)
  PROVE  C!Step(x)
<1>1. UNCHANGED <<closure, running>>
  BY DEF Timeout, Cancel, DeliverFinal, calls
<1>2. \/ phase'[x] = phase[x]
      \/ phase[x] = "open" /\ phase'[x] = "ended"
  BY DEF Timeout, Cancel, DeliverFinal, End, IInv, TypeOK
<1> QED BY <1>1, <1>2, RefinesEnd

\* The steps of one query leave the closures of the others alone.
LEMMA OthersSame ==
  ASSUME IInv, NEW q \in Query,
         \/ \E t, S : Register(q, t, S)
         \/ \E t : Fail(q, t)
         \/ DropClosure(q)
         \/ \E k \in Queryable : DeliverReply(q, k) \/ CallEnd(q, k),
         NEW x \in Query \ {q}
  PROVE  SameClosure(x)
<1> USE DEF IInv, TypeOK, Links, SameClosure, calls, getter
<1>1. CASE \E t, S : Register(q, t, S)
  BY <1>1 DEF Register
<1>2. CASE \E t : Fail(q, t)
  BY <1>2 DEF Fail
<1>3. CASE DropClosure(q)
  BY <1>3 DEF DropClosure
<1>4. CASE \E k \in Queryable : DeliverReply(q, k) \/ CallEnd(q, k)
  BY <1>4 DEF DeliverReply, CallEnd
<1> QED BY <1>1, <1>2, <1>3, <1>4

\* A step of one query is a step of every closure.
LEMMA RefinesOneQuery ==
  ASSUME IInv, NEW q \in Query,
         \/ \E t, S : Register(q, t, S)
         \/ \E t : Fail(q, t)
         \/ DropClosure(q)
         \/ \E k \in Queryable : DeliverReply(q, k) \/ CallEnd(q, k),
         NEW x \in Query
  PROVE  C!Step(x)
<1>1. CASE x = q
  <2>1. CASE \E t, S : Register(q, t, S)
    BY <1>1, <2>1, RefinesRegister DEF C!Step
  <2>2. CASE \E t : Fail(q, t)
    BY <1>1, <2>2, RefinesFail DEF C!Step
  <2>3. CASE DropClosure(q)
    BY <1>1, <2>3, RefinesDropClosure DEF C!Step
  <2>4. ASSUME NEW k \in Queryable, DeliverReply(q, k) PROVE C!Step(x)
    BY <1>1, <2>4, RefinesDeliverReply
  <2>5. ASSUME NEW k \in Queryable, CallEnd(q, k) PROVE C!Step(x)
    BY <1>1, <2>5, RefinesCallEnd DEF C!Step
  <2> QED BY <2>1, <2>2, <2>3, <2>4, <2>5
<1>2. CASE x # q
  BY <1>2, OthersSame, RefinesSame
<1> QED BY <1>1, <1>2

\* Every step is a step of the promise.
LEMMA RefinesNext == IInv /\ IInv' /\ [Next]_vars => [C!ClosureNext]_(C!closureVars)
<1> SUFFICES ASSUME IInv, IInv', [Next]_vars PROVE C!ClosureNext
  OBVIOUS
<1>1. C!Typed'
  <2>1. TypeOK'
    BY DEF IInv
  <2>2. (TypeOK => C!Typed)'
    BY RefinesType, PTL
  <2> QED BY <2>1, <2>2
<1>2. ASSUME NEW x \in Query PROVE C!Step(x)
  <2>1. ASSUME NEW q \in Query, NEW t \in Token \cup {None}, NEW S \in SUBSET Matches[q],
               \/ session_get(q, t, S) \/ session_get_channel(q, t, S)
               \/ querier_get(q, t, S) \/ querier_get_channel(q, t, S)
               \/ liveliness_get(q, t, S) \/ liveliness_get_channel(q, t, S)
        PROVE  C!Step(x)
    BY <2>1, EveryGet, RefinesOneQuery
  <2>2. ASSUME NEW q \in Query, DropClosure(q) \/ Timeout(q) PROVE C!Step(x)
    BY <2>2, RefinesOneQuery, RefinesEndings
  <2>3. ASSUME NEW t \in Token, Cancel(t) \/ CancelReturn(t) PROVE C!Step(x)
    BY <2>3, RefinesEndings, RefinesSame DEF CancelReturn, getter, calls, SameClosure
  <2>4. ASSUME NEW q \in Query, NEW k \in Queryable,
               OnQuery(q, k) \/ clone(q, k) \/ DropQuery(q, k) \/ SendReply(q, k)
        PROVE  C!Step(x)
    BY <2>4, RefinesSame
       DEF OnQuery, clone, DropQuery, SendReply, getter, calls, SameClosure
  <2>5. ASSUME NEW q \in Query, NEW k \in Queryable,
               \/ OnQuery(q, k) \/ clone(q, k) \/ DropQuery(q, k)
               \/ reply(q, k) \/ reply_err(q, k) \/ reply_del(q, k)
               \/ DeliverReply(q, k) \/ DeliverFinal(q, k) \/ CallEnd(q, k)
        PROVE  C!Step(x)
    BY <2>4, <2>5, RefinesOneQuery, RefinesEndings DEF reply, reply_err, reply_del
  <2>6. CASE UNCHANGED vars
    BY <2>6, RefinesSame DEF vars, SameClosure
  <2> QED BY <2>1, <2>2, <2>3, <2>5, <2>6 DEF Next
<1> QED BY <1>1, <1>2 DEF C!ClosureNext

\* Reply closures keep the library's promise, in whatever order replies, final
\* messages, timeouts and cancellations come: called only while the query is open,
\* released once, behind the last call or by the get that fails.
THEOREM QueriesKeepClosures == Spec => ImplementsClosures
<1>1. Init => C!ClosureInit
  BY RefinesInit
<1>2. IInv /\ IInv' /\ [Next]_vars => [C!ClosureNext]_(C!closureVars)
  BY RefinesNext
<1> QED BY <1>1, <1>2, QueryInvariant, PTL DEF Spec, ImplementsClosures, C!ClosureSpec

=============================================================================

------------------------------ MODULE Closures ------------------------------
(***************************************************************************)
(* What the library promises about every closure the application hands to  *)
(* it, whatever the closure is for (the comments on on_drop in             *)
(* api/session.hxx, the context of detail/closures.hxx): it is called only *)
(* while the library holds it, several callers may call it at once, and    *)
(* on_drop comes once, after the library has given the closure up and the  *)
(* last call has returned, or at once if the library refuses it.  Nothing  *)
(* is called afterwards.                                                   *)
(*                                                                         *)
(* Modules Entities and QueryReply implement it, the one for the callbacks *)
(* of declared entities, the other for the reply closures of queries.      *)
(***************************************************************************)
EXTENDS Naturals

CONSTANTS Closure, Caller

VARIABLES life,   \* "none", "held", "withdrawn" or "dropped"
          calls,  \* closure, caller: calls in progress
          drops   \* closure: how often on_drop was called

closureVars == <<life, calls, drops>>

Typed ==
    /\ life \in [Closure -> {"none", "held", "withdrawn", "dropped"}]
    /\ calls \in [Closure -> [Caller -> Nat]]
    /\ drops \in [Closure -> Nat]

ClosureInit ==
    /\ life = [c \in Closure |-> "none"]
    /\ calls = [c \in Closure |-> [k \in Caller |-> 0]]
    /\ drops = [c \in Closure |-> 0]

Quiet(c) == \A k \in Caller : calls[c][k] = 0

\* What may happen to one closure in a step.
Idle(c) == life'[c] = life[c] /\ calls'[c] = calls[c] /\ drops'[c] = drops[c]

\* The library takes the closure, or takes it only to give it up again.
Take(c) ==
    /\ life[c] = "none" /\ life'[c] \in {"held", "withdrawn"}
    /\ calls'[c] = calls[c] /\ drops'[c] = drops[c]

\* The library refuses the closure and releases it on the spot.
Refuse(c) ==
    /\ life[c] = "none" /\ life'[c] = "dropped"
    /\ calls'[c] = calls[c] /\ drops'[c] = drops[c] + 1

Begin(c, k) ==
    /\ life[c] = "held" /\ life'[c] = life[c]
    /\ calls'[c] = [calls[c] EXCEPT ![k] = @ + 1] /\ drops'[c] = drops[c]

Return(c, k) ==
    /\ calls[c][k] > 0 /\ life'[c] = life[c]
    /\ calls'[c] = [calls[c] EXCEPT ![k] = @ - 1] /\ drops'[c] = drops[c]

\* The library gives the closure up; calls may still be in progress.
Withdraw(c) ==
    /\ life[c] = "held" /\ life'[c] = "withdrawn"
    /\ calls'[c] = calls[c] /\ drops'[c] = drops[c]

OnDrop(c) ==
    /\ life[c] = "withdrawn" /\ Quiet(c) /\ life'[c] = "dropped"
    /\ calls'[c] = calls[c] /\ drops'[c] = drops[c] + 1

Step(c) ==
    \/ Idle(c) \/ Take(c) \/ Refuse(c) \/ Withdraw(c) \/ OnDrop(c)
    \/ \E k \in Caller : Begin(c, k) \/ Return(c, k)

\* The end of a session or a publisher is the end of many closures at once.
ClosureNext == Typed' /\ \A c \in Closure : Step(c)

ClosureSpec == ClosureInit /\ [][ClosureNext]_closureVars

=============================================================================

------------------------------ MODULE Batching ------------------------------
(***************************************************************************)
(* Message batching over zenoh-pico: Session::start_batching and the RAII  *)
(* BatchGuard it returns (api/session.hxx).                                *)
(*                                                                         *)
(* The guard keeps a reference of its own to the session, so that it can   *)
(* stop the batch when it goes out of scope, even after the Session        *)
(* wrapper.  Its move operations are defaulted on a C struct: they copy    *)
(* the reference and leave it in the source as well.                       *)
(***************************************************************************)
EXTENDS Naturals, Sequences, FiniteSets

CONSTANTS Guard,       \* places for BatchGuard objects
          None,        \* no guard
          BatchSize,   \* messages that fit in a batch
          MaxPuts,     \* bound on the messages sent by the application
          MaxMoves     \* bound on the guards moved

ASSUME BatchSizePositive == BatchSize \in Nat \ {0}
ASSUME NoneIsNoGuard == None \notin Guard
ASSUME BoundsNat == MaxPuts \in Nat /\ MaxMoves \in Nat

VARIABLES
    wrapper,     \* is there still a Session wrapper?
    refs,        \* references to the C session
    batching,    \* is the session batching?
    batch,       \* messages stored in the batch, oldest first
    sent,        \* messages sent on the network, in order
    held,        \* guard: "gone" (no such object), "null" (gravestone) or "session"
    active,      \* history: the guard object that stands for the current batch
    puts, moves  \* messages and moves so far

vars == <<wrapper, refs, batching, batch, sent, held, active, puts, moves>>

FlagsOK == wrapper \in BOOLEAN /\ batching \in BOOLEAN

ValuesOK ==
    /\ refs \in 0..2
    /\ batch \in Seq(1..MaxPuts) /\ Len(batch) <= BatchSize
    /\ sent \in Seq(1..MaxPuts)
    /\ held \in [Guard -> {"gone", "null", "session"}]
    /\ active \in Guard \cup {None}
    /\ puts \in 0..MaxPuts /\ moves \in 0..MaxMoves

TypeOK == FlagsOK /\ ValuesOK

Init ==
    /\ wrapper = TRUE /\ refs = 1
    /\ batching = FALSE /\ batch = <<>> /\ sent = <<>>
    /\ held = [g \in Guard |-> "gone"] /\ active = None
    /\ puts = 0 /\ moves = 0

\* A C session whose last reference was released is gone; what a dangling
\* reference to it does is undefined.
Alive == refs > 0

\* Mutant: the guard copies the session's struct without counting a reference.
BatchGuard_NoClone(g) == held' = [held EXCEPT ![g] = "session"] /\ UNCHANGED refs

\* BatchGuard(const Session&): a new reference (_z_session_rc_clone).
BatchGuard(g) == held' = [held EXCEPT ![g] = "session"] /\ refs' = refs + 1

\* start_batching: zp_batch_start refuses a session that is batching already;
\* then it throws (m = "throw"), or returns a gravestone guard.
start_batching(g, m) ==
    /\ Alive /\ wrapper /\ held[g] = "gone"
    /\ IF ~batching
       THEN BatchGuard(g) /\ batching' = TRUE /\ active' = g
       ELSE /\ held' = [held EXCEPT ![g] = IF m = "throw" THEN "gone" ELSE "null"]
            /\ UNCHANGED <<refs, batching, active>>
    /\ UNCHANGED <<wrapper, batch, sent, puts, moves>>

\* Session::put, delete_resource, ...: the library stores the message in the
\* batch, sending a full batch first, or sends it.
put ==
    /\ Alive /\ wrapper /\ puts < MaxPuts
    /\ puts' = puts + 1
    /\ IF batching
       THEN IF Len(batch) < BatchSize
            THEN batch' = Append(batch, puts + 1) /\ UNCHANGED sent
            ELSE batch' = <<puts + 1>> /\ sent' = sent \o batch
       ELSE sent' = Append(sent, puts + 1) /\ UNCHANGED batch
    /\ UNCHANGED <<wrapper, refs, batching, held, active, moves>>

FlushBatch == sent' = sent \o batch /\ batch' = <<>>

\* BatchGuard::flush; on a gravestone it reports Z_EINVAL.
flush(g) ==
    /\ Alive /\ held[g] = "session"
    /\ FlushBatch
    /\ UNCHANGED <<wrapper, refs, batching, held, active, puts, moves>>

\* Mutant: the destructor releases the session without stopping the batch.
DestroyGuard_NoStop(g) ==
    /\ Alive /\ held[g] # "gone"
    /\ held' = [held EXCEPT ![g] = "gone"]
    /\ active' = IF active = g THEN None ELSE active
    /\ refs' = IF held[g] = "session" THEN refs - 1 ELSE refs
    /\ UNCHANGED <<wrapper, batching, batch, sent, puts, moves>>

\* Mutant: the destructor discards the batch.
DestroyGuard_Discard(g) ==
    /\ Alive /\ held[g] # "gone"
    /\ held' = [held EXCEPT ![g] = "gone"]
    /\ active' = IF active = g THEN None ELSE active
    /\ IF held[g] = "session"
       THEN batch' = <<>> /\ batching' = FALSE /\ refs' = refs - 1
       ELSE UNCHANGED <<batch, batching, refs>>
    /\ UNCHANGED <<wrapper, sent, puts, moves>>

\* ~BatchGuard: zp_batch_stop, which sends what is left, and the reference is
\* released.
DestroyGuard(g) ==
    /\ Alive /\ held[g] # "gone"
    /\ held' = [held EXCEPT ![g] = "gone"]
    /\ active' = IF active = g THEN None ELSE active
    /\ IF held[g] = "session"
       THEN FlushBatch /\ batching' = FALSE /\ refs' = refs - 1
       ELSE UNCHANGED <<batch, sent, batching, refs>>
    /\ UNCHANGED <<wrapper, puts, moves>>

\* BatchGuard(BatchGuard&&) = default and operator=(BatchGuard&&) = default:
\* the struct is copied over whatever d holds, and s keeps it.
MoveGuard(d, s) ==
    /\ d # s /\ held[s] # "gone" /\ moves < MaxMoves
    /\ held' = [held EXCEPT ![d] = held[s]]
    /\ active' = IF active = s THEN d ELSE IF active = d THEN None ELSE active
    /\ moves' = moves + 1
    /\ UNCHANGED <<wrapper, refs, batching, batch, sent, puts>>

\* ~Session.
DestroySession ==
    /\ Alive /\ wrapper
    /\ wrapper' = FALSE /\ refs' = refs - 1
    /\ UNCHANGED <<batching, batch, sent, held, active, puts, moves>>

Next ==
    \/ \E g \in Guard : \/ \E m \in {"throw", "err"} : start_batching(g, m)
                        \/ flush(g) \/ DestroyGuard(g)
    \/ \E d, s \in Guard : MoveGuard(d, s)
    \/ put \/ DestroySession

Spec == Init /\ [][Next]_vars

-----------------------------------------------------------------------------
(* Properties.                                                              *)

\* Batching lasts as long as the guard: "Until it goes out of scope,
\* any message that would have been sent [...] will be instead stored"
\* (session.hxx, BatchGuard), also around refused attempts to start a second
\* batch.  A moved guard is out of scope when the object it was moved to is.
GuardKeepsBatching == active # None => batching

\* The same, as long as no guard was moved; and batching lasts no longer, as
\* nothing would ever stop it without a guard.
UnmovedGuardIsBatch == moves = 0 => (batching <=> active # None)

\* As long as no guard was moved, every reference is accounted for by the wrapper
\* or by one guard: the session is neither leaked nor released under a guard
\* that still needs it.
RefsCounted ==
    moves = 0 => refs = (IF wrapper THEN 1 ELSE 0) + Cardinality({g \in Guard : held[g] = "session"})

\* A session does not end with messages in its batch: the guard flushes them,
\* even when the Session wrapper was destroyed before it, if it was not moved.
EndFlushes == moves = 0 /\ ~Alive => batch = <<>>

\* Batching delays messages but neither loses nor reorders them, whatever
\* guards are moved, refused or destroyed.
InOrder == sent \o batch = [i \in 1..puts |-> i]

=============================================================================

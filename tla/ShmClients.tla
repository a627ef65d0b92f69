----------------------------- MODULE ShmClients -----------------------------
(***************************************************************************)
(* Building an ShmClientStorage from a range of SHM clients                *)
(* (api/shm/client_storage/client_storage.hxx): a list is filled client by *)
(* client, each addition may fail, and the storage is made from the list.  *)
(* With an err pointer nothing is thrown: the result of every step is      *)
(* stored in *err, and the next step is taken.                             *)
(***************************************************************************)
EXTENDS Naturals

CONSTANT N        \* number of clients in the range

VARIABLES mode,      \* "throw" when the err pointer is null, else "err"
          it,        \* how many clients of the range were visited
          list,      \* clients in the ClientList
          err,       \* *err: "ok" or "failed"
          phase,     \* "filling", "threw" or "returned"
          storage    \* clients of the storage, or {} when it is a gravestone

vars == <<mode, it, list, err, phase, storage>>

Client == 1..N

Init ==
    /\ mode \in {"throw", "err"}
    /\ it = 0 /\ list = {} /\ err = "ok" /\ phase = "filling" /\ storage = {}

\* __ZENOH_RESULT_CHECK: throw, or store the result.
ResultCheck(res) ==
    IF mode = "throw"
    THEN /\ phase' = IF res = "ok" THEN phase ELSE "threw"
         /\ UNCHANGED err
    ELSE err' = res /\ UNCHANGED phase

\* One turn of the loop: zc_shm_client_list_add_client takes the client.
AddClient(res) ==
    /\ phase = "filling" /\ it < N
    /\ it' = it + 1
    /\ list' = IF res = "ok" THEN list \cup {it + 1} ELSE list
    /\ ResultCheck(res)
    /\ UNCHANGED <<mode, storage>>

\* z_shm_client_storage_new from the list, and the constructor returns.
NewStorage(res) ==
    /\ phase = "filling" /\ it = N
    /\ storage' = IF res = "ok" THEN list ELSE {}
    /\ IF mode = "throw" /\ res # "ok" THEN phase' = "threw" ELSE phase' = "returned"
    /\ err' = IF mode = "err" THEN res ELSE err
    /\ UNCHANGED <<mode, it, list>>

Next == \E res \in {"ok", "failed"} : AddClient(res) \/ NewStorage(res)

Spec == Init /\ [][Next]_vars

-----------------------------------------------------------------------------

\* With an err pointer, "if not null, the result code will be written to this
\* location" (client_storage.hxx): Z_OK means that no client was left out.
OkIsComplete ==
    mode = "err" /\ phase = "returned" /\ err = "ok" => storage = Client

=============================================================================

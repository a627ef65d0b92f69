------------------------------- MODULE Calls -------------------------------
(***************************************************************************)
(* The calls of zenoh-cpp into zenoh-c.  Every fallible method has the     *)
(* same shape: its C++ options are converted to the C options struct       *)
(* (to_c_opts), whose members are copies of values or pointers into the    *)
(* C++ object; a C function is called, which takes the moved objects even  *)
(* when it fails; the result is thrown or stored (__ZENOH_RESULT_CHECK),   *)
(* and a value is returned.  A method is described by a record:            *)
(*   args    the Owned&& parameters, *this of a method called on an rvalue *)
(*           and the closure, all of which the C function consumes;        *)
(*   fields  the fields of the options struct;                             *)
(*   passed  the fields that the conversion assigns in the C struct;       *)
(*   local   TRUE if the options are first moved to a local variable;      *)
(*   ret     "void", "null" for a result that starts as a gravestone or    *)
(*           empty, "raw" for a C struct that starts uninitialised.        *)
(* The caller may keep its options object and pass it again.               *)
(***************************************************************************)
EXTENDS Naturals, FiniteSets

CONSTANTS MaxCalls,    \* calls that are made with one options object
          MaxSet,      \* fields set by the caller, unless all of them are
          Periods      \* heartbeat and query periods, in ms

ASSUME CallBounds == MaxCalls \in Nat /\ MaxSet \in Nat /\ Periods \subseteq Nat

-----------------------------------------------------------------------------
(* The methods and their options.                                           *)

\* Fields of type std::optional<Owned>, passed with as_moved_c_ptr, and with
\* as_loaned_c_ptr; fields of type std::optional<Copyable>, passed with
\* as_copyable_c_ptr.  All others are copied.
MovedField == {"payload", "encoding", "attachment", "cancellation_token", "transport"}
LoanedField == {"queryable_suffix", "query_keyexpr", "publisher_detection_metadata",
                "subscriber_detection_metadata"}
PointerField == {"timestamp", "source_info"}

Method(args, fields, ret) ==
    [args |-> args, fields |-> fields, passed |-> fields, local |-> FALSE, ret |-> ret]

Routing == {"priority", "congestion_control", "is_express"}

\* Session.
SessionOptions ==
    Method({"config"},
           {"start_background_tasks", "executor_task_attributes", "auto_start_admin_space"},
           "null")
declare_keyexpr == Method({}, {}, "null")
undeclare_keyexpr == Method({"key_expr"}, {}, "void")
GetOptions ==
    Method({"closure"},
           Routing \cup {"target", "consolidation", "payload", "encoding", "source_info",
                         "accept_replies", "allowed_destination", "attachment",
                         "timeout_ms", "cancellation_token"}, "void")
QueryableOptions == Method({"closure"}, {"complete", "allowed_origin"}, "null")
SubscriberOptions == Method({"closure"}, {"allowed_origin"}, "null")
DeleteOptions ==
    [Method({}, Routing \cup {"reliability", "timestamp"}, "void")
        EXCEPT !.passed = Routing \cup {"reliability"}]
PutOptions ==
    Method({"payload"},
           Routing \cup {"allowed_destination", "timestamp", "encoding", "reliability",
                         "source_info", "attachment"}, "void")
PublisherOptions ==
    Method({}, Routing \cup {"reliability", "allowed_destination", "encoding"}, "null")
QuerierOptions ==
    Method({}, Routing \cup {"target", "consolidation", "accept_replies",
                             "allowed_destination", "timeout_ms"}, "null")
get_routers_z_id == Method({"closure"}, {}, "null")
get_peers_z_id == Method({"closure"}, {}, "null")
get_transports == Method({"closure"}, {}, "null")
get_links == [Method({"closure"}, {"transport"}, "null") EXCEPT !.local = TRUE]
TransportEventsListenerOptions == Method({"closure"}, {"history"}, "null")
LinkEventsListenerOptions ==
    [Method({"closure"}, {"history", "transport"}, "null") EXCEPT !.local = TRUE]
liveliness_declare_token == Method({}, {}, "null")
LivelinessSubscriberOptions == Method({"closure"}, {"history"}, "null")
LivelinessGetOptions == Method({"closure"}, {"timeout_ms", "cancellation_token"}, "void")
new_timestamp == Method({}, {}, "raw")

\* Publisher, Querier, Query, LivelinessToken.
PublisherPutOptions ==
    Method({"payload"}, {"encoding", "timestamp", "source_info", "attachment"}, "void")
PublisherDeleteOptions == Method({}, {"timestamp"}, "void")
publisher_undeclare == Method({"this"}, {}, "void")
publisher_get_matching_status == Method({}, {}, "raw")
QuerierGetOptions ==
    Method({"closure"}, {"payload", "encoding", "source_info", "attachment",
                         "cancellation_token"}, "void")
querier_undeclare == Method({"this"}, {}, "void")
querier_get_matching_status == Method({}, {}, "raw")
ReplyOptions ==
    [Method({"payload"}, Routing \cup {"encoding", "timestamp", "source_info",
                                       "attachment"}, "void")
        EXCEPT !.passed = @ \ {"priority", "congestion_control"}]
ReplyErrOptions == Method({"payload"}, {"encoding"}, "void")
ReplyDelOptions ==
    [Method({}, Routing \cup {"timestamp", "source_info", "attachment"}, "void")
        EXCEPT !.passed = @ \ {"priority", "congestion_control"}]
liveliness_undeclare_token == Method({"this"}, {}, "void")

\* The extensions.  The options of an advanced publisher contain the ones of a
\* publisher, which their own to_c_opts converts in place.
Extended(m, fields) == [m EXCEPT !.fields = @ \cup fields, !.passed = @ \cup fields]

PublicationCacheOptions ==
    Method({}, {"queryable_suffix", "queryable_origin", "queryable_complete", "history",
                "resources_limit"}, "null")
publication_cache_undeclare == Method({"this"}, {}, "void")
QueryingSubscriberOptions ==
    Method({"closure"}, {"query_keyexpr", "allowed_origin", "query_accept_replies",
                         "query_target", "query_consolidation", "query_timeout_ms"}, "null")
querying_subscriber_get ==
    [GetOptions EXCEPT !.args = {},
                       !.passed = @ \ (Routing \cup {"cancellation_token"})]
AdvancedPublisherOptions ==
    Extended(PublisherOptions, {"cache", "sample_miss_detection", "publisher_detection",
                                "publisher_detection_metadata"})
AdvancedSubscriberOptions ==
    Extended(SubscriberOptions, {"history", "last_sample_miss_detection",
                                 "query_timeout_ms", "subscriber_detection",
                                 "subscriber_detection_metadata"})
AdvancedPublisherPutOptions == Extended(PublisherPutOptions, {})
AdvancedPublisherDeleteOptions == Extended(PublisherDeleteOptions, {})
advanced_publisher_undeclare == Method({"this"}, {}, "void")
advanced_publisher_get_matching_status == Method({}, {}, "raw")

\* The background tasks, single steps and admin space of zenoh-pico sessions.
session_tasks == Method({}, {}, "void")
session_steps == Method({}, {}, "void")
admin_space == Method({}, {}, "void")

\* Constructors and setters that make one call, and scouting.  The string of
\* Config::get is uninitialised until the call fills it.
keyexpr_new == Method({}, {"autocanonize"}, "null")
keyexpr_concat == Method({}, {}, "null")
keyexpr_join == Method({}, {}, "null")
config_create_default == Method({}, {}, "null")
config_from_file == Method({}, {}, "null")
config_from_str == Method({}, {}, "null")
config_from_env == Method({}, {}, "null")
config_get == Method({}, {}, "raw")
config_insert_json5 == Method({}, {}, "void")
config_insert == Method({}, {}, "void")
encoding_new == Method({}, {}, "null")
encoding_set_schema == Method({}, {}, "void")
memory_layout_new == Method({}, {}, "null")
alloc_layout == Method({}, {}, "null")
posix_shm_provider_new == Method({}, {}, "null")
ScoutOptions == Method({"config", "closure"}, {"timeout_ms", "what"}, "void")

Methods ==
    {SessionOptions, declare_keyexpr, undeclare_keyexpr, GetOptions, QueryableOptions,
     SubscriberOptions, DeleteOptions, PutOptions, PublisherOptions, QuerierOptions,
     get_routers_z_id, get_peers_z_id, get_transports, get_links,
     TransportEventsListenerOptions, LinkEventsListenerOptions, liveliness_declare_token,
     LivelinessSubscriberOptions, LivelinessGetOptions, new_timestamp,
     PublisherPutOptions, PublisherDeleteOptions, publisher_undeclare,
     publisher_get_matching_status, QuerierGetOptions, querier_undeclare,
     querier_get_matching_status, ReplyOptions, ReplyErrOptions, ReplyDelOptions,
     liveliness_undeclare_token, PublicationCacheOptions, publication_cache_undeclare,
     QueryingSubscriberOptions, querying_subscriber_get, AdvancedPublisherOptions,
     AdvancedSubscriberOptions, AdvancedPublisherPutOptions,
     AdvancedPublisherDeleteOptions, advanced_publisher_undeclare,
     advanced_publisher_get_matching_status, session_tasks, session_steps, admin_space,
     keyexpr_new, keyexpr_concat, keyexpr_join,
     config_create_default, config_from_file, config_from_str, config_from_env,
     config_get, config_insert_json5, config_insert, encoding_new, encoding_set_schema,
     memory_layout_new, alloc_layout, posix_shm_provider_new, ScoutOptions}

-----------------------------------------------------------------------------
(* Conversions that do more than copy.  A value of a field is a tuple.      *)

Default == <<"default">>

\* The values a caller may give to a field, the default aside.
Variants == {"sample_miss_detection", "last_sample_miss_detection", "start_background_tasks"}

Choices(f) ==
    IF f = "sample_miss_detection"
    THEN {<<"none">>} \cup ({"periodic", "sporadic"} \X Periods)
    ELSE IF f = "last_sample_miss_detection"
    THEN {<<"recovery">>, <<"heartbeat">>} \cup ({"periodic"} \X Periods)
    ELSE ({"all"} \X BOOLEAN) \cup ({"tasks"} \X BOOLEAN \X BOOLEAN)

Chosen(f) == IF f \in MovedField \cup LoanedField THEN <<"object">> ELSE <<"chosen">>

\* SampleMissDetectionOptions: a flag, a heartbeat mode and a period.
EncodeHeartbeat(v) ==
    IF v = Default         THEN <<FALSE, "none", 0>>
    ELSE IF v = <<"none">> THEN <<TRUE, "none", 0>>
    ELSE <<TRUE, v[1], v[2]>>

UnderstandHeartbeat(c) ==
    IF ~c[1]              THEN Default
    ELSE IF c[2] = "none" THEN <<"none">>
    ELSE <<c[2], c[3]>>

\* Mutant: the period is passed as it is.
EncodeRecovery_Raw(v) ==
    IF v = Default              THEN <<FALSE, FALSE, 0>>
    ELSE IF v = <<"recovery">>  THEN <<TRUE, FALSE, 0>>
    ELSE IF v = <<"heartbeat">> THEN <<TRUE, TRUE, 0>>
    ELSE <<TRUE, TRUE, v[2]>>

\* RecoveryOptions: two flags and a period, for which 0 stands for heartbeats,
\* so a period of 0 is passed as 1.
EncodeRecovery(v) ==
    IF v = Default              THEN <<FALSE, FALSE, 0>>
    ELSE IF v = <<"recovery">>  THEN <<TRUE, FALSE, 0>>
    ELSE IF v = <<"heartbeat">> THEN <<TRUE, TRUE, 0>>
    ELSE <<TRUE, TRUE, IF v[2] > 1 THEN v[2] ELSE 1>>

UnderstandRecovery(c) ==
    IF ~c[1]         THEN Default
    ELSE IF ~c[2]    THEN <<"recovery">>
    ELSE IF c[3] = 0 THEN <<"heartbeat">>
    ELSE <<"periodic", c[3]>>

\* start_background_tasks: the flags of the read and of the lease task; a bool
\* is about the read task only.
EncodeTasks(v) ==
    IF v = Default       THEN <<TRUE, FALSE>>
    ELSE IF v[1] = "all" THEN <<v[2], FALSE>>
    ELSE <<v[2], v[3]>>

Encode(f, v) ==
    IF f = "sample_miss_detection"           THEN EncodeHeartbeat(v)
    ELSE IF f = "last_sample_miss_detection" THEN EncodeRecovery(v)
    ELSE IF f = "start_background_tasks"     THEN EncodeTasks(v)
    ELSE v

\* What the C function makes of a member of its options.
Understand(f, c) ==
    IF f = "sample_miss_detection"           THEN UnderstandHeartbeat(c)
    ELSE IF f = "last_sample_miss_detection" THEN UnderstandRecovery(c)
    ELSE c

\* What the caller asks for with a value: a period of 0 is the shortest one, a
\* moved-from object is none, and a bool starts or does not start the read task.
Meaning(f, v) ==
    IF f = "start_background_tasks"
    THEN IF v[1] = "tasks" THEN <<v[2], v[3]>> ELSE <<v # <<"all", FALSE>>, FALSE>>
    ELSE IF f = "last_sample_miss_detection" /\ v = <<"periodic", 0>> THEN <<"periodic", 1>>
    ELSE IF v = <<"taken">> THEN Default
    ELSE v

-----------------------------------------------------------------------------
(* One caller and its options object.                                       *)

VARIABLES m,         \* the method
          given,     \* the arguments and options the caller started with
          opts,      \* their current values; an object that was moved is "taken"
          home,      \* the C++ object that holds the options: "caller" or "local"
          live,      \* the C++ objects that exist
          copts,     \* the C options: <<"val", v>>, <<"ptr", home>> or <<"null">>
          asked,     \* what the caller asks for in this call
          seen,      \* what the C function saw
          released,  \* how often each object was released
          result,    \* what the C function returned: "ok" or "failed"
          ret,       \* the returned value: "init", "real" or "garbage"
          mode,      \* "throw" when the err pointer is null, else "err"
          err,       \* *err
          pc,        \* the step of the call
          calls      \* calls made

vars == <<m, given, opts, home, live, copts, asked, seen, released, result, ret, mode,
          err, pc, calls>>

Names == m.args \cup m.fields
OwnedNames == m.args \cup (m.fields \cap (MovedField \cup LoanedField))
Consumed == m.args \cup (m.passed \cap MovedField)
Nothing == [f \in {} |-> Default]

\* Which fields a caller sets: few of them, or all.
Settings(meth) ==
    LET F == meth.fields
    IN  {S \in SUBSET F : Cardinality(S) <= MaxSet \/ S = F}

GivenValues(meth, S) ==
    {[n \in meth.args \cup meth.fields |->
        IF n \in meth.args            THEN <<"object">>
        ELSE IF n \in S \cap Variants THEN w[n]
        ELSE IF n \in S               THEN Chosen(n)
        ELSE Default] :
     w \in {v \in [S \cap Variants -> UNION {Choices(f) : f \in S \cap Variants}] :
               \A f \in S \cap Variants : v[f] \in Choices(f)}}

Init ==
    /\ m \in Methods
    /\ \E S \in Settings(m) : given \in GivenValues(m, S)
    /\ opts = given
    /\ home = "caller" /\ live = {"caller"}
    /\ copts = Nothing /\ asked = Nothing /\ seen = Nothing
    /\ released = [f \in OwnedNames |-> 0]
    /\ result = "ok" /\ ret = "init"
    /\ mode \in {"throw", "err"} /\ err \in {"ok", "failed"}
    /\ pc = "ready" /\ calls = 0

\* The method is entered; the listeners of link events move their options to a
\* local variable, and get_links takes its transport by value.
Enter ==
    /\ pc = "ready" /\ calls < MaxCalls
    /\ asked' = [f \in m.fields |-> Meaning(f, opts[f])]
    /\ home' = IF m.local THEN "local" ELSE "caller"
    /\ live' = live \cup {home'}
    /\ ret' = IF m.ret = "raw" THEN "garbage" ELSE "init"
    /\ pc' = "entered" /\ calls' = calls + 1
    /\ UNCHANGED <<m, given, opts, copts, seen, released, result, mode, err>>

\* Mutant: the converter takes the options by value, so the pointers are to its
\* parameter.
Converted_ByValue(f) ==
    IF f \notin MovedField \cup LoanedField \cup PointerField THEN <<"val", Encode(f, opts[f])>>
    ELSE IF opts[f] # Default THEN <<"ptr", "parameter">>
    ELSE <<"null">>

\* A member of the C struct: an empty optional is a null pointer.
Converted(f) ==
    IF f \notin MovedField \cup LoanedField \cup PointerField THEN <<"val", Encode(f, opts[f])>>
    ELSE IF opts[f] # Default THEN <<"ptr", home>>
    ELSE <<"null">>

to_c_opts ==
    /\ pc = "entered"
    /\ copts' = [f \in m.passed |-> Converted(f)]
    /\ pc' = "converted"
    /\ UNCHANGED <<m, given, opts, home, live, asked, seen, released, result, ret, mode,
                   err, calls>>

\* What the C function reads: a pointer to an object that is gone gives garbage.
Read(f) ==
    IF f \notin m.passed            THEN Meaning(f, Default)
    ELSE IF copts[f][1] = "val"     THEN Understand(f, copts[f][2])
    ELSE IF copts[f][1] = "null"    THEN Default
    ELSE IF copts[f][2] \notin live THEN <<"garbage">>
    ELSE Meaning(f, opts[f])

\* Mutant: the objects are handed over as loans.
Taken_Loaned(f) == FALSE

\* z_move: the C function takes the object and leaves a gravestone.
Taken(f) == f \in Consumed /\ opts[f] = <<"object">>

CFunction(res) ==
    /\ pc = "converted"
    /\ seen' = [f \in m.fields |-> Read(f)]
    /\ released' = [f \in OwnedNames |-> released[f] + (IF Taken(f) THEN 1 ELSE 0)]
    /\ opts' = [f \in Names |-> IF Taken(f) THEN <<"taken">> ELSE opts[f]]
    /\ result' = res
    /\ ret' = IF res = "ok" THEN "real" ELSE ret
    /\ pc' = "called"
    /\ UNCHANGED <<m, given, home, live, copts, asked, mode, err, calls>>

\* Mutant: *err is written only when the call failed.
ResultCheck_OnlyFailure ==
    /\ pc' = IF mode = "throw" /\ result # "ok" THEN "threw" ELSE "returned"
    /\ err' = IF mode = "err" /\ result # "ok" THEN result ELSE err

\* __ZENOH_RESULT_CHECK.
ResultCheck ==
    /\ pc' = IF mode = "throw" /\ result # "ok" THEN "threw" ELSE "returned"
    /\ err' = IF mode = "err" THEN result ELSE err

\* Mutant: a moved-from object is released again.
Dropped_Again(f) == f \in OwnedNames /\ opts[f] \in {<<"object">>, <<"taken">>}

\* ~Owned() of a field that still has its object.
Dropped(f) == f \in OwnedNames /\ opts[f] = <<"object">>

Release(F) ==
    /\ released' = [f \in OwnedNames |->
                        released[f] + (IF f \in F /\ Dropped(f) THEN 1 ELSE 0)]
    /\ opts' = [f \in Names |-> IF f \in F /\ Dropped(f) THEN <<"taken">> ELSE opts[f]]

\* The method returns or throws, and its local options are destroyed.
Leave ==
    /\ pc = "called"
    /\ ResultCheck
    /\ IF home = "local" THEN Release(m.fields) ELSE UNCHANGED <<released, opts>>
    /\ home' = "caller" /\ live' = live \ {"local"}
    /\ UNCHANGED <<m, given, copts, asked, seen, result, ret, mode, calls>>

\* The caller passes the same options and arguments again.
Again ==
    /\ pc \in {"returned", "threw"}
    /\ pc' = "ready"
    /\ UNCHANGED <<m, given, opts, home, live, copts, asked, seen, released, result, ret,
                   mode, err, calls>>

\* The caller's arguments and options go out of scope.
Destroy ==
    /\ pc \in {"ready", "returned", "threw"}
    /\ Release(Names)
    /\ live' = {}
    /\ pc' = "destroyed"
    /\ UNCHANGED <<m, given, home, copts, asked, seen, result, ret, mode, err, calls>>

Next ==
    \/ Enter \/ to_c_opts \/ (\E res \in {"ok", "failed"} : CFunction(res))
    \/ Leave \/ Again \/ Destroy

Spec == Init /\ [][Next]_vars

-----------------------------------------------------------------------------
(* Properties.                                                              *)

\* What the caller asked for is what the C function sees, for every field that
\* to_c_opts passes: each pointer is to an object that still exists, and each
\* encoding of a variant or an optional can be told from the others.
OptionsArrive ==
    pc = "called" => \A f \in m.passed : seen[f] = asked[f]

\* The same for every field of the options structs, which are documented as
\* settings of the call.
EveryFieldArrives ==
    pc = "called" => \A f \in m.fields \ {"priority", "congestion_control"} : seen[f] = asked[f]

\* An object given to a call, or to several calls one after the other, is
\* released once: by the C function that took it or by its own destructor.
ReleasedOnce ==
    \A f \in OwnedNames :
        released[f] = IF opts[f] = <<"taken">> THEN 1 ELSE 0

\* "If corresponding method is expected to return or consume (via std::move)
\* any objects, they will be reset to gravestone state" (error_handling.rst):
\* whatever the outcome, nothing that was to be consumed is left with the
\* caller, and a failed call returns no object.
FailureLeavesGravestones ==
    /\ pc \in {"returned", "threw"} => \A f \in Consumed : opts[f] # <<"object">>
    /\ pc \in {"returned", "threw"} /\ result # "ok" => ret # "real"
    /\ pc = "destroyed" => \A f \in OwnedNames : opts[f] # <<"object">>

\* The caller can tell whether the returned value was written: it was if no
\* exception came and *err, when there is one, is Z_OK.  The matching status and
\* the timestamp of a failed call are uninitialised, and so is the string that
\* Config::get reads.
CallerKnows ==
    /\ pc = "threw" => result # "ok"
    /\ pc = "returned" =>
         ((mode = "throw" \/ err = "ok") <=> result = "ok")
         /\ (mode = "throw" \/ err = "ok" => ret = "real")

=============================================================================

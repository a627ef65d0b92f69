---------------------------- MODULE CallsProofs ----------------------------
(***************************************************************************)
(* What holds of every call of Calls, for every method in Methods, however *)
(* many calls are made with one options object and whatever periods the    *)
(* caller gives.  The inductive invariant has one part for the values, one *)
(* for the owned objects, one for the pointers and the members of the C    *)
(* struct while a call is under way, and one for its outcome.              *)
(***************************************************************************)
EXTENDS Calls, TLAPS

-----------------------------------------------------------------------------
(* The methods.                                                             *)

\* The conversion assigns fields that the options have, and no field has the
\* name of an argument.
WellFormed(meth) ==
    /\ meth.passed \subseteq meth.fields
    /\ meth.args \cap meth.fields = {}

LEMMA MethodWellFormed ==
    ASSUME NEW args, NEW fields, NEW r, args \cap fields = {}
    PROVE  WellFormed(Method(args, fields, r))
BY DEF WellFormed, Method

LEMMA SessionMethods ==
    /\ WellFormed(SessionOptions) /\ WellFormed(declare_keyexpr)
    /\ WellFormed(undeclare_keyexpr) /\ WellFormed(GetOptions)
    /\ WellFormed(QueryableOptions) /\ WellFormed(SubscriberOptions)
    /\ WellFormed(DeleteOptions) /\ WellFormed(PutOptions)
    /\ WellFormed(PublisherOptions) /\ WellFormed(QuerierOptions)
    /\ WellFormed(get_routers_z_id) /\ WellFormed(get_peers_z_id)
    /\ WellFormed(get_transports) /\ WellFormed(get_links)
    /\ WellFormed(TransportEventsListenerOptions) /\ WellFormed(LinkEventsListenerOptions)
    /\ WellFormed(liveliness_declare_token) /\ WellFormed(LivelinessSubscriberOptions)
    /\ WellFormed(LivelinessGetOptions) /\ WellFormed(new_timestamp)
BY DEF WellFormed, Method, Routing, SessionOptions, declare_keyexpr, undeclare_keyexpr,
   GetOptions, QueryableOptions, SubscriberOptions, DeleteOptions, PutOptions,
   PublisherOptions, QuerierOptions, get_routers_z_id, get_peers_z_id, get_transports,
   get_links, TransportEventsListenerOptions, LinkEventsListenerOptions,
   liveliness_declare_token, LivelinessSubscriberOptions, LivelinessGetOptions,
   new_timestamp

LEMMA EntityMethods ==
    /\ WellFormed(PublisherPutOptions) /\ WellFormed(PublisherDeleteOptions)
    /\ WellFormed(publisher_undeclare) /\ WellFormed(publisher_get_matching_status)
    /\ WellFormed(QuerierGetOptions) /\ WellFormed(querier_undeclare)
    /\ WellFormed(querier_get_matching_status) /\ WellFormed(ReplyOptions)
    /\ WellFormed(ReplyErrOptions) /\ WellFormed(ReplyDelOptions)
    /\ WellFormed(liveliness_undeclare_token)
BY DEF WellFormed, Method, Routing, PublisherPutOptions, PublisherDeleteOptions,
   publisher_undeclare, publisher_get_matching_status, QuerierGetOptions,
   querier_undeclare, querier_get_matching_status, ReplyOptions, ReplyErrOptions,
   ReplyDelOptions, liveliness_undeclare_token

LEMMA ExtensionMethods ==
    /\ WellFormed(PublicationCacheOptions) /\ WellFormed(publication_cache_undeclare)
    /\ WellFormed(QueryingSubscriberOptions) /\ WellFormed(querying_subscriber_get)
    /\ WellFormed(AdvancedPublisherOptions) /\ WellFormed(AdvancedSubscriberOptions)
    /\ WellFormed(AdvancedPublisherPutOptions) /\ WellFormed(AdvancedPublisherDeleteOptions)
    /\ WellFormed(advanced_publisher_undeclare)
    /\ WellFormed(advanced_publisher_get_matching_status)
BY DEF WellFormed, Method, Extended, Routing, PublicationCacheOptions,
   publication_cache_undeclare, QueryingSubscriberOptions, querying_subscriber_get,
   GetOptions, AdvancedPublisherOptions, PublisherOptions, AdvancedSubscriberOptions,
   SubscriberOptions, AdvancedPublisherPutOptions, PublisherPutOptions,
   AdvancedPublisherDeleteOptions, PublisherDeleteOptions, advanced_publisher_undeclare,
   advanced_publisher_get_matching_status

LEMMA OtherMethods ==
    /\ WellFormed(session_tasks) /\ WellFormed(session_steps) /\ WellFormed(admin_space)
    /\ WellFormed(keyexpr_new) /\ WellFormed(keyexpr_concat) /\ WellFormed(keyexpr_join)
    /\ WellFormed(config_create_default) /\ WellFormed(config_from_file)
    /\ WellFormed(config_from_str) /\ WellFormed(config_from_env)
    /\ WellFormed(config_get) /\ WellFormed(config_insert_json5)
    /\ WellFormed(config_insert) /\ WellFormed(encoding_new)
    /\ WellFormed(encoding_set_schema) /\ WellFormed(memory_layout_new)
    /\ WellFormed(alloc_layout) /\ WellFormed(posix_shm_provider_new)
    /\ WellFormed(ScoutOptions)
BY MethodWellFormed DEF session_tasks, session_steps, admin_space, keyexpr_new,
   keyexpr_concat, keyexpr_join, config_create_default, config_from_file,
   config_from_str, config_from_env, config_get, config_insert_json5, config_insert,
   encoding_new, encoding_set_schema, memory_layout_new, alloc_layout,
   posix_shm_provider_new, ScoutOptions

LEMMA MethodsWellFormed == \A meth \in Methods : WellFormed(meth)
BY Zenon, SessionMethods, EntityMethods, ExtensionMethods, OtherMethods DEF Methods

-----------------------------------------------------------------------------
(* The conversions.                                                         *)

\* The values a caller may give to a field that is not an object.
PlainValues(f) ==
    {Default} \cup (IF f \in Variants THEN Choices(f) ELSE {<<"chosen">>})

LEMMA HeartbeatArrives ==
    ASSUME NEW v \in PlainValues("sample_miss_detection")
    PROVE  UnderstandHeartbeat(EncodeHeartbeat(v)) = v
<1> USE DEF EncodeHeartbeat, UnderstandHeartbeat
<1>1. CASE v = Default
  <2>1. EncodeHeartbeat(v) = <<FALSE, "none", 0>>
    BY <1>1
  <2> QED BY <1>1, <2>1
<1>2. CASE v = <<"none">>
  BY <1>2 DEF Default
<1>3. ASSUME NEW k \in {"periodic", "sporadic"}, NEW p \in Periods, v = <<k, p>>
      PROVE  UnderstandHeartbeat(EncodeHeartbeat(v)) = v
  BY <1>3 DEF Default
<1> QED BY <1>1, <1>2, <1>3 DEF PlainValues, Variants, Choices

LEMMA RecoveryArrives ==
    ASSUME NEW v \in PlainValues("last_sample_miss_detection")
    PROVE  UnderstandRecovery(EncodeRecovery(v))
             = IF v = <<"periodic", 0>> THEN <<"periodic", 1>> ELSE v
<1> USE DEF EncodeRecovery, UnderstandRecovery
<1>1. CASE v = Default
  <2>1. EncodeRecovery(v) = <<FALSE, FALSE, 0>>
    BY <1>1
  <2> QED BY <1>1, <2>1 DEF Default
<1>2. CASE v = <<"recovery">>
  <2>1. EncodeRecovery(v) = <<TRUE, FALSE, 0>>
    BY <1>2 DEF Default
  <2> QED BY <1>2, <2>1
<1>4. CASE v = <<"heartbeat">>
  <2>1. EncodeRecovery(v) = <<TRUE, TRUE, 0>>
    BY <1>4 DEF Default
  <2> QED BY <1>4, <2>1
<1>3. ASSUME NEW p \in Periods, v = <<"periodic", p>>
      PROVE  UnderstandRecovery(EncodeRecovery(v))
               = IF v = <<"periodic", 0>> THEN <<"periodic", 1>> ELSE v
  BY <1>3, CallBounds DEF Default
<1> QED BY <1>1, <1>2, <1>3, <1>4 DEF PlainValues, Variants, Choices

LEMMA TasksArrive ==
    ASSUME NEW v \in PlainValues("start_background_tasks")
    PROVE  EncodeTasks(v) =
             IF v[1] = "tasks" THEN <<v[2], v[3]>> ELSE <<v # <<"all", FALSE>>, FALSE>>
<1>1. CASE v = Default
  BY <1>1 DEF EncodeTasks, Default
<1>2. CASE v \in {"all"} \X BOOLEAN
  <2>1. PICK b \in BOOLEAN : v = <<"all", b>>
    BY <1>2
  <2> QED BY <2>1 DEF EncodeTasks, Default
<1>3. CASE v \in {"tasks"} \X BOOLEAN \X BOOLEAN
  <2>1. PICK b \in BOOLEAN, c \in BOOLEAN : v = <<"tasks", b, c>>
    BY <1>3
  <2> QED BY <2>1 DEF EncodeTasks, Default
<1> QED BY <1>1, <1>2, <1>3 DEF PlainValues, Variants, Choices

\* Every value of a field that is copied is understood as it was meant.
LEMMA ValueArrives ==
    ASSUME NEW f, NEW v \in PlainValues(f)
    PROVE  Understand(f, Encode(f, v)) = Meaning(f, v)
<1>1. CASE f = "sample_miss_detection"
  <2>1. v # <<"taken">>
    BY <1>1 DEF PlainValues, Variants, Choices, Default
  <2> QED BY <1>1, <2>1, HeartbeatArrives DEF Understand, Encode, Meaning
<1>2. CASE f = "last_sample_miss_detection"
  <2>1. v # <<"taken">>
    BY <1>2 DEF PlainValues, Variants, Choices, Default
  <2> QED BY <1>2, <2>1, RecoveryArrives DEF Understand, Encode, Meaning
<1>3. CASE f = "start_background_tasks"
  BY <1>3, TasksArrive DEF Understand, Encode, Meaning
<1>4. CASE f \notin Variants
  <2>1. v # <<"taken">>
    BY <1>4 DEF PlainValues, Default
  <2> QED BY <1>4, <2>1 DEF Understand, Encode, Meaning, Variants
<1> QED BY <1>1, <1>2, <1>3, <1>4 DEF Variants

-----------------------------------------------------------------------------
(* The inductive invariant.                                                 *)

\* The values of the arguments and options.  An owned one is an object, or the
\* gravestone it left, or was never given.
OwnedValue == {<<"object">>, <<"taken">>, Default}

ValuesOK ==
    /\ m \in Methods
    /\ opts = [f \in Names |-> opts[f]]
    /\ \A f \in Names : opts[f] \in IF f \in OwnedNames THEN OwnedValue ELSE PlainValues(f)

OwnersOK ==
    /\ released = [f \in OwnedNames |-> released[f]]
    /\ ReleasedOnce

\* While a call is under way, the options are in an object that exists and mean
\* what they did when it began, and the C struct is made of them.
CallOK ==
    /\ pc \in {"entered", "converted"} =>
         /\ home \in live
         /\ asked = [f \in m.fields |-> Meaning(f, opts[f])]
    /\ pc = "converted" => copts = [f \in m.passed |-> Converted(f)]
    /\ OptionsArrive

\* What the call has come to.
OutcomeOK ==
    /\ mode \in {"throw", "err"} /\ result \in {"ok", "failed"}
    /\ pc \in {"entered", "converted"} => ret # "real"
    /\ pc \in {"called", "returned", "threw"} => (result = "ok" <=> ret = "real")
    /\ pc = "threw" => result # "ok"
    /\ pc = "returned" => IF mode = "throw" THEN result = "ok" ELSE err = result

\* What was to be consumed is gone as soon as the C function was called.
GravestonesOK ==
    /\ pc \in {"called", "returned", "threw"} => \A f \in Consumed : opts[f] # <<"object">>
    /\ pc = "destroyed" => \A f \in OwnedNames : opts[f] # <<"object">>

IInv == ValuesOK /\ OwnersOK /\ CallOK /\ OutcomeOK /\ GravestonesOK

\* An owned object is one of the arguments and options, and everything that the C
\* function consumes is one.
LEMMA NamesOwned ==
    ASSUME m \in Methods
    PROVE  OwnedNames \subseteq Names /\ Consumed \subseteq OwnedNames
BY MethodsWellFormed DEF WellFormed, OwnedNames, Names, Consumed

\* A field that is copied is no object.
LEMMA CopiedIsPlain ==
    ASSUME ValuesOK, NEW f \in m.passed, f \notin MovedField \cup LoanedField
    PROVE  opts[f] \in PlainValues(f)
<1>1. f \in m.fields /\ f \notin m.args
  BY MethodsWellFormed DEF ValuesOK, WellFormed
<1>2. f \in Names /\ f \notin OwnedNames
  BY <1>1 DEF Names, OwnedNames
<1> QED BY <1>2 DEF ValuesOK

LEMMA InitInv == Init => IInv
<1> SUFFICES ASSUME Init PROVE IInv
  OBVIOUS
<1>1. PICK S \in Settings(m) : given \in GivenValues(m, S)
  BY DEF Init
<1>2. PICK w \in {v \in [S \cap Variants -> UNION {Choices(f) : f \in S \cap Variants}] :
                     \A f \in S \cap Variants : v[f] \in Choices(f)} :
        given = [n \in m.args \cup m.fields |->
                   IF n \in m.args            THEN <<"object">>
                   ELSE IF n \in S \cap Variants THEN w[n]
                   ELSE IF n \in S               THEN Chosen(n)
                   ELSE Default]
  BY <1>1 DEF GivenValues
<1>3. \A f \in S \cap Variants : w[f] \in Choices(f)
  BY <1>2
<1>4. ASSUME NEW f \in Names
      PROVE  opts[f] \in IF f \in OwnedNames THEN {<<"object">>, Default} ELSE PlainValues(f)
  <2>1. opts[f] = IF f \in m.args            THEN <<"object">>
                  ELSE IF f \in S \cap Variants THEN w[f]
                  ELSE IF f \in S               THEN Chosen(f)
                  ELSE Default
    BY <1>2 DEF Init, Names
  <2>2. CASE f \in m.args
    BY <2>1, <2>2 DEF OwnedNames
  <2>3. CASE f \notin m.args /\ f \in S \cap Variants
    BY <2>1, <2>3, <1>3 DEF OwnedNames, Variants, MovedField, LoanedField, PlainValues
  <2>4. CASE f \notin m.args /\ f \notin Variants
    BY <2>1, <2>4 DEF OwnedNames, Names, PlainValues, Chosen
  <2>5. CASE f \notin m.args /\ f \in Variants /\ f \notin S
    BY <2>1, <2>5 DEF OwnedNames, Variants, MovedField, LoanedField, PlainValues
  <2> QED BY <2>2, <2>3, <2>4, <2>5
<1>5. ValuesOK
  <2>1. m \in Methods
    BY DEF Init
  <2>2. opts = [f \in Names |-> opts[f]]
    BY <1>2 DEF Init, Names
  <2> QED BY <1>4, <2>1, <2>2 DEF ValuesOK, OwnedValue
<1>6. OwnersOK
  BY <1>4, NamesOwned DEF Init, OwnersOK, ReleasedOnce, Default
<1>7. CallOK /\ OutcomeOK /\ GravestonesOK
  BY DEF Init, CallOK, OptionsArrive, OutcomeOK, GravestonesOK
<1> QED BY <1>5, <1>6, <1>7 DEF IInv

-----------------------------------------------------------------------------
(* The steps.                                                               *)

LEMMA EnterKeeps == ASSUME IInv, Enter PROVE IInv'
<1>1. ValuesOK'
  BY DEF IInv, Enter, ValuesOK, Names, OwnedNames
<1>2. OwnersOK'
  BY DEF IInv, Enter, OwnersOK, ReleasedOnce, OwnedNames
<1>3. CallOK'
  BY DEF Enter, CallOK, OptionsArrive
<1>4. OutcomeOK'
  BY DEF IInv, Enter, OutcomeOK
<1>5. GravestonesOK'
  BY DEF Enter, GravestonesOK
<1> QED BY <1>1, <1>2, <1>3, <1>4, <1>5 DEF IInv

LEMMA ConvertKeeps == ASSUME IInv, to_c_opts PROVE IInv'
<1>1. ValuesOK'
  BY DEF IInv, to_c_opts, ValuesOK, Names, OwnedNames
<1>2. OwnersOK'
  BY DEF IInv, to_c_opts, OwnersOK, ReleasedOnce, OwnedNames
<1>3. CallOK'
  BY DEF IInv, to_c_opts, CallOK, OptionsArrive, Converted
<1>4. OutcomeOK'
  BY DEF IInv, to_c_opts, OutcomeOK
<1>5. GravestonesOK'
  BY DEF to_c_opts, GravestonesOK
<1> QED BY <1>1, <1>2, <1>3, <1>4, <1>5 DEF IInv

\* What the C function reads of a member is what the caller asked for.
LEMMA ReadIsMeant ==
    ASSUME IInv, pc = "converted", NEW f \in m.passed
    PROVE  Read(f) = Meaning(f, opts[f])
<1>1. copts[f] = Converted(f) /\ home \in live
  BY DEF IInv, CallOK
<1>2. CASE f \notin MovedField \cup LoanedField \cup PointerField
  <2>1. copts[f] = <<"val", Encode(f, opts[f])>>
    BY <1>1, <1>2 DEF Converted
  <2>2. opts[f] \in PlainValues(f)
    BY <1>2, CopiedIsPlain DEF IInv
  <2> QED BY <2>1, <2>2, ValueArrives DEF Read
<1>3. CASE f \in MovedField \cup LoanedField \cup PointerField /\ opts[f] # Default
  <2>1. copts[f] = <<"ptr", home>>
    BY <1>1, <1>3 DEF Converted
  <2> QED BY <1>1, <2>1 DEF Read
<1>4. CASE f \in MovedField \cup LoanedField \cup PointerField /\ opts[f] = Default
  <2>1. copts[f] = <<"null">>
    BY <1>1, <1>4 DEF Converted
  <2>2. Meaning(f, Default) = Default
    BY <1>4 DEF Meaning, Default, MovedField, LoanedField, PointerField
  <2> QED BY <1>4, <2>1, <2>2 DEF Read
<1> QED BY <1>2, <1>3, <1>4

LEMMA CFunctionKeeps ==
    ASSUME IInv, NEW res \in {"ok", "failed"}, CFunction(res)
    PROVE  IInv'
<1>0. OwnedNames \subseteq Names /\ Consumed \subseteq OwnedNames
  BY NamesOwned DEF IInv, ValuesOK
<1>1. ValuesOK'
  BY <1>0 DEF IInv, CFunction, ValuesOK, Names, OwnedNames, Taken, OwnedValue
<1>2. OwnersOK'
  <2>1. OwnedNames' = OwnedNames /\ released' = [f \in OwnedNames |-> released'[f]]
    BY DEF CFunction, OwnedNames
  <2>2. ASSUME NEW f \in OwnedNames
        PROVE  released'[f] = IF opts'[f] = <<"taken">> THEN 1 ELSE 0
    <3>1. f \in Names /\ released[f] = IF opts[f] = <<"taken">> THEN 1 ELSE 0
      BY <1>0 DEF IInv, OwnersOK, ReleasedOnce
    <3>2. Taken(f) => opts[f] = <<"object">>
      BY DEF Taken
    <3>3. /\ released'[f] = released[f] + (IF Taken(f) THEN 1 ELSE 0)
          /\ opts'[f] = IF Taken(f) THEN <<"taken">> ELSE opts[f]
      BY <3>1 DEF CFunction
    <3> QED BY <3>1, <3>2, <3>3
  <2> QED BY <2>1, <2>2 DEF OwnersOK, ReleasedOnce
<1>3. CallOK'
  <2>1. ASSUME NEW f \in m.passed PROVE seen'[f] = asked'[f]
    <3>1. f \in m.fields
      BY MethodsWellFormed DEF IInv, ValuesOK, WellFormed
    <3>2. asked[f] = Meaning(f, opts[f])
      BY <3>1 DEF IInv, CallOK, CFunction
    <3> QED BY <3>1, <3>2, ReadIsMeant DEF CFunction
  <2> QED BY <2>1 DEF CFunction, CallOK, OptionsArrive
<1>4. OutcomeOK'
  BY DEF IInv, CFunction, OutcomeOK
<1>5. GravestonesOK'
  BY <1>0 DEF CFunction, GravestonesOK, Consumed, Names, Taken
<1> QED BY <1>1, <1>2, <1>3, <1>4, <1>5 DEF IInv

\* Releasing what is left of some of the objects.
LEMMA ReleaseKeeps ==
    ASSUME ValuesOK, OwnersOK, NEW F, Release(F), m' = m
    PROVE  /\ ValuesOK' /\ OwnersOK'
           /\ \A f \in Names : opts[f] # <<"object">> => opts'[f] # <<"object">>
           /\ \A f \in F \cap OwnedNames : opts'[f] # <<"object">>
<1>0. OwnedNames \subseteq Names
  BY NamesOwned DEF ValuesOK
<1>1. ValuesOK'
  BY <1>0 DEF ValuesOK, Release, Dropped, Names, OwnedNames, OwnedValue
<1>2. OwnersOK'
  <2>1. OwnedNames' = OwnedNames /\ released' = [f \in OwnedNames |-> released'[f]]
    BY DEF Release, OwnedNames
  <2>2. ASSUME NEW f \in OwnedNames
        PROVE  released'[f] = IF opts'[f] = <<"taken">> THEN 1 ELSE 0
    <3>1. f \in Names /\ released[f] = IF opts[f] = <<"taken">> THEN 1 ELSE 0
      BY <1>0 DEF OwnersOK, ReleasedOnce
    <3>2. Dropped(f) => opts[f] = <<"object">>
      BY DEF Dropped
    <3>3. /\ released'[f] = released[f] + (IF f \in F /\ Dropped(f) THEN 1 ELSE 0)
          /\ opts'[f] = IF f \in F /\ Dropped(f) THEN <<"taken">> ELSE opts[f]
      BY <3>1 DEF Release
    <3> QED BY <3>1, <3>2, <3>3
  <2> QED BY <2>1, <2>2 DEF OwnersOK, ReleasedOnce
<1>3. \A f \in Names : opts[f] # <<"object">> => opts'[f] # <<"object">>
  BY DEF Release
<1>4. \A f \in F \cap OwnedNames : opts'[f] # <<"object">>
  BY <1>0 DEF Release, Dropped
<1> QED BY <1>1, <1>2, <1>3, <1>4

LEMMA LeaveKeeps == ASSUME IInv, Leave PROVE IInv'
<1>1. /\ ValuesOK' /\ OwnersOK'
      /\ \A f \in Names : opts[f] # <<"object">> => opts'[f] # <<"object">>
  <2>1. CASE home = "local"
    BY <2>1, ReleaseKeeps DEF IInv, Leave
  <2>2. CASE home # "local"
    BY <2>2 DEF IInv, Leave, ValuesOK, OwnersOK, ReleasedOnce, Names, OwnedNames
  <2> QED BY <2>1, <2>2
<1>2. pc' \in {"returned", "threw"}
  BY DEF Leave, ResultCheck
<1>3. CallOK'
  BY <1>2 DEF CallOK, OptionsArrive
<1>4. OutcomeOK'
  BY DEF IInv, Leave, ResultCheck, OutcomeOK
<1>5. GravestonesOK'
  <2>1. Consumed' = Consumed /\ Consumed \subseteq Names
    BY NamesOwned DEF IInv, ValuesOK, Leave, Consumed
  <2> QED BY <1>1, <1>2, <2>1 DEF IInv, Leave, GravestonesOK
<1> QED BY <1>1, <1>3, <1>4, <1>5 DEF IInv

LEMMA AgainKeeps == ASSUME IInv, Again PROVE IInv'
<1>1. ValuesOK' /\ OwnersOK'
  BY DEF IInv, Again, ValuesOK, OwnersOK, ReleasedOnce, Names, OwnedNames
<1>2. CallOK' /\ OutcomeOK' /\ GravestonesOK'
  BY DEF IInv, Again, CallOK, OptionsArrive, OutcomeOK, GravestonesOK
<1> QED BY <1>1, <1>2 DEF IInv

LEMMA DestroyKeeps == ASSUME IInv, Destroy PROVE IInv'
<1>1. /\ ValuesOK' /\ OwnersOK'
      /\ \A f \in Names \cap OwnedNames : opts'[f] # <<"object">>
  BY ReleaseKeeps DEF IInv, Destroy
<1>2. CallOK' /\ OutcomeOK'
  BY DEF IInv, Destroy, CallOK, OptionsArrive, OutcomeOK
<1>3. GravestonesOK'
  <2>1. OwnedNames' = OwnedNames /\ OwnedNames \subseteq Names
    BY NamesOwned DEF IInv, ValuesOK, Destroy, OwnedNames
  <2> QED BY <1>1, <2>1 DEF Destroy, GravestonesOK
<1> QED BY <1>1, <1>2, <1>3 DEF IInv

LEMMA NextKeeps == ASSUME IInv, [Next]_vars PROVE IInv'
<1>1. CASE Next
  BY <1>1, EnterKeeps, ConvertKeeps, CFunctionKeeps, LeaveKeeps, AgainKeeps, DestroyKeeps
     DEF Next
<1>2. CASE UNCHANGED vars
  BY <1>2 DEF vars, IInv, ValuesOK, OwnersOK, CallOK, OutcomeOK, GravestonesOK,
     ReleasedOnce, OptionsArrive, Names, OwnedNames, Consumed, Converted
<1> QED BY <1>1, <1>2

-----------------------------------------------------------------------------
(* The theorems.                                                            *)

\* The inductive invariant holds throughout.
THEOREM CallInvariant == Spec => []IInv
<1>1. Init => IInv
  BY InitInv
<1>2. IInv /\ [Next]_vars => IInv'
  BY NextKeeps
<1> QED BY <1>1, <1>2, PTL DEF Spec

\* For every method, every period and any number of calls with one options
\* object, the C function sees what the caller asked for in each field that
\* to_c_opts passes.
THEOREM CallsArrive == Spec => []OptionsArrive
<1>1. IInv => OptionsArrive
  BY DEF IInv, CallOK
<1> QED BY <1>1, CallInvariant, PTL

\* Every object that was given to a call is released exactly once.
THEOREM ObjectsReleasedOnce == Spec => []ReleasedOnce
<1>1. IInv => ReleasedOnce
  BY DEF IInv, OwnersOK
<1> QED BY <1>1, CallInvariant, PTL

\* After a call, failed or not, the objects it consumes are gravestones, and a
\* failed call returns no object.
THEOREM ConsumedEvenOnFailure == Spec => []FailureLeavesGravestones
<1>1. IInv => FailureLeavesGravestones
  BY DEF IInv, GravestonesOK, OutcomeOK, FailureLeavesGravestones
<1> QED BY <1>1, CallInvariant, PTL

\* The exception or *err tells the caller whether the returned value was written.
THEOREM OutcomeIsReported == Spec => []CallerKnows
<1>1. IInv => CallerKnows
  BY DEF IInv, OutcomeOK, CallerKnows
<1> QED BY <1>1, CallInvariant, PTL

=============================================================================

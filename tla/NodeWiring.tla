----------------------------- MODULE NodeWiring -----------------------------
(***************************************************************************)
(* Where the callbacks of what a node creates run, and on which topics:     *)
(* the callback groups and the create_* functions of wxz::framework::Node   *)
(* (include/framework/node.h).  Each function has an overload without a     *)
(* place, with a CallbackGroup, with a pointer to one that may be null, and *)
(* with a Strand or an Executor; `how' says which overload is called.       *)
(***************************************************************************)
CONSTANTS Exclusive,  \* callback groups of type MutuallyExclusive
          Reentrant,  \* callback groups of type Reentrant
          Default,    \* the default group, one of Exclusive
          Executor,   \* the node's executor
          Null        \* a CallbackGroupPtr that is null

ASSUME WiringAssumption == /\ Default \in Exclusive
                           /\ Executor \notin Exclusive
                           /\ Null \notin Exclusive \cup Reentrant
                           /\ Exclusive \cap Reentrant = {}

Groups == Exclusive \cup Reentrant

\* An exclusive group has a strand, which bears its name here; the default
\* group's is default_strand_.
Schedulers == Exclusive \cup {Executor}

\* group.strand() ? *group.strand() : *group.executor()
SchedulerOf(group) == IF group \in Exclusive THEN group ELSE Executor

resolve_group(pointer) == IF pointer = Null THEN Default ELSE pointer

\* The overloads by which a caller can ask for a group.
Ways(group) ==
    {[by |-> "group", to |-> group], [by |-> "pointer", to |-> group]}
    \cup (IF group = Default
          THEN {[by |-> "none"], [by |-> "pointer", to |-> Null]} ELSE {})
    \cup {IF group \in Exclusive THEN [by |-> "strand", to |-> group]
          ELSE [by |-> "executor"]}

OnGroup(how) == CASE how.by = "group"   -> SchedulerOf(how.to)
                  [] how.by = "pointer" -> SchedulerOf(resolve_group(how.to))

-----------------------------------------------------------------------------
(* RPC: a topic that is not given is derived from the service's name. *)

Given(topic, default) == IF topic = "" THEN default ELSE topic

Topics(opts) == [request |-> Given(opts.request, <<opts.service, "request">>),
                 reply |-> Given(opts.reply, <<opts.service, "reply">>)]

\* The overloads with RpcService::Options end in create_service_on.
ServiceByOptions(how, opts) ==
    [topics |-> Topics(opts),
     runs |-> CASE how.by = "none" -> SchedulerOf(Default)
                [] how.by = "executor" -> Executor
                [] how.by = "strand" -> how.to
                [] OTHER -> OnGroup(how)]

\* Those with a name bind the default strand first, and another one over it.
ServiceByName(how, opts) ==
    [topics |-> Topics(opts),
     runs |-> CASE how.by = "executor" -> Executor
                [] how.by = "strand" -> how.to
                [] how.by \in {"group", "pointer"} -> OnGroup(how)
                [] OTHER -> Default]

ClientByOptions(how, opts) ==
    [topics |-> Topics(opts),
     runs |-> CASE how.by = "none" -> SchedulerOf(Default)
                [] how.by = "executor" -> Executor
                [] how.by = "strand" -> how.to
                [] OTHER -> OnGroup(how)]

ClientByName(how, opts) ==
    [topics |-> Topics(opts),
     runs |-> CASE how.by = "executor" -> Executor
                [] how.by = "strand" -> how.to
                [] how.by \in {"group", "pointer"} -> OnGroup(how)
                [] OTHER -> Default]

\* create_service_shared and create_client_shared, by name only.
ServiceShared(how, opts) == ServiceByName(how, opts)
ClientShared(how, opts) == ClientByName(how, opts)

-----------------------------------------------------------------------------
(* Subscriptions. *)

\* Mutation: the overload for groups takes the executor of the group.
Bug_EventSubscriptionOn(how) == IF how.by = "strand" THEN how.to ELSE Executor

\* create_subscription_eventdto_on
EventSubscriptionOn(how) == CASE how.by = "executor" -> Executor
                              [] how.by = "strand" -> how.to
                              [] OTHER -> OnGroup(how)

\* create_subscription_eventdto
EventSubscription(how) == IF how.by = "none" THEN Default
                          ELSE EventSubscriptionOn(how)

TextSubscriptionOn(how) == CASE how.by = "executor" -> Executor
                             [] how.by = "strand" -> how.to
                             [] OTHER -> OnGroup(how)

TextSubscription(how) == IF how.by = "none" THEN Default
                         ELSE TextSubscriptionOn(how)

\* The create_*_shared overloads own what the others create.
EventSubscriptionShared(how) == EventSubscription(how)
TextSubscriptionShared(how) == TextSubscription(how)

\* The scheduler of an entity of each kind that is created in this way.
RunsOn(kind, how, opts) ==
    CASE kind = "event" -> {EventSubscription(how),
                             EventSubscriptionShared(how)}
      [] kind = "text" -> {TextSubscription(how),
                            TextSubscriptionShared(how)}
      [] kind = "service" -> {ServiceByOptions(how, opts).runs,
                              ServiceByName(how, opts).runs,
                              ServiceShared(how, opts).runs}
      [] kind = "client" -> {ClientByOptions(how, opts).runs,
                             ClientByName(how, opts).runs,
                             ClientShared(how, opts).runs}
=============================================================================

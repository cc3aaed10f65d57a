------------------------------- MODULE MCNode -------------------------------
EXTENDS Node

CONSTANTS w1, g0, g1, g2

NoOpts == [service |-> "", request |-> "", reply |-> ""]
Entity(name, kind, group) == [name |-> name, kind |-> kind, group |-> group,
                              schema |-> name = "ev", opts |-> NoOpts]
Rpc(name, kind, group) == [name |-> name, kind |-> kind, group |-> group,
                           schema |-> FALSE,
                           opts |-> [NoOpts EXCEPT !.service = "s"]]

Fault(name, service, active) ==
    [fault |-> name, service |-> service, severity |-> "error",
     active |-> active]
Rule(fault, service, action) ==
    [fault |-> fault, service |-> service, severity |-> "", action |-> action]

Case(workers, entities, timers, periods, rules, published) ==
    [service |-> "me", workers |-> workers, entities |-> entities,
     timers |-> timers, reports |-> periods, rules |-> rules,
     faults |-> published,
     clock |-> timers # << >>]

Timer(name, period) == [name |-> name, period |-> period]
NoReport == [r \in {} |-> 0]

MCWorlds == {
    \* two subscriptions in a group, by any overload, on two threads
    Case({w1}, <<Entity("ev", "event", g1), Entity("tx", "text", g1)>>, << >>,
         NoReport, << >>, << >>),
    \* a reentrant group
    Case({w1}, <<Entity("ev", "event", g2)>>, << >>, NoReport, << >>, << >>),
    \* two timers, whose group is the default one
    Case({w1}, << >>, <<Timer("t1", 1), Timer("t2", 2)>>,
         NoReport, << >>, << >>),
    \* the default group on the main thread alone, with late ticks
    Case({}, <<Entity("tx", "text", g0)>>, <<Timer("t1", 2)>>,
         [heartbeat |-> 3, health |-> 0], << >>, << >>),
    \* a service, its client and a subscription in the default group
    Case({w1}, <<Rpc("sv", "service", g0), Rpc("cl", "client", g0)>>, << >>,
         NoReport, << >>, << >>),
    \* faults
    Case({w1}, <<Entity("tx", "text", g0)>>, << >>, NoReport,
         <<Rule("f1", "", "log"), Rule("f1", "me", "degrade"),
           Rule("f2", "", "restart"), Rule("", "me", "degrade")>>,
         <<Fault("f1", "", TRUE), Fault("f2", "you", FALSE),
           Fault("f2", "you", TRUE)>>)}
=============================================================================

------------------------------- MODULE MCRpc -------------------------------
EXTENDS Rpc, TLC

CONSTANTS a, b, ta, tb

OneClient == [t \in Callers |-> a]

OwnPrefix == (a :> "a")

World(sched, pat, cs, n, m) ==
    [scheduled |-> sched, patient |-> pat, callers |-> cs, starts |-> n,
     serves |-> m]

(* Two calls at once; two calls around a restart of the client; two calls   *)
(* around a restart of the server, on an executor and on the listener.      *)
MCWorlds == {World(FALSE, TRUE, {ta, tb}, 1, 1),
             World(TRUE, TRUE, {ta}, 2, 1),
             World(TRUE, TRUE, {ta}, 1, 2),
             World(FALSE, FALSE, {ta}, 1, 2)}
=============================================================================

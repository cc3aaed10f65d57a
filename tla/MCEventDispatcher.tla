-------------------------- MODULE MCEventDispatcher --------------------------
EXTENDS EventDispatcher, TLC

CONSTANTS io1, cpu1

MCPoolOf == (io1 :> "io") @@ (cpu1 :> "cpu")

Options(router, size, blk, drop, max, pblk, retries, timed, n) ==
    [router |-> router, max_size |-> size, block |-> blk, drop_oldest |-> drop,
     max_queue |-> max, pool_block |-> pblk, max_retries |-> retries,
     timed_pop |-> timed, max_starts |-> n]

OneLane == [e \in 1..4 |-> "cpu"]
TwoLanes == <<"cpu", "io", "cpu">>

(* The cycle of two blocking queues, with as many events as it takes to     *)
(* close it; the queue that drops its oldest; the queue that refuses; and   *)
(* the unbounded pools with the 256 retries that come to none.             *)
MCConfigs == {Options(OneLane, 1, TRUE, TRUE, 1, TRUE, 1, FALSE, 2),
              Options(TwoLanes, 1, FALSE, TRUE, 1, FALSE, 1, TRUE, 3),
              Options(<<"cpu", "io">>, 1, FALSE, FALSE, 1, TRUE, 1, FALSE, 3),
              Options(TwoLanes, 1, TRUE, FALSE, 0, TRUE, 256, TRUE, 3)}
=============================================================================

----------------------------- MODULE MCExecutor -----------------------------
EXTENDS Executor

CONSTANTS w1, w2

Config(ws, n, block, nest) == [threads |-> ws, max_queue |-> n,
                               block_when_full |-> block, nested |-> nest]

(* One executor per row: the blocking pool, the single worker whose tasks   *)
(* post to it, the pool that rejects when full, the executor a client       *)
(* drives, and the unbounded queue.                                        *)
MCConfigs == {Config({w1, w2}, 1, TRUE, FALSE),
              Config({w1}, 1, TRUE, TRUE),
              Config({w1, w2}, 2, FALSE, TRUE),
              Config({}, 1, TRUE, FALSE),
              Config({w1}, 0, TRUE, TRUE)}

=============================================================================

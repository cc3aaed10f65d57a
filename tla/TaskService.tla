---------------------------- MODULE TaskService ----------------------------
(***************************************************************************)
(* What an executor promises, without its threads, locks and condition     *)
(* variables: a task that is submitted waits its turn, tasks are taken in   *)
(* the order in which they were submitted, each one once, and at most one   *)
(* runs in each slot.  A slot is a thread that can run a task, so           *)
(* Executor (one slot per thread) and Strand (a single slot) implement the  *)
(* same specification.                                                     *)
(***************************************************************************)
EXTENDS Sequences

CONSTANTS Tasks,     \* the closures that may be submitted, each at most once
          Slots,     \* what can run one task at a time
          None,      \* no task
          Discards   \* whether waiting tasks can be thrown away

VARIABLES queue,     \* the tasks that wait, oldest first
          slot,      \* the task that each slot is running, or None
          finished,  \* the tasks that have returned
          dropped    \* the tasks thrown away before they ran

tsVars == <<queue, slot, finished, dropped>>

InSeq(s) == {s[i] : i \in DOMAIN s}

Known == InSeq(queue) \cup {slot[s] : s \in Slots} \cup finished \cup dropped

Init == /\ queue = <<>>
        /\ slot = [s \in Slots |-> None]
        /\ finished = {}
        /\ dropped = {}

Submit(k) == /\ k \notin Known
             /\ queue' = Append(queue, k)
             /\ UNCHANGED <<slot, finished, dropped>>

Begin(s) == /\ queue # <<>>
            /\ slot[s] = None
            /\ slot' = [slot EXCEPT ![s] = Head(queue)]
            /\ queue' = Tail(queue)
            /\ UNCHANGED <<finished, dropped>>

End(s) == /\ slot[s] # None
          /\ finished' = finished \cup {slot[s]}
          /\ slot' = [slot EXCEPT ![s] = None]
          /\ UNCHANGED <<queue, dropped>>

Discard == /\ Discards
           /\ dropped' = dropped \cup InSeq(queue)
           /\ queue' = <<>>
           /\ UNCHANGED <<slot, finished>>

Next == \/ \E k \in Tasks : Submit(k)
        \/ \E s \in Slots : Begin(s) \/ End(s)
        \/ Discard

Spec == Init /\ [][Next]_tsVars
=============================================================================

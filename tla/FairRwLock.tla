----------------------------- MODULE FairRwLock ------------------------------
(***************************************************************************)
(* tokio's RwLock as the code uses it: tasks queue in the order in which   *)
(* they ask, readers at the front of the queue share the lock, a writer    *)
(* has it alone, and a reader that asks after a waiting writer waits too.  *)
(* A lock is the queue of those that hold or await it.                     *)
(***************************************************************************)
EXTENDS Naturals, SequencesExt

Free == <<>>

Ask(queue, task, mode) == Append(queue, [by |-> task, mode |-> mode])

Held(queue, task) ==
    \E i \in DOMAIN queue :
        /\ queue[i].by = task
        /\ i = 1 \/ \A j \in 1 .. i : queue[j].mode = "read"

Queued(queue, task) == \E i \in DOMAIN queue : queue[i].by = task

\* The place of a task, which is in a queue once at most.
Place(queue, task) == CHOOSE i \in DOMAIN queue : queue[i].by = task

Leave(queue, task) == RemoveAt(queue, Place(queue, task))

Queue(tasks) == Seq([by : tasks, mode : {"read", "write"}])
=============================================================================

---------------------------- MODULE NamespacesInv -----------------------------
(***************************************************************************)
(* The inductive invariant of Namespaces: where each kind of task may be,  *)
(* who is in the queue of which lock, and what the log, the states and the *)
(* batchers have to do with each other.                                    *)
(***************************************************************************)
EXTENDS Namespaces

CreatePoints == {"check", "put", "insert", "batcher"}
DeletePoints == {"check", "list", "erase", "remove", "unbatch"}
WritePoints  == {"lookup", "submit", "window", "find", "flush", "apply", "meta"}

\* The points at which a task is in the queue of a lock.
MapPoints   == {"check", "insert", "remove", "find", "enter", "read", "again", "swap"}
StatePoints == {"flush", "apply", "meta", "read", "swap"}

\* Where a task has put its batch into the log, which it holds alone, and
\* where it has a batch at all.
LoggedPoints == {"apply", "meta"}
BatchPoints  == {"find", "flush"} \cup LoggedPoints

\* A task is at a point of its job, has what it found by then, and no more;
\* nothing runs while the server is down.
TaskOK(n) ==
    /\ n \in Live =>
         /\ job[n] = "create" => pc[n] \in CreatePoints
         /\ job[n] = "delete" => pc[n] \in DeletePoints
         /\ job[n] = "write" => pc[n] \in WritePoints
         /\ job[n] = "read" => pc[n] \in {"enter", "read"}
         /\ job[n] = "reload" => pc[n] \in {"enter", "read", "again", "swap"}
         /\ answer[n] = Unanswered
         /\ up
         /\ (mine[n].state # 0) = (pc[n] \in StatePoints)
    /\ pc[n] = "idle" => answer[n] = Unanswered /\ job[n] = "read"
    /\ pc[n] \in {"idle", "lookup"} => mine[n] = NothingFound
    /\ pc[n] \in {"submit", "window"} => mine[n].batcher # 0
    /\ pc[n] \notin BatchPoints \cup {"answered"} => mine[n].ops = <<>>

TaskShape == \A n \in Tasks : TaskOK(n)

By(queue) == {queue[i].by : i \in DOMAIN queue}

\* Nobody is in a queue twice.
Once(queue) == \A i, j \in DOMAIN queue : queue[i].by = queue[j].by => i = j

MapQueue ==
    /\ Once(mapLock)
    /\ \A n \in Tasks : n \in By(mapLock) <=> pc[n] \in MapPoints

\* A task is in the queue of the state it has found, as a writer unless it
\* reads, and at the front of it once its batch is in the log.
InStateQueue(g, e) ==
    /\ pc[e.by] \in StatePoints /\ mine[e.by].state = g
    /\ e.mode = IF pc[e.by] = "read" THEN "read" ELSE "write"

StateQueues ==
    /\ \A g \in DOMAIN stateLocks :
         Once(stateLocks[g]) /\ \A e \in Range(stateLocks[g]) : InStateQueue(g, e)
    /\ \A n \in Tasks : pc[n] \in StatePoints =>
         LET queue == stateLocks[mine[n].state] IN
           /\ n \in By(queue)
           /\ pc[n] \in LoggedPoints => queue[1].by = n

\* The generations together fill the log without a hole; every state ever
\* made is the replay of a prefix of it; a batch that waits to be applied is
\* the entry after that prefix.
LogShape == DOMAIN wal = 1 .. Cardinality(DOMAIN wal)

OfTheLog(state) ==
    /\ 1 .. state.walSeq \subseteq DOMAIN wal
    /\ ReplayOf(wal, state.walSeq, state.docs, state.seqs)

ReplayShape ==
    /\ \A g \in DOMAIN states : OfTheLog(states[g])
    /\ \A n \in Tasks :
         /\ pc[n] = "apply" => NextSeq(n) \in DOMAIN wal /\ wal[NextSeq(n)] = mine[n].ops
         /\ pc[n] \in LoggedPoints => \E s \in DOMAIN wal : wal[s] = mine[n].ops

\* The operation of a write waits in its batcher, is in the log, or in a batch
\* whose task has not been told Ok.
Waiting(n) ==
    LET buffer == buffers[mine[n].batcher] IN \E i \in DOMAIN buffer : buffer[i].req = n

Somewhere(n) == Logged(n) \/ \E m \in Tasks : InBatch(n, m) /\ answer[m] # Ok

AckShape ==
    \A n \in Tasks :
        /\ pc[n] = "window" => Waiting(n) \/ Somewhere(n)
        /\ pc[n] \in BatchPoints => Somewhere(n)
        /\ job[n] = "write" /\ answer[n] = Ok /\ mine[n].batcher # 0 => Somewhere(n)

\* A request to meta.bin outlives its task only when the task has ended, a
\* deletion without success.
LateShape ==
    \A n \in late : pc[n] = "answered" /\ (job[n] = "delete" => n \in Unsettled)

\* Without overlaps those that change the maps all create or all delete, and
\* how far each has got tells what the maps and the store say of the namespace.
Changers == {n \in Live : job[n] \in Lifecycle}

Restartable == meta \/ Unsettled # {}

Stage(n) ==
    /\ pc[n] = "insert" => Restartable
    /\ pc[n] = "batcher" => namespaces # 0
    /\ pc[n] = "unbatch" => namespaces = 0

LifeShape ==
    ~overlapped =>
        /\ \A m, n \in Changers : job[m] = job[n]
        /\ \A n \in Changers : Stage(n)
        /\ MapsAgree

NsInv ==
    /\ NsTypeOK /\ TaskShape
    /\ MapQueue /\ StateQueues
    /\ LogShape /\ ReplayShape
    /\ AckShape /\ LateShape /\ LifeShape
=============================================================================

------------------------------ MODULE Namespaces ------------------------------
(***************************************************************************)
(* The life of one namespace name on a tpuf-server: HTTP requests create   *)
(* and delete it, write to it, read it and list it, and the reload task    *)
(* visits it, all at once, while the server may crash and start again.     *)
(*                                                                         *)
(* A name is looked up in two maps, namespaces and batchers, that are      *)
(* changed one after the other; each creation or start makes a new         *)
(* NamespaceState and a new WriteBatcher (here: the next generation), and  *)
(* tasks keep those they found.  The store's objects have the name alone   *)
(* for a key, so that all generations share them.                          *)
(*                                                                         *)
(* Tasks interleave at the awaits: the locks (fair, see FairRwLock), the   *)
(* batch window and the requests to the store.  A client may disconnect,   *)
(* which drops its handler at an await; a request to meta.bin may fail, or *)
(* reach the store after its task has ended.  WAL PUTs of unknown outcome  *)
(* and vector lengths are WritePath's; the index a reload brings is        *)
(* HotReload's.                                                            *)
(***************************************************************************)
EXTENDS WalReplay, FairRwLock

CONSTANTS
    Writes,       \* the writes a request may carry
    MaxLive,      \* bound: requests in progress at once
    MaxCrashes,   \* bound: number of server crashes
    MaxDrops      \* bound: no client goes away once so many requests went unanswered

\* Requests start in the order of their numbers; 0 wrote what the store holds
\* at the beginning.
ASSUME ReqsAssumption == Reqs \subseteq Nat /\ 0 \in Reqs /\ IsFiniteSet(Reqs)
ASSUME WritesAssumption == Writes # {} /\ Writes \subseteq Write
ASSUME BoundsAssumption == MaxLive \in Nat /\ MaxCrashes \in Nat /\ MaxDrops \in Nat

VARIABLES
    \* the server process
    up,
    states,      \* the NamespaceStates made since the start
    buffers,     \* the BatchStates made since the start
    namespaces, batchers,   \* the generation the maps name, 0 without an entry
    mapLock,     \* the RwLock around namespaces
    stateLocks,  \* the RwLock around each NamespaceState
    \* the tasks
    job, pc,
    mine,        \* what a task has found: batcher, state and batch
    answer,      \* HTTP status
    \* the object store
    wal,
    meta,        \* meta.bin exists
    late,        \* tasks gone while their request to meta.bin may still arrive
    \* bookkeeping
    crashes,
    overlapped,  \* history: a creation has met a deletion since the start
    parted       \* history: one was dropped between its changes of the two maps

maps == <<namespaces, batchers>>
serverVars == <<up, states, buffers, maps>>
locks == <<mapLock, stateLocks>>
taskVars == <<job, pc, mine, answer>>
storeVars == <<wal, meta, late>>
history == <<overlapped, parted>>
vars == <<serverVars, locks, taskVars, storeVars, crashes, history>>

Tasks == Reqs \ {0}

Lifecycle == {"create", "delete"}
Jobs == Lifecycle \cup {"write", "read", "reload"}

\* ApiError::into_response, and the handlers' own status codes.
Ok == 200
Created == 201
NoContent == 204
NotFound == 404
AlreadyExists == 409
StorageError == 500
Unanswered == 0
Answers == {Unanswered, Ok, Created, NoContent, NotFound, AlreadyExists, StorageError}

Live == {n \in Tasks : pc[n] \notin {"idle", "answered"}}
Dropped == {n \in Tasks : pc[n] = "answered" /\ answer[n] = Unanswered}

\* Where each handler begins.
First(kind) == CASE kind \in Lifecycle -> "check"
                 [] kind = "write" -> "lookup"
                 [] OTHER -> "enter"

NamespaceState == [docs : [Ids -> Contents \cup {Absent}], seqs : [Ids -> Nat], walSeq : Nat]
FreshState == [docs |-> NoDocs, seqs |-> NoSeqs, walSeq |-> 0]

Finding == [batcher : Nat, state : Nat, ops : Seq(Op)]
NothingFound == [batcher |-> 0, state |-> 0, ops |-> <<>>]

\* apply_wal_entry for entry s.
Applied(state, s, ops) ==
    [docs |-> ApplyDocs(state.docs, ops), seqs |-> ApplySeqs(state.seqs, ops, s), walSeq |-> s]

\* load_namespace applies the listed entries in ascending order (the state after
\* those up to n); meta.bin gives no more than that the namespace exists.
Replayed[n \in Nat] ==
    IF n = 0 THEN FreshState
    ELSE IF n \in DOMAIN wal THEN Applied(Replayed[n - 1], n, wal[n])
    ELSE Replayed[n - 1]

Loaded == Replayed[Max({0} \cup DOMAIN wal)]

\* What NamespaceManager::init makes of the store: one generation, or none.
AtStart == IF meta THEN <<Loaded>> ELSE <<>>

\* The server has just started, on an empty store, on that of a namespace or
\* on what a deletion has left.
Init ==
    /\ up = TRUE
    /\ \/ wal = [s \in {} |-> <<>>]
       \/ \E w \in Writes : wal = [s \in {1} |-> <<[req |-> 0, ids |-> w.ids, doc |-> w.doc]>>]
    /\ meta \in BOOLEAN /\ late = {}
    /\ states = AtStart
    /\ buffers = [g \in DOMAIN states |-> <<>>]
    /\ namespaces = Len(states) /\ batchers = Len(states)
    /\ mapLock = Free
    /\ stateLocks = [g \in DOMAIN states |-> Free]
    /\ job = [n \in Tasks |-> "read"]
    /\ pc = [n \in Tasks |-> "idle"]
    /\ mine = [n \in Tasks |-> NothingFound]
    /\ answer = [n \in Tasks |-> Unanswered]
    /\ crashes = 0
    /\ overlapped = FALSE /\ parted = FALSE

-----------------------------------------------------------------------------
(***************************************************************************)
(* Requests arrive, wait for the map and are answered.                     *)
(***************************************************************************)

Goto(n, at) == pc' = [pc EXCEPT ![n] = at]

Reply(n, status) ==
    /\ pc' = [pc EXCEPT ![n] = "answered"]
    /\ answer' = [answer EXCEPT ![n] = status]

\* A task drops its reference to a state.
Forget(n) == mine' = [mine EXCEPT ![n].state = 0]

At(n, kind, at) == job[n] = kind /\ pc[n] = at

HoldsMap(n) == Held(mapLock, n)
HoldsState(n) == Held(stateLocks[mine[n].state], n)
AskMap(n, mode) == mapLock' = Ask(mapLock, n, mode)
LeaveMap(n) == mapLock' = Leave(mapLock, n)
AskState(n, g, mode) == stateLocks' = [stateLocks EXCEPT ![g] = Ask(@, n, mode)]
LeaveState(n) == stateLocks' = [stateLocks EXCEPT ![mine[n].state] = Leave(@, n)]

Opposed(kind, other) == kind # other /\ {kind, other} = Lifecycle

\* A request, or a round of the reload task; all but writes ask for the map.
Arrive(n, kind) ==
    /\ up
    /\ pc[n] = "idle"
    /\ \A m \in Tasks : m < n => pc[m] # "idle"
    /\ Cardinality(Live) < MaxLive
    /\ job' = [job EXCEPT ![n] = kind]
    /\ Goto(n, First(kind))
    /\ IF kind = "write" THEN UNCHANGED mapLock ELSE AskMap(n, "read")
    /\ overlapped' = (overlapped \/ (kind \in Lifecycle /\ \E m \in Live : Opposed(job[m], kind)))
    /\ UNCHANGED <<serverVars, stateLocks, mine, answer, storeVars, crashes, parted>>

-----------------------------------------------------------------------------
(***************************************************************************)
(* create_namespace and delete_namespace.                                  *)
(***************************************************************************)

\* Both look for the name and release the map again.
Check(n) ==
    /\ job[n] \in Lifecycle /\ pc[n] = "check" /\ HoldsMap(n)
    /\ LeaveMap(n)
    /\ IF job[n] = "create"
       THEN IF namespaces # 0 THEN Reply(n, AlreadyExists)
            ELSE Goto(n, "put") /\ UNCHANGED answer
       ELSE IF namespaces = 0 THEN Reply(n, NotFound)
            ELSE Goto(n, "list") /\ UNCHANGED answer
    /\ UNCHANGED <<serverVars, stateLocks, job, mine, storeVars, crashes, history>>

\* A request of n to meta.bin was answered with an error, or with nothing in
\* time: the store may have got it, may get it later, or never.
Lost(n) ==
    /\ late' = late \cup {n}
    /\ UNCHANGED meta

\* An error is passed on before either map is touched.
PutNewMeta(n) ==
    /\ At(n, "create", "put")
    /\ \/ /\ meta' = TRUE /\ UNCHANGED late
          /\ AskMap(n, "write")
          /\ Goto(n, "insert") /\ UNCHANGED answer
       \/ /\ Lost(n)
          /\ Reply(n, StorageError) /\ UNCHANGED mapLock
    /\ UNCHANGED <<serverVars, stateLocks, job, mine, wal, crashes, history>>

InsertState(n) ==
    /\ At(n, "create", "insert") /\ HoldsMap(n)
    /\ states' = Append(states, FreshState)
    /\ stateLocks' = Append(stateLocks, Free)
    /\ namespaces' = Len(states')
    /\ LeaveMap(n)
    /\ Goto(n, "batcher")
    /\ UNCHANGED <<up, buffers, batchers, job, mine, answer, storeVars, crashes, history>>

InsertBatcher(n) ==
    /\ At(n, "create", "batcher")
    /\ buffers' = Append(buffers, <<>>)
    /\ batchers' = Len(buffers')
    /\ Reply(n, Created)
    /\ parted' = FALSE
    /\ UNCHANGED <<up, states, namespaces, locks, job, mine, storeVars, crashes, overlapped>>

\* The listing or a deletion fails: what was deleted before stays deleted, and
\* both maps stay as they are.
EraseFails(n) ==
    /\ Lost(n)
    /\ Reply(n, StorageError)
    /\ UNCHANGED mapLock

\* Mutant: everything below the namespace's prefix is deleted.
EraseAll(n) ==
    /\ At(n, "delete", "list")
    /\ \/ /\ meta' = FALSE /\ wal' = [s \in {} |-> <<>>] /\ UNCHANGED late
          /\ Goto(n, "erase") /\ UNCHANGED <<answer, mapLock>>
       \/ EraseFails(n) /\ UNCHANGED wal
    /\ UNCHANGED <<serverVars, stateLocks, job, mine, crashes, history>>

\* ObjectStore::delete_namespace lists one level, so that of wal/ and index/ it
\* sees the directories; deleting their names deletes no object.  So what it
\* deletes of the listing is meta.bin ...
EraseListed(n) ==
    /\ At(n, "delete", "list")
    /\ \/ /\ meta' = FALSE /\ UNCHANGED late
          /\ Goto(n, "erase") /\ UNCHANGED <<answer, mapLock>>
       \/ EraseFails(n)
    /\ UNCHANGED <<serverVars, stateLocks, job, mine, wal, crashes, history>>

\* ... and then it deletes meta.bin.
EraseMeta(n) ==
    /\ At(n, "delete", "erase")
    /\ \/ /\ meta' = FALSE /\ UNCHANGED late
          /\ AskMap(n, "write")
          /\ Goto(n, "remove") /\ UNCHANGED answer
       \/ EraseFails(n)
    /\ UNCHANGED <<serverVars, stateLocks, job, mine, wal, crashes, history>>

RemoveState(n) ==
    /\ At(n, "delete", "remove") /\ HoldsMap(n)
    /\ namespaces' = 0
    /\ LeaveMap(n)
    /\ Goto(n, "unbatch")
    /\ UNCHANGED <<up, states, buffers, batchers, stateLocks, job, mine, answer, storeVars,
                   crashes, history>>

\* Mutant: what waits in the batcher is dropped with it.
RemoveBatcherDraining(n) ==
    /\ At(n, "delete", "unbatch")
    /\ batchers' = 0
    /\ buffers' = [b \in DOMAIN buffers |-> IF b = batchers THEN <<>> ELSE buffers[b]]
    /\ Reply(n, NoContent)
    /\ parted' = FALSE
    /\ UNCHANGED <<up, states, namespaces, locks, job, mine, storeVars, crashes, overlapped>>

\* Mutant: the batcher stays in its map, for the next namespace of the name.
RemoveBatcherKeeping(n) ==
    /\ At(n, "delete", "unbatch")
    /\ Reply(n, NoContent)
    /\ parted' = FALSE
    /\ UNCHANGED <<serverVars, locks, job, mine, storeVars, crashes, overlapped>>

RemoveBatcher(n) ==
    /\ At(n, "delete", "unbatch")
    /\ batchers' = 0
    /\ Reply(n, NoContent)
    /\ parted' = FALSE
    /\ UNCHANGED <<up, states, buffers, namespaces, locks, job, mine, storeVars, crashes,
                   overlapped>>

-----------------------------------------------------------------------------
(***************************************************************************)
(* upsert, delete_docs and flush_batcher.                                  *)
(***************************************************************************)

\* No documents, no ids: Ok, whether or not there is such a namespace.
WriteNothing(n) ==
    /\ At(n, "write", "lookup")
    /\ Reply(n, Ok)
    /\ UNCHANGED <<serverVars, locks, job, mine, storeVars, crashes, history>>

LookupBatcher(n) ==
    /\ At(n, "write", "lookup")
    /\ IF batchers = 0 THEN Reply(n, NotFound) /\ UNCHANGED mine
       ELSE /\ mine' = [mine EXCEPT ![n].batcher = batchers]
            /\ Goto(n, "submit") /\ UNCHANGED answer
    /\ UNCHANGED <<serverVars, locks, job, storeVars, crashes, history>>

Submit(n, w) ==
    /\ At(n, "write", "submit")
    /\ buffers' = [buffers EXCEPT ![mine[n].batcher] =
                      Append(@, [req |-> n, ids |-> w.ids, doc |-> w.doc])]
    /\ Goto(n, "window")
    /\ UNCHANGED <<up, states, maps, locks, job, mine, answer, storeVars, crashes, history>>

\* The window is over; another task may have taken everything.
TakeBatch(n) ==
    LET b == mine[n].batcher IN
    /\ At(n, "write", "window")
    /\ mine' = [mine EXCEPT ![n].ops = buffers[b]]
    /\ buffers' = [buffers EXCEPT ![b] = <<>>]
    /\ IF buffers[b] = <<>> THEN Reply(n, Ok) /\ UNCHANGED mapLock
       ELSE Goto(n, "find") /\ AskMap(n, "read") /\ UNCHANGED answer
    /\ UNCHANGED <<up, states, maps, stateLocks, job, storeVars, crashes, history>>

\* Mutant: the map's guard is kept while the state's is awaited.
FindStateHolding(n) ==
    /\ At(n, "write", "find") /\ HoldsMap(n)
    /\ namespaces # 0
    /\ mine' = [mine EXCEPT ![n].state = namespaces]
    /\ AskState(n, namespaces, "write")
    /\ Goto(n, "flush")
    /\ UNCHANGED <<serverVars, mapLock, job, answer, storeVars, crashes, history>>

\* The name is looked up again: its state need not be of the batcher's generation.
FindState(n) ==
    /\ At(n, "write", "find") /\ HoldsMap(n)
    /\ LeaveMap(n)
    /\ IF namespaces = 0 THEN Reply(n, NotFound) /\ UNCHANGED <<mine, stateLocks>>
       ELSE /\ mine' = [mine EXCEPT ![n].state = namespaces]
            /\ AskState(n, namespaces, "write")
            /\ Goto(n, "flush") /\ UNCHANGED answer
    /\ UNCHANGED <<serverVars, job, storeVars, crashes, history>>

NextSeq(n) == states[mine[n].state].walSeq + 1

\* The WAL PUT succeeds.
Store(n) ==
    /\ wal' = [s \in DOMAIN wal \cup {NextSeq(n)} |->
                  IF s = NextSeq(n) THEN mine[n].ops ELSE wal[s]]
    /\ Goto(n, "apply")
    /\ UNCHANGED <<serverVars, locks, job, mine, answer, meta, late, crashes, history>>

\* Mutant: a PUT without a condition.
PutWalAlways(n) == At(n, "write", "flush") /\ HoldsState(n) /\ Store(n)

\* The PUT is refused when the log of another generation has that entry.
PutWal(n) ==
    /\ At(n, "write", "flush") /\ HoldsState(n)
    /\ \/ /\ NextSeq(n) \notin DOMAIN wal
          /\ Store(n)
       \/ /\ NextSeq(n) \in DOMAIN wal
          /\ LeaveState(n)
          /\ Reply(n, StorageError) /\ Forget(n)
          /\ UNCHANGED <<serverVars, mapLock, job, storeVars, crashes, history>>

Apply(n) ==
    /\ At(n, "write", "apply")
    /\ states' = [states EXCEPT ![mine[n].state] = Applied(@, @.walSeq + 1, mine[n].ops)]
    /\ Goto(n, "meta")
    /\ UNCHANGED <<up, buffers, maps, locks, job, mine, answer, storeVars, crashes, history>>

\* Mutant: with the state's lock in hand the task asks for the map, to see
\* whether the namespace is still there.
ApplyEntryIfListed(n) ==
    /\ \A i \in DOMAIN mapLock : mapLock[i].mode = "read"
    /\ Apply(n)

ApplyEntry(n) == Apply(n)

\* meta.bin is written whether or not the namespace has been deleted since.
PutMeta(n) ==
    /\ At(n, "write", "meta")
    /\ LeaveState(n) /\ Forget(n)
    /\ \/ /\ meta' = TRUE /\ UNCHANGED late
          /\ Reply(n, Ok)
       \/ /\ Lost(n)
          /\ Reply(n, StorageError)
    /\ UNCHANGED <<serverVars, mapLock, job, wal, crashes, history>>

-----------------------------------------------------------------------------
(***************************************************************************)
(* Readers (query, get_document, index_len, list_namespaces) and the       *)
(* reload task hold the map while they wait for the state.                 *)
(***************************************************************************)

\* Without the namespace a reader is answered 404 (the listing is empty); the
\* reload task ends.
Enter(n) ==
    /\ pc[n] = "enter" /\ HoldsMap(n)
    /\ IF namespaces = 0
       THEN LeaveMap(n) /\ Reply(n, IF job[n] = "read" THEN NotFound ELSE Ok)
            /\ UNCHANGED <<mine, stateLocks>>
       ELSE /\ mine' = [mine EXCEPT ![n].state = namespaces]
            /\ AskState(n, namespaces, "read")
            /\ Goto(n, "read") /\ UNCHANGED <<mapLock, answer>>
    /\ UNCHANGED <<serverVars, job, storeVars, crashes, history>>

\* What is read is the state's subject; a missing document is a 404 too.
Read(n) ==
    /\ At(n, "read", "read") /\ HoldsState(n)
    /\ LeaveState(n) /\ LeaveMap(n)
    /\ Reply(n, Ok) /\ Forget(n)
    /\ UNCHANGED <<serverVars, job, storeVars, crashes, history>>

\* The reload has the etag; after its requests it asks for the map again,
\* unless the manifest has not changed or cannot be read.
ReadEtag(n) ==
    /\ At(n, "reload", "read") /\ HoldsState(n)
    /\ LeaveState(n) /\ Forget(n)
    /\ \/ /\ LeaveMap(n)
          /\ Reply(n, Ok)
       \/ /\ mapLock' = Ask(Leave(mapLock, n), n, "read")
          /\ Goto(n, "again") /\ UNCHANGED answer
    /\ UNCHANGED <<serverVars, job, storeVars, crashes, history>>

EnterAgain(n) ==
    /\ At(n, "reload", "again") /\ HoldsMap(n)
    /\ IF namespaces = 0 THEN LeaveMap(n) /\ Reply(n, Ok) /\ UNCHANGED <<mine, stateLocks>>
       ELSE /\ mine' = [mine EXCEPT ![n].state = namespaces]
            /\ AskState(n, namespaces, "write")
            /\ Goto(n, "swap") /\ UNCHANGED <<mapLock, answer>>
    /\ UNCHANGED <<serverVars, job, storeVars, crashes, history>>

\* The index is replaced (see HotReload) and both locks are dropped.
Swap(n) ==
    /\ At(n, "reload", "swap") /\ HoldsState(n)
    /\ LeaveState(n) /\ LeaveMap(n)
    /\ Reply(n, Ok) /\ Forget(n)
    /\ UNCHANGED <<serverVars, job, storeVars, crashes, history>>

-----------------------------------------------------------------------------
(***************************************************************************)
(* Clients that go away, late requests, crash and start.                   *)
(***************************************************************************)

\* Where a task awaits the answer to a request to meta.bin, and where it has
\* changed one map and awaits the other.
Requesting == {"put", "list", "erase", "meta"}
Between == {"batcher", "unbatch"}

\* The client disconnects and the handler's future is dropped at an await, with
\* the locks it has or waits for.  The reload task has no client.
Cancel(n) ==
    /\ n \in Live
    /\ job[n] # "reload"
    /\ Cardinality(Dropped) < MaxDrops
    /\ Goto(n, "answered")
    /\ IF Queued(mapLock, n) THEN LeaveMap(n) ELSE UNCHANGED mapLock
    /\ IF mine[n].state # 0 THEN LeaveState(n) ELSE UNCHANGED stateLocks
    /\ Forget(n)
    /\ late' = IF pc[n] \in Requesting THEN late \cup {n} ELSE late
    /\ parted' = (parted \/ pc[n] \in Between)
    /\ UNCHANGED <<serverVars, job, answer, wal, meta, crashes, overlapped>>

\* A request reaches meta.bin after its task has ended.
Land(n) ==
    /\ n \in late
    /\ late' = late \ {n}
    /\ meta' = (job[n] # "delete")
    /\ UNCHANGED <<serverVars, locks, taskVars, wal, crashes, history>>

\* The process ends; requests in progress are never answered.
Crash ==
    /\ up
    /\ crashes < MaxCrashes
    /\ up' = FALSE
    /\ states' = <<>> /\ buffers' = <<>>
    /\ namespaces' = 0 /\ batchers' = 0
    /\ mapLock' = Free /\ stateLocks' = <<>>
    /\ pc' = [n \in Tasks |-> IF n \in Live THEN "answered" ELSE pc[n]]
    /\ late' = late \cup {n \in Live : pc[n] \in Requesting}
    /\ crashes' = crashes + 1
    /\ UNCHANGED <<job, mine, answer, wal, meta, history>>

\* NamespaceManager::init, before the first request is accepted.
Start ==
    /\ ~up
    /\ up' = TRUE
    /\ states' = AtStart
    /\ buffers' = [g \in DOMAIN AtStart |-> <<>>]
    /\ stateLocks' = [g \in DOMAIN AtStart |-> Free]
    /\ namespaces' = Len(AtStart) /\ batchers' = Len(AtStart)
    /\ overlapped' = FALSE /\ parted' = FALSE
    /\ UNCHANGED <<mapLock, taskVars, storeVars, crashes>>

Flush(n) == TakeBatch(n) \/ FindState(n) \/ PutWal(n) \/ ApplyEntry(n) \/ PutMeta(n)
Create(n) == PutNewMeta(n) \/ InsertState(n) \/ InsertBatcher(n)
Erase(n) == EraseListed(n) \/ EraseMeta(n)
Delete(n) == Erase(n) \/ RemoveState(n) \/ RemoveBatcher(n)
Visit(n) == Enter(n) \/ Read(n) \/ ReadEtag(n) \/ EnterAgain(n) \/ Swap(n)
WriteDocs(n) == WriteNothing(n) \/ LookupBatcher(n) \/ (\E w \in Writes : Submit(n, w)) \/ Flush(n)

Step(n) == Check(n) \/ Create(n) \/ Delete(n) \/ WriteDocs(n) \/ Visit(n)

\* GET /health needs nothing of the engine and is answered whatever blocks.
Health == up /\ UNCHANGED vars

Next ==
    \/ \E n \in Tasks : (\E kind \in Jobs : Arrive(n, kind)) \/ Step(n) \/ Cancel(n) \/ Land(n)
    \/ Crash \/ Start \/ Health

Spec == Init /\ [][Next]_vars

\* The executor runs every task that can go on, and the store answers.
FairSpec == Spec /\ \A n \in Tasks : WF_vars(Step(n))

-----------------------------------------------------------------------------
(***************************************************************************)
(* Properties.                                                             *)
(***************************************************************************)

Generation(f) == 0 .. Len(f)
Points == {"idle", "check", "put", "insert", "batcher", "list", "erase", "remove", "unbatch",
           "lookup", "submit", "window", "find", "flush", "apply", "meta", "enter", "read",
           "again", "swap", "answered"}

\* Every variable has its type; what a task has found exists while it runs.
NsTypeOK ==
    /\ up \in BOOLEAN /\ meta \in BOOLEAN /\ overlapped \in BOOLEAN /\ parted \in BOOLEAN
    /\ late \subseteq Tasks
    /\ states \in Seq(NamespaceState)
    /\ buffers \in Seq(Seq(Op))
    /\ namespaces \in Generation(states) /\ batchers \in Generation(buffers)
    /\ mapLock \in Queue(Live) /\ stateLocks \in Seq(Queue(Live))
    /\ Len(stateLocks) = Len(states)
    /\ job \in [Tasks -> Jobs] /\ pc \in [Tasks -> Points] /\ answer \in [Tasks -> Answers]
    /\ mine \in [Tasks -> Finding]
    /\ \A n \in Live : mine[n].batcher <= Len(buffers) /\ mine[n].state <= Len(states)
    /\ IsFiniteSet(DOMAIN wal) /\ DOMAIN wal \subseteq Nat \ {0}
    /\ \A s \in DOMAIN wal : wal[s] \in Seq(Op)
    /\ crashes \in 0 .. MaxCrashes

\* The states tasks can still reach: the map's and those a flush has in hand.
Reachable == {g \in DOMAIN states :
    g = namespaces \/ \E n \in Live : job[n] = "write" /\ mine[n].state = g}

\* A state that requests are served from, or that a flush begun before a
\* deletion or a second creation still writes to, is the replay of the entries
\* up to its wal_sequence: generations that count from the same number never
\* both extend the log, although all of them write to the same keys.
StateIsReplay ==
    \A g \in Reachable :
        /\ 1 .. states[g].walSeq \subseteq DOMAIN wal
        /\ ReplayOf(wal, states[g].walSeq, states[g].docs, states[g].seqs)

\* No creation, deletion or write of any generation changes or removes an entry.
LogNeverOverwritten ==
    [][\A s \in DOMAIN wal : s \in DOMAIN wal' /\ wal'[s] = wal[s]]_wal

InBatch(n, m) == \E i \in DOMAIN mine[m].ops : mine[m].ops[i].req = n
Logged(n) == \E s \in DOMAIN wal : \E i \in DOMAIN wal[s] : wal[s][i].req = n

\* A write answered with 200 is in the log, or in the batch of another task
\* that is still flushing it or has told its own caller that it could not (or
\* lost its caller or the server); one that flushed its own batch is in the log.  So no
\* operation is left behind in the batcher of a deleted or replaced namespace.
AcknowledgedAccounted ==
    \A n \in Tasks : job[n] = "write" /\ answer[n] = Ok /\ mine[n].batcher # 0 =>
        \/ Logged(n)
        \/ \E m \in Tasks \ {n} : InBatch(n, m) /\ answer[m] # Ok

\* Deletions that were asked for and not answered with 204 or 404: they are
\* under way, have failed, or lost their client or the server.
Unsettled == {n \in Tasks : job[n] = "delete" /\ answer[n] \in {Unanswered, StorageError}}

\* As long as no creation meets a deletion, whatever fails:
\* the two maps name the namespace together, except while a task is between its
\* changes of the two; one that is dropped there parts them until the next
\* creation or deletion succeeds or the server starts again; an error never does;
\* and a namespace they name survives a restart, unless a deletion of it has
\* been asked for that did not succeed: that may take meta.bin away and leave
\* the namespace, at once or, by a request that arrives late, at any later time.
MapsAgree ==
    ~overlapped =>
        /\ ~parted /\ (\A n \in Tasks : pc[n] \notin Between) =>
              (namespaces = 0) = (batchers = 0)
        /\ namespaces # 0 => meta \/ Unsettled # {}

\* Every request is answered, unless its client or the server goes away: with
\* two locks held at once and writers that block later readers nobody waits for
\* himself.  Requests are finitely many here, so that all of them end just when
\* again and again none is in progress.
EveryRequestAnswered == []<>(Live = {})
=============================================================================

------------------------------ MODULE WritePath ------------------------------
(***************************************************************************)
(* One namespace of tpuf-server: upsert and delete_docs (submit, group     *)
(* commit window, flush_batcher), the object store's WAL and meta.bin, a   *)
(* crash of the server and the WAL replay of the next start.               *)
(*                                                                         *)
(* Every request is a task of its own and the tasks interleave at the      *)
(* awaits of the code: the wait for the batch window, the wait for the     *)
(* namespace's write lock, the WAL PUT and the metadata PUT.  A PUT is a   *)
(* message of its own: the store may process it before the task sees a     *)
(* reply, after the task gave up on it (an I/O error, a dropped handler    *)
(* future, a crash), or never.                                             *)
(***************************************************************************)
EXTENDS WalReplay, FiniteSetsExt

CONSTANTS
    Writes,       \* the writes a request may carry
    MaxCrashes    \* bound: number of server crashes

ASSUME WritesAssumption == Writes \subseteq Write
ASSUME MaxCrashesAssumption == MaxCrashes \in Nat

VARIABLES
    \* the server process
    server,       \* "up", "down", or a stage of load_namespace
    buffer,       \* BatchState.ops of the namespace's WriteBatcher
    lock,         \* holder of the NamespaceState write lock, a set of <= 1
    documents, docSeqs, walSeq, dims,     \* NamespaceState
    toLoad,       \* WAL sequences load_namespace has still to read
    \* the request tasks
    pc, batch, putSeq,
    \* PUT requests on their way to the store, one of each per task
    walPut, metaPut,
    \* the object store
    wal, meta,
    \* bookkeeping
    crashes,
    shown,        \* history: the largest walSeq a reader could have seen
    ackedBefore   \* history: requests acknowledged by their own flush before
                  \* this one was submitted

serverVars == <<server, buffer, lock, documents, docSeqs, walSeq, dims, toLoad>>
memory     == <<documents, docSeqs, walSeq>>
taskVars   == <<pc, batch, putSeq>>
netVars    == <<walPut, metaPut>>
storeVars  == <<wal, meta>>
history    == <<shown, ackedBefore>>
vars == <<serverVars, taskVars, netVars, storeVars, crashes, history>>

Working == {"window", "taken", "wal", "meta"}
Failed  == {"mismatch", "conflict", "walError", "metaError", "gone"}
Ended   == Failed \cup {"ok"}

\* The bytes of meta.bin; doc_count is left out, start-up recounts it.
Meta == [dims : Nat, seq : Nat]
NoPut == [at |-> "none", body |-> [dims |-> NoDim, seq |-> 0]]

(***************************************************************************)
(* The namespace has just been created.                                    *)
(***************************************************************************)
Init ==
    /\ server = "up"
    /\ buffer = <<>>
    /\ lock = {}
    /\ documents = NoDocs /\ docSeqs = NoSeqs
    /\ walSeq = 0
    /\ dims = NoDim
    /\ toLoad = {}
    /\ pc = [r \in Reqs |-> "idle"]
    /\ batch = [r \in Reqs |-> <<>>]
    /\ putSeq = [r \in Reqs |-> 0]
    /\ walPut = [r \in Reqs |-> "none"]
    /\ metaPut = [r \in Reqs |-> NoPut]
    /\ wal = [s \in {} |-> <<>>]
    /\ meta = [dims |-> NoDim, seq |-> 0]
    /\ crashes = 0
    /\ shown = 0
    /\ ackedBefore = [r \in Reqs |-> {}]

-----------------------------------------------------------------------------
(***************************************************************************)
(* A request.                                                              *)
(***************************************************************************)

\* The operations of request r are in the batch that request q flushed.
InBatch(r, q) == \E i \in DOMAIN batch[q] : batch[q][i].req = r

AckedByOwnFlush == {q \in Reqs : pc[q] = "ok" /\ InBatch(q, q)}

\* WriteBatcher::submit, then the start of WriteBatcher::flush.
Submit(r, w) ==
    /\ server = "up"
    /\ pc[r] = "idle"
    /\ buffer' = Append(buffer, [req |-> r, ids |-> w.ids, doc |-> w.doc])
    /\ pc' = [pc EXCEPT ![r] = "window"]
    /\ ackedBefore' = [ackedBefore EXCEPT ![r] = AckedByOwnFlush]
    /\ UNCHANGED <<server, lock, memory, dims, toLoad, batch, putSeq, netVars,
                   storeVars, crashes, shown>>

Take(r, ops, rest) ==
    /\ pc[r] = "window"
    /\ batch' = [batch EXCEPT ![r] = ops]
    /\ buffer' = rest
    /\ pc' = [pc EXCEPT ![r] = "taken"]
    /\ UNCHANGED <<server, lock, memory, dims, toLoad, putSeq, netVars,
                   storeVars, crashes, history>>

\* Mutants: no check for an empty batch; the buffer is copied, not taken; one
\* operation is taken and the others are dropped.
TakeEvenEmpty(r) == Take(r, buffer, <<>>)
TakeCopy(r) == buffer # <<>> /\ Take(r, buffer, buffer)
TakeOne(r) == buffer # <<>> /\ Take(r, <<Head(buffer)>>, <<>>)

\* The window is over and the batch is not empty: this task flushes it.
TakeBatch(r) == buffer # <<>> /\ Take(r, buffer, <<>>)

\* Another task's flush took this task's operations: ops.is_empty(), Ok.
FindNothing(r) ==
    /\ pc[r] = "window"
    /\ buffer = <<>>
    /\ pc' = [pc EXCEPT ![r] = "ok"]
    /\ UNCHANGED <<serverVars, batch, putSeq, netVars, storeVars, crashes, history>>

\* Mutant: the batch that sets the dimension is not checked against it.
MismatchOnceSet(r) == dims # NoDim /\ VectorDims(batch[r]) \ {dims} # {}

Mismatch(r) == VectorDims(batch[r]) \ {AdoptedDim(dims, batch[r])} # {}

\* The lock is granted and the dimension check fails: the batch is dropped.
RejectBatch(r) ==
    /\ pc[r] = "taken"
    /\ lock = {}
    /\ Mismatch(r)
    /\ dims' = AdoptedDim(dims, batch[r])
    /\ pc' = [pc EXCEPT ![r] = "mismatch"]
    /\ UNCHANGED <<server, buffer, lock, memory, toLoad, batch, putSeq, netVars,
                   storeVars, crashes, history>>

\* Send the batch as entry seq, leaving wal_sequence at n.
Send(r, seq, n) ==
    /\ pc[r] = "taken"
    /\ lock = {}
    /\ ~Mismatch(r)
    /\ lock' = {r}
    /\ dims' = AdoptedDim(dims, batch[r])
    /\ putSeq' = [putSeq EXCEPT ![r] = seq]
    /\ walSeq' = n
    /\ walPut' = [walPut EXCEPT ![r] = "sent"]
    /\ pc' = [pc EXCEPT ![r] = "wal"]
    /\ UNCHANGED <<server, buffer, documents, docSeqs, toLoad, batch, metaPut,
                   storeVars, crashes, history>>

\* Mutant: the counter advances before the PUT has succeeded.
SendAdvanced(r) == Send(r, walSeq + 1, walSeq + 1)

\* The lock is granted, the dimensions agree, the WAL PUT is sent.
SendWalPut(r) == Send(r, walSeq + 1, walSeq)

\* Apply the entry, advance, send a metadata PUT that names sequence m.
Apply(r, m) ==
    /\ pc[r] = "wal"
    /\ walPut[r] = "stored"
    /\ documents' = ApplyDocs(documents, batch[r])
    /\ docSeqs' = ApplySeqs(docSeqs, batch[r], putSeq[r])
    /\ walSeq' = putSeq[r]
    /\ shown' = Max({shown, walSeq'})
    /\ metaPut' = [metaPut EXCEPT
                     ![r] = [at |-> "sent", body |-> [dims |-> dims, seq |-> m]]]
    /\ pc' = [pc EXCEPT ![r] = "meta"]
    /\ UNCHANGED <<server, buffer, lock, dims, toLoad, batch, putSeq, walPut,
                   storeVars, crashes, ackedBefore>>

\* write_wal returned Ok.
WalPutOk(r) == Apply(r, putSeq[r])

\* Mutant: an error path that keeps the lock.
ReturnLocked(r, outcome) ==
    /\ pc' = [pc EXCEPT ![r] = outcome]
    /\ UNCHANGED <<serverVars, batch, putSeq, netVars, storeVars, crashes, history>>

\* The task ends with the given outcome and drops its lock guard, if any.
Return(r, outcome) ==
    /\ pc' = [pc EXCEPT ![r] = outcome]
    /\ lock' = lock \ {r}
    /\ UNCHANGED <<server, buffer, memory, dims, toLoad, batch, putSeq, netVars,
                   storeVars, crashes, history>>

\* ConditionNotMatch: StorageError::WriteConflict.
WalPutConflict(r) == pc[r] = "wal" /\ walPut[r] = "exists" /\ Return(r, "conflict")

\* Mutant: every error of write_wal is reported as a conflict.
WalPutErrorAsConflict(r) == pc[r] = "wal" /\ Return(r, "conflict")

\* Any other error; what became of the PUT the task cannot tell.
WalPutError(r) == pc[r] = "wal" /\ Return(r, "walError")

MetaPutOk(r) == pc[r] = "meta" /\ metaPut[r].at = "stored" /\ Return(r, "ok")

MetaPutError(r) == pc[r] = "meta" /\ Return(r, "metaError")

\* The client disconnects and the handler's future is dropped at an await.
Cancel(r) == pc[r] \in Working /\ Return(r, "gone")

-----------------------------------------------------------------------------
(***************************************************************************)
(* The object store.                                                       *)
(***************************************************************************)

Refuse(r) ==
    /\ walPut' = [walPut EXCEPT ![r] = "exists"]
    /\ UNCHANGED wal

Create(r) ==
    /\ walPut' = [walPut EXCEPT ![r] = "stored"]
    /\ wal' = [s \in DOMAIN wal \cup {putSeq[r]} |->
                 IF s = putSeq[r] THEN batch[r] ELSE wal[s]]

\* Mutant: a PUT without the condition.
StoreWalPutAlways(r) ==
    /\ walPut[r] = "sent"
    /\ Create(r)
    /\ UNCHANGED <<serverVars, taskVars, metaPut, meta, crashes, history>>

\* PUT with If-None-Match: *.
StoreWalPut(r) ==
    /\ walPut[r] = "sent"
    /\ IF putSeq[r] \in DOMAIN wal THEN Refuse(r) ELSE Create(r)
    /\ UNCHANGED <<serverVars, taskVars, metaPut, meta, crashes, history>>

\* meta.bin is overwritten unconditionally.
StoreMetaPut(r) ==
    /\ metaPut[r].at = "sent"
    /\ meta' = metaPut[r].body
    /\ metaPut' = [metaPut EXCEPT ![r].at = "stored"]
    /\ UNCHANGED <<serverVars, taskVars, walPut, wal, crashes, history>>

-----------------------------------------------------------------------------
(***************************************************************************)
(* Crash and start-up.                                                     *)
(***************************************************************************)

Crash ==
    /\ server # "down"
    /\ crashes < MaxCrashes
    /\ crashes' = crashes + 1
    /\ server' = "down"
    /\ buffer' = <<>>
    /\ lock' = {}
    /\ documents' = NoDocs /\ docSeqs' = NoSeqs /\ walSeq' = 0
    /\ dims' = NoDim
    /\ toLoad' = {}
    /\ pc' = [r \in Reqs |-> IF pc[r] \in Working THEN "gone" ELSE pc[r]]
    /\ UNCHANGED <<batch, putSeq, netVars, storeVars, history>>

\* load_namespace reads meta.bin ...
LoadMetadata ==
    /\ server = "down"
    /\ server' = "listing"
    /\ dims' = meta.dims
    /\ UNCHANGED <<buffer, lock, memory, toLoad, taskVars, netVars, storeVars,
                   crashes, history>>

\* ... lists the WAL; n becomes wal_sequence ...
List(n) ==
    /\ server = "listing"
    /\ server' = "replaying"
    /\ toLoad' = DOMAIN wal
    /\ walSeq' = n
    /\ UNCHANGED <<buffer, lock, documents, docSeqs, dims, taskVars, netVars,
                   storeVars, crashes, history>>

\* Mutant: wal_sequence is taken over from meta.bin.
ListWalTrustingMeta == List(meta.seq)

\* (the last sequence listed, 0 if there is none)
ListWal == List(IF DOMAIN wal = {} THEN 0 ELSE Max(DOMAIN wal))

\* ... reads and applies the entries in ascending order ...
Replay(s) ==
    /\ server = "replaying"
    /\ documents' = ApplyDocs(documents, wal[s])
    /\ docSeqs' = ApplySeqs(docSeqs, wal[s], s)
    /\ toLoad' = toLoad \ {s}
    /\ UNCHANGED <<server, buffer, lock, walSeq, dims, taskVars, netVars,
                   storeVars, crashes, history>>

\* Mutant: the listing is not sorted.
ReplayNewest == toLoad # {} /\ Replay(Max(toLoad))

ReplayEntry == toLoad # {} /\ Replay(Min(toLoad))

\* ... and publishes the namespace with a new batcher.
Publish ==
    /\ server = "replaying"
    /\ server' = "up"
    /\ shown' = Max({shown, walSeq})
    /\ UNCHANGED <<buffer, lock, memory, dims, toLoad, taskVars, netVars,
                   storeVars, crashes, ackedBefore>>

\* Mutant: the namespace is served before the replay has ended.
PublishEarly == Publish

PublishNamespace == toLoad = {} /\ Publish

Load == LoadMetadata \/ ListWal \/ ReplayEntry \/ PublishNamespace

\* Every request has its answer and the server is up: nothing is left to do.
AllAnswered ==
    /\ server = "up"
    /\ \A r \in Reqs : pc[r] \in Ended
    /\ UNCHANGED vars

-----------------------------------------------------------------------------
Acquire(r) == RejectBatch(r) \/ SendWalPut(r)
WalReply(r) == WalPutOk(r) \/ WalPutConflict(r) \/ WalPutError(r)
MetaReply(r) == MetaPutOk(r) \/ MetaPutError(r)

Task(r) ==
    \/ TakeBatch(r) \/ FindNothing(r)
    \/ RejectBatch(r) \/ SendWalPut(r)
    \/ WalPutOk(r) \/ WalPutConflict(r) \/ WalPutError(r)
    \/ MetaPutOk(r) \/ MetaPutError(r)

Next ==
    \/ \E r \in Reqs :
         \/ \E w \in Writes : Submit(r, w)
         \/ Task(r)
         \/ Cancel(r)
         \/ StoreWalPut(r)
         \/ StoreMetaPut(r)
    \/ Crash
    \/ Load
    \/ AllAnswered

Spec == Init /\ [][Next]_vars

(***************************************************************************)
(* Fairness: the runtime schedules every ready task, the store or its HTTP *)
(* client answers every PUT, the process supervisor restarts the server.   *)
(* The namespace lock is tokio's RwLock, granted in request order, hence a *)
(* task waiting for it is not passed over for ever.                        *)
(***************************************************************************)
Fairness ==
    /\ \A r \in Reqs : /\ WF_vars(TakeBatch(r) \/ FindNothing(r))
                       /\ SF_vars(Acquire(r))
                       /\ WF_vars(WalReply(r))
                       /\ WF_vars(MetaReply(r))
    /\ WF_vars(Load)

FairSpec == Spec /\ Fairness
-----------------------------------------------------------------------------
(***************************************************************************)
(* Properties.                                                             *)
(***************************************************************************)

\* Every variable has its type: the shape of the state of upsert,
\* flush_batcher, load_namespace and of the two objects they write.
TypeOK ==
    /\ server \in {"up", "down", "listing", "replaying"}
    /\ buffer \in Seq(Op)
    /\ lock \in SUBSET Reqs
    /\ documents \in [Ids -> Contents \cup {Absent}]
    /\ docSeqs \in [Ids -> Nat]
    /\ walSeq \in Nat
    /\ dims \in Nat
    /\ toLoad \in SUBSET DOMAIN wal
    /\ pc \in [Reqs -> {"idle"} \cup Working \cup Ended]
    /\ batch \in [Reqs -> Seq(Op)]
    /\ putSeq \in [Reqs -> Nat]
    /\ walPut \in [Reqs -> {"none", "sent", "stored", "exists"}]
    /\ metaPut \in [Reqs -> [at : {"none", "sent", "stored"}, body : Meta]]
    /\ DOMAIN wal \subseteq Nat \ {0}
    /\ \A s \in DOMAIN wal : wal[s] \in Seq(Op) /\ wal[s] # <<>>
    /\ meta \in Meta
    /\ crashes \in 0 .. MaxCrashes
    /\ shown \in Nat
    /\ ackedBefore \in [Reqs -> SUBSET Reqs]

\* Positions of request r's operation in the log.
Places(r) == {p \in UNION {{s} \X DOMAIN wal[s] : s \in DOMAIN wal} :
                wal[p[1]][p[2]].req = r}

\* The WAL has no hole, so the replay of start-up misses nothing and
\* "last sequence + 1" is free: whatever became of PUTs that timed out, were
\* cancelled or were overtaken by a crash.
LogContiguous == DOMAIN wal = 1 .. Cardinality(DOMAIN wal)

\* What readers of a running namespace see is exactly the replay of the WAL up
\* to wal_sequence, documents and doc_sequences alike; during start-up, of the
\* entries read so far.  Memory and log never disagree, after any mixture of
\* failed writes, late PUTs and restarts.
MemoryIsReplay ==
    /\ server = "up" =>
         /\ walSeq \in {0} \cup DOMAIN wal
         /\ ReplayOf(wal, walSeq, documents, docSeqs)
    /\ server = "replaying" =>
         ReplayOf(wal, walSeq - Cardinality(toLoad), documents, docSeqs)

\* The log runs at most one entry ahead of the memory of the server: a write
\* of unknown outcome is followed by no other until a restart has replayed it.
AtMostOneAhead == server = "up" => DOMAIN wal \subseteq 1 .. walSeq + 1

\* An operation enters the log at most once: no interleaving of submits and
\* flushes hands it to two flushes, no flush logs it under two sequences.
LoggedAtMostOnce == \A r \in Reqs : Cardinality(Places(r)) <= 1

\* A request told WriteConflict or DimensionMismatch by its own flush can be
\* retried safely: nothing of that batch is in the log or will ever be.
RejectedNeverDurable ==
    \A r \in Reqs : pc[r] \in {"conflict", "mismatch"} =>
        \A i \in DOMAIN batch[r] : Places(batch[r][i].req) = {}

\* When the flush of a non-empty batch returns Ok, the batch is in the log
\* under the sequence it was given and stays there, and readers see it.
FlushedIsDurable ==
    \A r \in Reqs : pc[r] = "ok" /\ batch[r] # <<>> =>
        /\ putSeq[r] \in DOMAIN wal
        /\ wal[putSeq[r]] = batch[r]
        /\ server = "up" => putSeq[r] <= walSeq

\* Writes keep real-time order: a write submitted after another was
\* acknowledged by its own flush is later in the log, also when both
\* race with other batches for the namespace lock.
RealTimeOrder ==
    \A r \in Reqs : \A q \in ackedBefore[r] :
        \A p1 \in Places(q), p2 \in Places(r) : p1[1] < p2[1]

\* What a reader has once seen no restart takes back: the published state never
\* ends before a log position that was visible earlier.
VisibleNeverLost == server = "up" => shown = walSeq

\* Until the first crash all vectors in the log have the namespace's length,
\* also those of batches whose outcome the server never learned.
DimensionsUniform ==
    crashes = 0 => \A s \in DOMAIN wal : VectorDims(wal[s]) \subseteq {dims}

\* meta.bin never claims a WAL position that does not exist.
MetadataTrailsLog == meta.seq \in {0} \cup DOMAIN wal

\* The log is append only: an entry, once stored, is never replaced or removed.
LogAppendOnly ==
    [][\A s \in DOMAIN wal : s \in DOMAIN wal' /\ wal'[s] = wal[s]]_vars

\* Every submitted request is answered or its task is gone: no task waits for
\* ever for a batch, the lock or the store.
EveryRequestAnswered == \A r \in Reqs : pc[r] = "window" ~> pc[r] \in Ended

\* When no request fails, group commit loses none: each submitted operation
\* reaches the log and becomes visible, whoever flushes it.
GroupCommitCompletes ==
    [](\A r \in Reqs : pc[r] \notin Failed) =>
        \A r \in Reqs : pc[r] = "window" ~>
            \E p \in Places(r) : p[1] <= walSeq

(***************************************************************************)
(* The write path implements CommitLog: the WAL objects are the log, the   *)
(* published NamespaceState is what readers see.                           *)
(***************************************************************************)
LogSeq == [s \in 1 .. Cardinality(DOMAIN wal) |-> wal[s]]

RejectedReqs == {r \in Reqs : \E q \in Reqs :
                    pc[q] \in {"conflict", "mismatch"} /\ InBatch(r, q)}

Abstract == INSTANCE CommitLog WITH
    log <- LogSeq,
    rejected <- RejectedReqs,
    serving <- (server = "up"),
    view <- shown,
    docs <- (IF server = "up" THEN documents ELSE NoDocs),
    seqs <- (IF server = "up" THEN docSeqs ELSE NoSeqs)

\* Every behaviour of the batchers, flushes, PUTs and restarts is one of the
\* append-only log with a growing view that CommitLog describes.
ImplementsCommitLog == Abstract!CLSpec

\* The documentation's claims that the code does not keep.

\* "Inserts go to WAL + index before response": an acknowledged request is in
\* the log, whichever task flushed it.
AcknowledgedIsDurable == \A r \in Reqs : pc[r] = "ok" => Places(r) # {}

\* "With this constraint [a single writer], no write conflicts occur."
NoWriteConflict == \A r \in Reqs : pc[r] # "conflict"
=============================================================================

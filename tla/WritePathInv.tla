----------------------------- MODULE WritePathInv -----------------------------
(***************************************************************************)
(* The inductive invariant of WritePath: what has to be known of the       *)
(* tasks, the PUTs still under way and the log for every step to preserve  *)
(* the safety properties of WritePath.                                     *)
(***************************************************************************)
EXTENDS WritePath

Held == {"wal", "meta"}

LogShape == \E n \in {shown, shown + 1} : DOMAIN wal = 1 .. n

\* Tasks run only while the server is up; the lock, the batch and the PUT a
\* task has belong to the stage it has reached.
TaskOK(r) ==
    /\ pc[r] \in Working => server = "up"
    /\ pc[r] \in Held => lock = {r}
    /\ r \in lock => pc[r] \in Held
    /\ pc[r] \in {"idle", "window"} => batch[r] = <<>>
    /\ pc[r] \in {"taken", "wal"} => batch[r] # <<>>
    /\ pc[r] \in {"idle", "window", "taken", "mismatch"} => walPut[r] = "none"
    /\ pc[r] = "wal" => walPut[r] # "none" /\ putSeq[r] = walSeq + 1
    /\ pc[r] = "conflict" => walPut[r] = "exists"
    /\ pc[r] = "meta" \/ (pc[r] = "ok" /\ batch[r] # <<>>) =>
         walPut[r] = "stored" /\ putSeq[r] <= shown

TaskShape == \A r \in Reqs : TaskOK(r)

\* A PUT under way carries a sequence at most one past what readers have
\* seen; the store's verdict on it agrees with the log.
PutOK(r) ==
    walPut[r] # "none" =>
        /\ batch[r] # <<>>
        /\ putSeq[r] \in 1 .. shown + 1
        /\ walPut[r] = "stored" => /\ putSeq[r] \in DOMAIN wal
                                   /\ wal[putSeq[r]] = batch[r]
        /\ walPut[r] = "exists" => putSeq[r] \in DOMAIN wal

PutShape == \A r \in Reqs : PutOK(r)

MetaShape ==
    /\ meta.seq \in {0} \cup DOMAIN wal
    /\ \A r \in Reqs : metaPut[r].body.seq \in {0} \cup DOMAIN wal

\* The log is at most one entry longer than what readers have seen, before,
\* during and after a restart.
ServerShape ==
    /\ shown \in {0} \cup DOMAIN wal
    /\ DOMAIN wal \subseteq 1 .. shown + 1
    /\ server # "up" => buffer = <<>> /\ lock = {}
    /\ server = "up" => walSeq = shown
    /\ server \in {"down", "listing"} =>
         walSeq = 0 /\ documents = NoDocs /\ docSeqs = NoSeqs
    /\ server = "replaying" =>
         /\ walSeq \in {0} \cup DOMAIN wal
         /\ shown <= walSeq
         /\ \E k \in 0 .. walSeq : toLoad = k + 1 .. walSeq

MemoryShape ==
    /\ server = "up" => ReplayOf(wal, walSeq, documents, docSeqs)
    /\ server = "replaying" =>
         \A k \in 0 .. walSeq :
             toLoad = k + 1 .. walSeq => ReplayOf(wal, k, documents, docSeqs)

\* An operation is in one place: the buffer, or one position of one batch.
OnePlace ==
    /\ \A i, j \in DOMAIN buffer : buffer[i].req = buffer[j].req => i = j
    /\ \A q \in Reqs : \A i \in DOMAIN batch[q], j \in DOMAIN buffer :
           batch[q][i].req # buffer[j].req
    /\ \A p, q \in Reqs : \A i \in DOMAIN batch[p], j \in DOMAIN batch[q] :
           batch[p][i].req = batch[q][j].req => p = q /\ i = j
    /\ \A i \in DOMAIN buffer : pc[buffer[i].req] # "idle"
    /\ \A q \in Reqs : \A i \in DOMAIN batch[q] : pc[batch[q][i].req] # "idle"

\* Every log entry is the batch of the task whose PUT stored it.
LogSource ==
    \A s \in DOMAIN wal : \E q \in Reqs :
        walPut[q] = "stored" /\ putSeq[q] = s /\ wal[s] = batch[q]

\* The sequence given to a batch exceeds those of all batches acknowledged
\* before one of its requests was submitted.
SeqOrder ==
    \A r \in Reqs : \A q \in ackedBefore[r] :
        /\ pc[q] = "ok" /\ InBatch(q, q)
        /\ \A p \in Reqs : InBatch(r, p) /\ walPut[p] # "none" => putSeq[q] < putSeq[p]

IInv ==
    /\ TypeOK /\ LogShape
    /\ TaskShape /\ PutShape /\ MetaShape /\ ServerShape
    /\ MemoryShape
    /\ OnePlace /\ LogSource /\ SeqOrder

\* Before the first crash, a batch that passed the dimension check carries
\* vectors of the length the namespace has now.  Not part of IInv, which no
\* other property needs it for.
DimShape ==
    crashes = 0 =>
        /\ server = "up"
        /\ \A q \in Reqs : walPut[q] # "none" => VectorDims(batch[q]) \subseteq {dims}
=============================================================================

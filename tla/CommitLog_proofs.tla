--------------------------- MODULE CommitLog_proofs ---------------------------
(***************************************************************************)
(* Two results on top of WritePath_proofs: the vectors in the log have one *)
(* length until the first crash, and WritePath implements CommitLog.       *)
(*                                                                         *)
(* For the second, each step of WritePath is mapped: a WAL PUT the store   *)
(* accepts is Commit, its application by the flush is Show, a refusal is   *)
(* RejectSome, a crash is Stop, the end of a start-up is Resume; all other *)
(* steps leave what CommitLog speaks of as it is.                          *)
(***************************************************************************)
EXTENDS WritePath_proofs

-----------------------------------------------------------------------------
(***************************************************************************)
(* The dimension check.                                                    *)
(***************************************************************************)

\* A dimension, once set, is kept, and NoDim is no vector's length.
LEMMA AdoptedKeeps ==
  ASSUME NEW d, NEW ops, NEW old, VectorDims(old) \subseteq {d}
  PROVE  VectorDims(old) \subseteq {AdoptedDim(d, ops)}
<1>1. CASE d # NoDim
  BY <1>1 DEF AdoptedDim
<1>2. CASE d = NoDim
  BY <1>2 DEF VectorDims
<1> QED BY <1>1, <1>2

LEMMA DimShapeNext ==
  ASSUME IInv, DimShape, [Next]_vars
  PROVE  DimShape'
<1> SUFFICES ASSUME crashes' = 0
             PROVE  /\ server' = "up"
                    /\ \A q \in Reqs : walPut'[q] # "none" =>
                           VectorDims(batch'[q]) \subseteq {dims'}
  BY DEF DimShape
<1>1. crashes \in Nat /\ ~ Crash
  BY DEF IInv, TypeOK, Crash
<1>2. crashes = 0 /\ server = "up"
  <2>1. crashes' = crashes
    BY <1>1
       DEF Next, Task, Load, AllAnswered, Submit, TakeBatch, Take, FindNothing,
           RejectBatch, SendWalPut, Send, WalPutOk, Apply, WalPutConflict,
           WalPutError, MetaPutOk, MetaPutError, Cancel, Return, StoreWalPut,
           StoreMetaPut, LoadMetadata, ListWal, List, ReplayEntry, Replay,
           PublishNamespace, Publish, vars
  <2> QED BY <2>1 DEF DimShape
<1>3. ~ Load
  BY <1>2 DEF Load, LoadMetadata, ListWal, List, ReplayEntry, Replay,
              PublishNamespace, Publish
<1>4. server' = "up"
  BY <1>1, <1>2, <1>3
     DEF Next, Task, AllAnswered, Submit, TakeBatch, Take, FindNothing,
         RejectBatch, SendWalPut, Send, WalPutOk, Apply, WalPutConflict,
         WalPutError, MetaPutOk, MetaPutError, Cancel, Return, StoreWalPut,
         StoreMetaPut, vars, serverVars
<1>5. \/ dims' = dims
      \/ \E r \in Reqs : dims' = AdoptedDim(dims, batch[r])
  BY <1>1, <1>3
     DEF Next, Task, AllAnswered, Submit, TakeBatch, Take, FindNothing,
         RejectBatch, SendWalPut, Send, WalPutOk, Apply, WalPutConflict,
         WalPutError, MetaPutOk, MetaPutError, Cancel, Return, StoreWalPut,
         StoreMetaPut, vars, serverVars
<1>6. ASSUME NEW q \in Reqs, walPut'[q] # "none"
      PROVE  VectorDims(batch'[q]) \subseteq {dims'}
  <2>1. ASSUME walPut[q] # "none", batch'[q] = batch[q]
        PROVE  VectorDims(batch'[q]) \subseteq {dims'}
    BY <1>2, <1>5, <2>1, AdoptedKeeps DEF DimShape
  <2>2. CASE TakeBatch(q)
    BY <1>6, <2>2 DEF TakeBatch, Take, netVars, IInv, TaskShape, TaskOK
  <2>3. CASE SendWalPut(q)
    BY <2>3 DEF SendWalPut, Send, Mismatch
  <2>4. CASE StoreWalPut(q)
    BY <2>1, <2>4 DEF StoreWalPut, taskVars
  <2> QED BY <1>6, <2>1, <2>2, <2>3, <2>4, PutSteps
<1> QED BY <1>4, <1>6

\* Until the first crash every vector that flush_batcher let into the log has
\* the length the namespace has now, also those of batches whose PUT was
\* given up and reached the store later.
THEOREM OneDimension == Spec => []DimensionsUniform
<1>1. Init => DimShape
  BY DEF Init, DimShape
<1>2. IInv /\ DimShape /\ [Next]_vars => DimShape'
  BY DimShapeNext
<1>3. IInv /\ DimShape => DimensionsUniform
  BY DEF IInv, LogSource, DimShape, DimensionsUniform
<1> QED BY <1>1, <1>2, <1>3, Inductive, PTL DEF Spec

-----------------------------------------------------------------------------
(***************************************************************************)
(* The refinement of CommitLog.                                            *)
(***************************************************************************)

\* A WAL without holes read as a sequence.
LEMMA SeqOfLog ==
  ASSUME NEW w, NEW n \in Nat, DOMAIN w = 1 .. n, \A s \in 1 .. n : w[s] \in Seq(Op)
  PROVE  LET l == [s \in 1 .. Cardinality(DOMAIN w) |-> w[s]]
         IN  /\ l = [s \in 1 .. n |-> w[s]]
             /\ Len(l) = n
             /\ DOMAIN l = 1 .. n
             /\ \A s \in 1 .. n : l[s] = w[s]
<1>1. Cardinality(1 .. n) = n
  <2>1. 0 + 1 = 1 /\ n - 0 = n
    OBVIOUS
  <2> QED BY <2>1, IntervalSize
<1>2. [s \in 1 .. n |-> w[s]] \in Seq(Seq(Op))
  OBVIOUS
<1>3. Len([s \in 1 .. n |-> w[s]]) = n
  BY <1>2
<1> QED BY <1>1, <1>3

LEMMA LogSeqProps ==
  ASSUME IInv
  PROVE  \E n \in Nat : /\ DOMAIN wal = 1 .. n /\ (n = shown \/ n = shown + 1)
                        /\ Len(LogSeq) = n /\ DOMAIN LogSeq = 1 .. n
                        /\ \A s \in 1 .. n : LogSeq[s] = wal[s]
<1>1. PICK n \in Nat : DOMAIN wal = 1 .. n /\ (n = shown \/ n = shown + 1)
  BY LogDomain DEF IInv
<1>2. \A s \in 1 .. n : wal[s] \in Seq(Op)
  BY <1>1 DEF IInv, TypeOK
<1> QED BY <1>1, <1>2, SeqOfLog DEF LogSeq

\* Two tasks never hold an operation of one request, so a request of a batch
\* whose PUT is not stored is nowhere in the log.
LEMMA NotLogged ==
  ASSUME IInv, NEW q \in Reqs, walPut[q] # "stored", NEW i \in DOMAIN batch[q],
         NEW s \in DOMAIN wal, NEW j \in DOMAIN wal[s]
  PROVE  wal[s][j].req # batch[q][i].req
<1>1. PICK p \in Reqs : walPut[p] = "stored" /\ wal[s] = batch[p]
  BY DEF IInv, LogSource
<1> QED BY <1>1 DEF IInv, OnePlace

LEMMA LoggedIs ==
  ASSUME IInv, NEW r \in Abstract!LoggedReqs
  PROVE  \E s \in DOMAIN wal : \E j \in DOMAIN wal[s] : wal[s][j].req = r
<1>1. PICK n \in Nat : DOMAIN wal = 1 .. n /\ DOMAIN LogSeq = 1 .. n
                       /\ \A s \in 1 .. n : LogSeq[s] = wal[s]
  BY LogSeqProps
<1>2. PICK s \in 1 .. n : r \in Abstract!ReqsOf(LogSeq[s])
  BY <1>1 DEF Abstract!LoggedReqs
<1> QED BY <1>1, <1>2 DEF Abstract!ReqsOf

\* Only a dimension mismatch and a write conflict reject requests.
LEMMA RejectedSteps ==
  ASSUME IInv, [Next]_vars
  PROVE  \/ RejectedReqs' = RejectedReqs
         \/ \E q \in Reqs : RejectBatch(q) \/ WalPutConflict(q)
<1>t. /\ pc \in [Reqs -> {"idle"} \cup Working \cup Ended]
      /\ batch \in [Reqs -> Seq(Op)]
  BY DEF IInv, TypeOK
<1>1. ASSUME batch' = batch,
             \A q \in Reqs : pc'[q] \in {"conflict", "mismatch"} <=>
                             pc[q] \in {"conflict", "mismatch"}
      PROVE  RejectedReqs' = RejectedReqs
  BY <1>1 DEF RejectedReqs, InBatch
<1>2. ASSUME NEW r \in Reqs, TakeBatch(r)
      PROVE  RejectedReqs' = RejectedReqs
  <2>1. \A q \in Reqs : pc'[q] \in {"conflict", "mismatch"} <=>
                        pc[q] \in {"conflict", "mismatch"}
    BY <1>2, <1>t DEF TakeBatch, Take
  <2>2. \A q \in Reqs : pc[q] \in {"conflict", "mismatch"} => batch'[q] = batch[q]
    BY <1>2, <1>t DEF TakeBatch, Take
  <2> QED BY <2>1, <2>2 DEF RejectedReqs, InBatch
<1>3. ASSUME NEW r \in Reqs,
             \/ \E w \in Writes : Submit(r, w)
             \/ FindNothing(r) \/ SendWalPut(r) \/ WalPutOk(r)
             \/ WalPutError(r) \/ MetaPutOk(r) \/ MetaPutError(r) \/ Cancel(r)
             \/ StoreWalPut(r) \/ StoreMetaPut(r)
      PROVE  /\ batch' = batch
             /\ \A q \in Reqs : pc'[q] \in {"conflict", "mismatch"} <=>
                                pc[q] \in {"conflict", "mismatch"}
  BY <1>3, <1>t
     DEF Submit, FindNothing, SendWalPut, Send, WalPutOk, Apply, WalPutError,
         MetaPutOk, MetaPutError, Cancel, Return, StoreWalPut, StoreMetaPut,
         taskVars, Working
<1>4. ASSUME \/ Crash \/ LoadMetadata \/ ListWal \/ ReplayEntry
             \/ PublishNamespace \/ UNCHANGED vars
      PROVE  /\ batch' = batch
             /\ \A q \in Reqs : pc'[q] \in {"conflict", "mismatch"} <=>
                                pc[q] \in {"conflict", "mismatch"}
  BY <1>4, <1>t DEF Crash, LoadMetadata, ListWal, List, ReplayEntry, Replay,
                    PublishNamespace, Publish, vars, taskVars, Working
<1> QED BY <1>1, <1>2, <1>3, <1>4 DEF Next, Task, Load, AllAnswered

\* The start of the namespace is the start of the abstract log.
LEMMA InitCommitLog == Init => Abstract!CLInit
<1> SUFFICES ASSUME Init
             PROVE  Abstract!CLInit
  OBVIOUS
<1>1. DOMAIN wal = {} /\ Cardinality(DOMAIN wal) = 0
  BY FS_EmptySet DEF Init
<1>2. LogSeq = <<>>
  BY <1>1 DEF LogSeq
<1>3. RejectedReqs = {}
  BY DEF Init, RejectedReqs
<1>4. /\ server = "up" /\ shown = 0
      /\ documents = Abstract!NoDocs /\ docSeqs = Abstract!NoSeqs
  BY DEF Init, NoDocs, NoSeqs, Abstract!NoDocs, Abstract!NoSeqs
<1> QED BY <1>2, <1>3, <1>4 DEF Abstract!CLInit

\* A PUT of the store that creates an entry is the commit of a batch.
LEMMA CommitStep ==
  ASSUME IInv, [Next]_vars,
         NEW r \in Reqs, StoreWalPut(r), putSeq[r] \notin DOMAIN wal
  PROVE  Abstract!Commit
<1>1. /\ DOMAIN wal = 1 .. shown /\ DOMAIN wal' = 1 .. shown + 1
      /\ wal'[shown + 1] = batch[r]
      /\ \A s \in 1 .. shown : wal'[s] = wal[s]
  BY NewEntry
<1>2. shown \in Nat /\ batch[r] \in Seq(Op) /\ batch[r] # <<>>
  BY DEF IInv, TypeOK, PutShape, PutOK, StoreWalPut
<1>3. \A s \in 1 .. shown : wal[s] \in Seq(Op)
  BY <1>1 DEF IInv, TypeOK
<1>4. \A s \in 1 .. shown + 1 : wal'[s] \in Seq(Op)
  <2>1. \A s \in 1 .. shown + 1 : s \in 1 .. shown \/ s = shown + 1
    BY <1>2
  <2> QED BY <1>1, <1>2, <1>3, <2>1
<1>5. /\ Len(LogSeq) = shown /\ DOMAIN LogSeq = 1 .. shown
      /\ \A s \in 1 .. shown : LogSeq[s] = wal[s]
  BY <1>1, <1>2, <1>3, SeqOfLog DEF LogSeq
<1>6. /\ Len(LogSeq') = shown + 1
      /\ \A s \in 1 .. shown + 1 : LogSeq'[s] = wal'[s]
  <2>1. LogSeq' = [s \in 1 .. Cardinality(DOMAIN wal') |-> wal'[s]]
    BY DEF LogSeq
  <2>2. shown + 1 \in Nat
    BY <1>2
  <2> QED BY <1>1, <1>4, <2>1, <2>2, SeqOfLog
<1>7. shown + 1 \in 1 .. shown + 1 /\ LogSeq'[Len(LogSeq) + 1] = batch[r]
  BY <1>1, <1>2, <1>5, <1>6
<1>8. Abstract!ReqsOf(batch[r]) # {}
  <2>1. 1 \in DOMAIN batch[r]
    BY <1>2
  <2> QED BY <2>1 DEF Abstract!ReqsOf
<1>9. Abstract!ReqsOf(batch[r]) \cap Abstract!LoggedReqs = {}
  BY LoggedIs, NotLogged DEF Abstract!ReqsOf, StoreWalPut
<1>10. Abstract!ReqsOf(batch[r]) \cap RejectedReqs = {}
  <2> SUFFICES ASSUME NEW i \in DOMAIN batch[r], NEW q \in Reqs,
                      pc[q] \in {"conflict", "mismatch"},
                      InBatch(batch[r][i].req, q)
               PROVE  FALSE
    BY DEF Abstract!ReqsOf, RejectedReqs
  <2>1. q = r
    BY DEF IInv, OnePlace, InBatch
  <2> QED BY <2>1 DEF IInv, TaskShape, TaskOK, StoreWalPut
<1>11. \A i, j \in DOMAIN batch[r] : batch[r][i].req = batch[r][j].req => i = j
  BY DEF IInv, OnePlace
<1>12. \A s \in DOMAIN LogSeq : LogSeq'[s] = LogSeq[s]
  BY <1>1, <1>2, <1>5, <1>6
<1>13. RejectedReqs' = RejectedReqs
  BY DEF StoreWalPut, taskVars, RejectedReqs, InBatch
<1>14. UNCHANGED <<server, shown, documents, docSeqs>>
  BY DEF StoreWalPut, serverVars, history
<1> QED BY <1>5, <1>6, <1>7, <1>8, <1>9, <1>10, <1>11, <1>12, <1>13, <1>14
     DEF Abstract!Commit, NoDocs, NoSeqs

\* Its application by the flush makes the next batch visible.
LEMMA ShowStep ==
  ASSUME IInv, [Next]_vars, NEW r \in Reqs, WalPutOk(r)
  PROVE  Abstract!Show
<1>1. /\ server = "up" /\ putSeq[r] = shown + 1 /\ shown' = shown + 1
      /\ shown + 1 \in DOMAIN wal /\ wal[shown + 1] = batch[r]
  BY NewView
<1>2. PICK n \in Nat : /\ DOMAIN wal = 1 .. n /\ Len(LogSeq) = n
                       /\ \A s \in 1 .. n : LogSeq[s] = wal[s]
  BY LogSeqProps
<1>3. shown \in Nat /\ shown < n
  BY <1>1, <1>2 DEF IInv, TypeOK
<1>4. LogSeq[shown'] = batch[r]
  BY <1>1, <1>2
<1>5. /\ documents' = Abstract!ApplyDocs(documents, LogSeq[shown'])
      /\ docSeqs' = Abstract!ApplySeqs(docSeqs, LogSeq[shown'], shown')
  <2>1. /\ documents' = ApplyDocs(documents, batch[r])
        /\ docSeqs' = ApplySeqs(docSeqs, batch[r], shown')
    BY <1>1 DEF WalPutOk, Apply
  <2>2. \A d, ops : Abstract!ApplyDocs(d, ops) = ApplyDocs(d, ops)
    BY DEF ApplyDocs, Touches, Effect, Deciding, Abstract!ApplyDocs,
           Abstract!Touches, Abstract!Effect, Abstract!Deciding
  <2>3. \A q, ops, m : Abstract!ApplySeqs(q, ops, m) = ApplySeqs(q, ops, m)
    BY DEF ApplySeqs, Touches, Effect, Deciding, Abstract!ApplySeqs,
           Abstract!Touches, Abstract!Effect, Abstract!Deciding
  <2> QED BY <1>4, <2>1, <2>2, <2>3
<1>6. server' = server /\ LogSeq' = LogSeq
  BY DEF WalPutOk, Apply, storeVars, LogSeq
<1>7. RejectedReqs' = RejectedReqs
  <2>1. pc' = [pc EXCEPT ![r] = "meta"] /\ pc[r] = "wal"
        /\ batch' = batch
    BY DEF WalPutOk, Apply
  <2>2. \A q \in Reqs : pc'[q] \in {"conflict", "mismatch"} <=>
                        pc[q] \in {"conflict", "mismatch"}
    BY <2>1 DEF IInv, TypeOK
  <2> QED BY <2>1, <2>2 DEF RejectedReqs, InBatch
<1> QED BY <1>1, <1>2, <1>3, <1>5, <1>6, <1>7 DEF Abstract!Show

\* A refused batch is in no log entry, so its requests may be rejected.
LEMMA RejectStep ==
  ASSUME IInv, NEW q \in Reqs, RejectBatch(q) \/ WalPutConflict(q)
  PROVE  Abstract!RejectSome
<1> DEFINE S == {r \in Reqs : InBatch(r, q)}
<1>1. /\ \E o \in {"conflict", "mismatch"} : pc' = [pc EXCEPT ![q] = o]
      /\ batch' = batch /\ pc[q] \in {"taken", "wal"} /\ walPut[q] # "stored"
  BY DEF RejectBatch, WalPutConflict, Return, IInv, TaskShape, TaskOK
<1>2. \A p \in Reqs : pc'[p] \in {"conflict", "mismatch"} <=>
                      (p = q \/ pc[p] \in {"conflict", "mismatch"})
  BY <1>1 DEF IInv, TypeOK
<1>3. RejectedReqs' = RejectedReqs \cup S
  BY <1>1, <1>2 DEF RejectedReqs, InBatch
<1>4. S \cap Abstract!LoggedReqs = {}
  BY <1>1, LoggedIs, NotLogged DEF InBatch
<1>5. UNCHANGED <<wal, server, shown, documents, docSeqs>>
  BY DEF RejectBatch, WalPutConflict, Return, memory, storeVars, history
<1>6. LogSeq' = LogSeq
  BY <1>5 DEF LogSeq
<1> QED BY <1>3, <1>4, <1>5, <1>6 DEF Abstract!RejectSome, NoDocs, NoSeqs

\* The last step of a start-up resumes the service with the replay of a
\* prefix that covers all that was visible.
LEMMA ResumeStep ==
  ASSUME IInv, PublishNamespace, RejectedReqs' = RejectedReqs
  PROVE  Abstract!Resume
<1>1. /\ walSeq \in Nat /\ shown <= walSeq /\ shown' = walSeq
      /\ walSeq \in {0} \cup DOMAIN wal
  BY PublishedView
<1>2. /\ server = "replaying" /\ server' = "up" /\ toLoad = {}
      /\ UNCHANGED <<wal, documents, docSeqs>>
  BY DEF PublishNamespace, Publish, memory, storeVars
<1>3. PICK n \in Nat : /\ DOMAIN wal = 1 .. n /\ Len(LogSeq) = n
                       /\ \A s \in 1 .. n : LogSeq[s] = wal[s]
  BY LogSeqProps
<1>4. shown \in Nat /\ walSeq \in shown .. n
  BY <1>1, <1>3 DEF IInv, TypeOK
<1>5. walSeq \in 0 .. walSeq /\ toLoad = walSeq + 1 .. walSeq
  BY <1>1, <1>2
<1>6. ReplayOf(wal, walSeq, documents, docSeqs)
  BY <1>2, <1>5 DEF IInv, MemoryShape
<1>7. ReplayOf(LogSeq, walSeq, documents, docSeqs)
  <2>1. \A s \in 1 .. walSeq : LogSeq[s] = wal[s]
    BY <1>1, <1>3, <1>4
  <2> QED BY <1>1, <1>6, <2>1, ReplayFrame
<1>8. Abstract!ReplayOf(LogSeq, walSeq, documents, docSeqs)
  BY <1>7 DEF ReplayOf, Touches, Effect, Deciding, Abstract!ReplayOf,
              Abstract!Touches, Abstract!Effect, Abstract!Deciding
<1>9. LogSeq' = LogSeq
  BY <1>2 DEF LogSeq
<1> QED BY <1>1, <1>2, <1>3, <1>4, <1>8, <1>9 DEF Abstract!Resume

\* A crash of a running server stops the service; one during start-up
\* changes nothing that a reader could notice.
LEMMA CrashStep ==
  ASSUME Crash, RejectedReqs' = RejectedReqs
  PROVE  Abstract!Stop \/ UNCHANGED Abstract!clVars
<1>1. /\ server' = "down" /\ UNCHANGED <<wal, shown>>
  BY DEF Crash, storeVars, history
<1>2. LogSeq' = LogSeq
  BY <1>1 DEF LogSeq
<1>3. NoDocs = Abstract!NoDocs /\ NoSeqs = Abstract!NoSeqs
  BY DEF NoDocs, NoSeqs, Abstract!NoDocs, Abstract!NoSeqs
<1>4. NoDocs' = NoDocs /\ NoSeqs' = NoSeqs
  BY DEF NoDocs, NoSeqs
<1>5. CASE server = "up"
  BY <1>1, <1>2, <1>3, <1>5 DEF Abstract!Stop
<1>6. CASE server # "up"
  BY <1>1, <1>2, <1>4, <1>6 DEF Abstract!clVars
<1> QED BY <1>5, <1>6

\* The steps that leave the log, the view and the service as they are.
LEMMA QuietStep ==
  ASSUME RejectedReqs' = RejectedReqs,
         UNCHANGED <<wal, shown>>,
         \/ UNCHANGED <<server, documents, docSeqs>>
         \/ server # "up" /\ server' # "up"
  PROVE  UNCHANGED Abstract!clVars
<1>1. LogSeq' = LogSeq
  BY DEF LogSeq
<1>2. NoDocs' = NoDocs /\ NoSeqs' = NoSeqs
  BY DEF NoDocs, NoSeqs
<1> QED BY <1>1, <1>2 DEF Abstract!clVars

LEMMA NextCommitLog ==
  ASSUME IInv, [Next]_vars
  PROVE  [Abstract!CLNext]_(Abstract!clVars)
<1>1. ASSUME NEW r \in Reqs, StoreWalPut(r), putSeq[r] \notin DOMAIN wal
      PROVE  Abstract!Commit
  BY <1>1, CommitStep
<1>2. ASSUME NEW r \in Reqs, WalPutOk(r)
      PROVE  Abstract!Show
  BY <1>2, ShowStep
<1>3. ASSUME NEW r \in Reqs, RejectBatch(r) \/ WalPutConflict(r)
      PROVE  Abstract!RejectSome
  BY <1>3, RejectStep
<1>r. \/ RejectedReqs' = RejectedReqs
      \/ \E r \in Reqs : RejectBatch(r) \/ WalPutConflict(r)
  BY RejectedSteps
<1>4. ASSUME RejectedReqs' = RejectedReqs, Crash
      PROVE  Abstract!Stop \/ UNCHANGED Abstract!clVars
  BY <1>4, CrashStep
<1>5. ASSUME RejectedReqs' = RejectedReqs, PublishNamespace
      PROVE  Abstract!Resume
  BY <1>5, ResumeStep
<1>6. ASSUME NEW r \in Reqs, RejectedReqs' = RejectedReqs,
             \/ \E w \in Writes : Submit(r, w)
             \/ TakeBatch(r) \/ FindNothing(r) \/ SendWalPut(r)
             \/ WalPutError(r) \/ MetaPutOk(r) \/ MetaPutError(r) \/ Cancel(r)
             \/ StoreMetaPut(r)
             \/ StoreWalPut(r) /\ putSeq[r] \in DOMAIN wal
      PROVE  UNCHANGED Abstract!clVars
  <2>1. UNCHANGED <<wal, shown, server, documents, docSeqs>>
    BY <1>6
       DEF Submit, TakeBatch, Take, FindNothing, SendWalPut, Send, WalPutError,
           MetaPutOk, MetaPutError, Cancel, Return, StoreMetaPut, StoreWalPut,
           Refuse, serverVars, memory, storeVars, history
  <2> QED BY <1>6, <2>1, QuietStep
<1>7. ASSUME RejectedReqs' = RejectedReqs,
             LoadMetadata \/ ListWal \/ ReplayEntry \/ UNCHANGED vars
      PROVE  UNCHANGED Abstract!clVars
  <2>1. /\ UNCHANGED <<wal, shown>>
        /\ \/ UNCHANGED <<server, documents, docSeqs>>
           \/ server # "up" /\ server' # "up"
    BY <1>7
       DEF LoadMetadata, ListWal, List, ReplayEntry, Replay, vars, serverVars,
           storeVars, history
  <2> QED BY <1>7, <2>1, QuietStep
<1> QED BY <1>1, <1>2, <1>3, <1>4, <1>5, <1>6, <1>7, <1>r
     DEF Next, Task, Load, AllAnswered, Abstract!CLNext

\* The write path, with its batchers, flushes, late PUTs, crashes and
\* start-ups, is an append-only log of batches of which readers see the
\* replay of a growing prefix.
THEOREM Refinement == Spec => ImplementsCommitLog
<1>1. Init => Abstract!CLInit
  BY InitCommitLog
<1>2. IInv /\ [Next]_vars => [Abstract!CLNext]_(Abstract!clVars)
  BY NextCommitLog
<1> QED BY <1>1, <1>2, Inductive, PTL DEF Spec, ImplementsCommitLog, Abstract!CLSpec
=============================================================================

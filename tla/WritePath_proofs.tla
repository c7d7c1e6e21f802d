--------------------------- MODULE WritePath_proofs ---------------------------
(***************************************************************************)
(* Proofs about WritePath for any set of requests, ids and payloads and    *)
(* any number of crashes.  The argument: IInv of WritePathInv holds        *)
(* initially, every step preserves it, and it implies the properties.      *)
(***************************************************************************)
EXTENDS WritePathInv, WalReplay_proofs

-----------------------------------------------------------------------------
(***************************************************************************)
(* Facts about the log and about Min and Max as start-up uses them.        *)
(***************************************************************************)

LEMMA IntervalGrows == \A n \in Nat : 1 .. n \subseteq 1 .. n + 1
OBVIOUS

\* The last sequence listed, or 0.
LEMMA LastListed ==
  ASSUME NEW n \in Nat
  PROVE  (IF 1 .. n = {} THEN 0 ELSE Max(1 .. n)) = n
<1>1. CASE n = 0
  BY <1>1
<1>2. CASE n # 0
  <2>1. n \in 1 .. n /\ \A y \in 1 .. n : n >= y
    BY <1>2
  <2>2. \A x \in 1 .. n : (\A y \in 1 .. n : x >= y) => x = n
    BY <2>1
  <2>3. Max(1 .. n) = n
    BY <2>1, <2>2 DEF Max
  <2> QED BY <2>1, <2>3
<1> QED BY <1>1, <1>2

LEMMA MinProps ==
  ASSUME NEW S \in SUBSET Nat, S # {}
  PROVE  /\ Min(S) \in S
         /\ \A y \in S : Min(S) <= y
<1>1. \E x \in S : \A y \in S : x <= y
  BY MinExists
<1> QED BY <1>1 DEF Min

LEMMA MaxOfTwo ==
  ASSUME NEW m \in Nat, NEW n \in Nat
  PROVE  Max({m, n}) = IF m <= n THEN n ELSE m
<1> DEFINE k == IF m <= n THEN n ELSE m
<1>1. k \in {m, n} /\ \A y \in {m, n} : k >= y
  OBVIOUS
<1>2. \A x \in {m, n} : (\A y \in {m, n} : x >= y) => x = k
  OBVIOUS
<1> QED BY <1>1, <1>2 DEF Max

\* A first-order form of LogShape.
LEMMA LogDomain ==
  ASSUME TypeOK, LogShape
  PROVE  \E n \in Nat : DOMAIN wal = 1 .. n /\ (n = shown \/ n = shown + 1)
<1>1. shown \in Nat
  BY DEF TypeOK
<1>2. PICK n \in {shown, shown + 1} : DOMAIN wal = 1 .. n
  BY DEF LogShape
<1>3. n \in Nat
  BY <1>1, <1>2
<1> QED BY <1>2, <1>3

-----------------------------------------------------------------------------
(***************************************************************************)
(* Types.                                                                  *)
(***************************************************************************)
LEMMA TypeInit == Init => TypeOK
BY MaxCrashesAssumption
   DEF Init, TypeOK, NoDocs, NoSeqs, NoDim, NoPut, Meta

LEMMA TypeNext == IInv /\ [Next]_vars => TypeOK'
<1> SUFFICES ASSUME IInv, [Next]_vars
             PROVE  TypeOK'
  OBVIOUS
<1>t. TypeOK /\ LogShape
  BY DEF IInv
<1>1. ASSUME NEW r \in Reqs, NEW w \in Writes, Submit(r, w)
      PROVE  TypeOK'
  <2>1. [req |-> r, ids |-> w.ids, doc |-> w.doc] \in Op
    BY WritesAssumption DEF Op, Write
  <2>2. AckedByOwnFlush \in SUBSET Reqs
    BY DEF AckedByOwnFlush
  <2> QED BY <1>1, <1>t, <2>1, <2>2
       DEF Submit, TypeOK, memory, netVars, storeVars, Working
<1>2. ASSUME NEW r \in Reqs, TakeBatch(r)
      PROVE  TypeOK'
  BY <1>2, <1>t DEF TakeBatch, Take, TypeOK, memory, netVars, storeVars, history, Working
<1>3. ASSUME NEW r \in Reqs, FindNothing(r)
      PROVE  TypeOK'
  BY <1>3, <1>t
     DEF FindNothing, TypeOK, serverVars, netVars, storeVars, history, Ended
<1>4. ASSUME NEW r \in Reqs, RejectBatch(r)
      PROVE  TypeOK'
  <2>1. AdoptedDim(dims, batch[r]) \in Nat
    BY <1>t, AdoptedDimType DEF TypeOK
  <2> QED BY <1>4, <1>t, <2>1
       DEF RejectBatch, TypeOK, memory, netVars, storeVars, history, Ended, Failed
<1>5. ASSUME NEW r \in Reqs, SendWalPut(r)
      PROVE  TypeOK'
  <2>1. AdoptedDim(dims, batch[r]) \in Nat
    BY <1>t, AdoptedDimType DEF TypeOK
  <2> QED BY <1>5, <1>t, <2>1
       DEF SendWalPut, Send, TypeOK, memory, storeVars, history, Working
<1>6. ASSUME NEW r \in Reqs, WalPutOk(r)
      PROVE  TypeOK'
  <2>1. /\ documents' \in [Ids -> Contents \cup {Absent}]
        /\ docSeqs' \in [Ids -> Nat]
    BY <1>6, <1>t, ApplyType DEF WalPutOk, Apply, TypeOK
  <2>2. walSeq' \in Nat
    BY <1>6, <1>t DEF WalPutOk, Apply, TypeOK
  <2>3. shown' \in Nat
    BY <1>6, <1>t, <2>2, MaxOfTwo DEF WalPutOk, Apply, TypeOK
  <2>4. metaPut' \in [Reqs -> [at : {"none", "sent", "stored"}, body : Meta]]
    BY <1>6, <1>t, <2>2 DEF WalPutOk, Apply, TypeOK, Meta
  <2> QED BY <1>6, <1>t, <2>1, <2>2, <2>3, <2>4
       DEF WalPutOk, Apply, TypeOK, storeVars, Working
<1>7. ASSUME NEW r \in Reqs, NEW o \in Ended, Return(r, o)
      PROVE  TypeOK'
  BY <1>7, <1>t DEF Return, TypeOK, memory, netVars, storeVars, history
<1>8. ASSUME NEW r \in Reqs, StoreWalPut(r)
      PROVE  TypeOK'
  <2>1. CASE putSeq[r] \in DOMAIN wal
    BY <1>8, <1>t, <2>1
       DEF StoreWalPut, Refuse, Create, TypeOK, serverVars, memory, taskVars, history
  <2>2. CASE putSeq[r] \notin DOMAIN wal
    <3>1. walPut' = [walPut EXCEPT ![r] = "stored"]
      BY <1>8, <2>2 DEF StoreWalPut, Refuse, Create
    <3>2. wal' = [s \in DOMAIN wal \cup {putSeq[r]} |->
                    IF s = putSeq[r] THEN batch[r] ELSE wal[s]]
      BY <1>8, <2>2 DEF StoreWalPut, Refuse, Create
    <3>3. batch[r] \in Seq(Op) /\ batch[r] # <<>> /\ putSeq[r] \in Nat \ {0}
      BY <1>8, <1>t DEF StoreWalPut, Refuse, Create, IInv, PutShape, PutOK, TypeOK
    <3>4. /\ DOMAIN wal' \subseteq Nat \ {0}
          /\ \A s \in DOMAIN wal' : wal'[s] \in Seq(Op) /\ wal'[s] # <<>>
          /\ toLoad \in SUBSET DOMAIN wal'
      BY <1>t, <3>2, <3>3 DEF TypeOK
    <3> QED BY <1>8, <1>t, <3>1, <3>4
         DEF StoreWalPut, Refuse, Create, TypeOK, serverVars, memory, taskVars, history
  <2> QED BY <2>1, <2>2
<1>9. ASSUME NEW r \in Reqs, StoreMetaPut(r)
      PROVE  TypeOK'
  BY <1>9, <1>t DEF StoreMetaPut, TypeOK, serverVars, memory, taskVars, history
<1>10. ASSUME Crash
       PROVE  TypeOK'
  <2>1. /\ documents' \in [Ids -> Contents \cup {Absent}]
        /\ docSeqs' \in [Ids -> Nat]
    BY <1>10 DEF Crash, NoDocs, NoSeqs
  <2>2. pc' \in [Reqs -> {"idle"} \cup Working \cup Ended]
    BY <1>10, <1>t DEF Crash, TypeOK, Ended, Failed
  <2>3. crashes' \in 0 .. MaxCrashes
    BY <1>10, <1>t, MaxCrashesAssumption DEF Crash, TypeOK
  <2> QED BY <1>10, <1>t, <2>1, <2>2, <2>3
       DEF Crash, TypeOK, NoDim, netVars, storeVars, history
<1>11. ASSUME LoadMetadata
       PROVE  TypeOK'
  BY <1>11, <1>t
     DEF LoadMetadata, TypeOK, Meta, memory, taskVars, netVars, storeVars, history
<1>12. ASSUME ListWal
       PROVE  TypeOK'
  <2>1. walSeq' \in Nat
    BY <1>12, <1>t, LogDomain, LastListed DEF ListWal, List
  <2> QED BY <1>12, <1>t, <2>1
       DEF ListWal, List, TypeOK, taskVars, netVars, storeVars, history
<1>13. ASSUME ReplayEntry
       PROVE  TypeOK'
  <2> DEFINE s == Min(toLoad)
  <2>1. s \in DOMAIN wal /\ s \in Nat
    BY <1>13, <1>t, MinProps DEF ReplayEntry, Replay, TypeOK
  <2>2. wal[s] \in Seq(Op)
    BY <1>t, <2>1 DEF TypeOK
  <2>3. /\ documents' \in [Ids -> Contents \cup {Absent}]
        /\ docSeqs' \in [Ids -> Nat]
    BY <1>13, <1>t, <2>1, <2>2, ApplyType DEF ReplayEntry, Replay, TypeOK
  <2> QED BY <1>13, <1>t, <2>3
       DEF ReplayEntry, Replay, TypeOK, taskVars, netVars, storeVars, history
<1>14. ASSUME PublishNamespace
       PROVE  TypeOK'
  <2>1. shown' \in Nat
    BY <1>14, <1>t, MaxOfTwo DEF PublishNamespace, Publish, TypeOK
  <2> QED BY <1>14, <1>t, <2>1
       DEF PublishNamespace, Publish, TypeOK, memory, taskVars, netVars, storeVars
<1>15. ASSUME UNCHANGED vars
       PROVE  TypeOK'
  BY <1>15, <1>t
     DEF vars, TypeOK, serverVars, taskVars, netVars, storeVars, history
<1>16. \A r \in Reqs :
         WalPutConflict(r) \/ WalPutError(r) \/ MetaPutOk(r) \/ MetaPutError(r)
         \/ Cancel(r) => \E o \in Ended : Return(r, o)
  BY DEF WalPutConflict, WalPutError, MetaPutOk, MetaPutError, Cancel, Ended, Failed
<1> QED
  BY <1>1, <1>2, <1>3, <1>4, <1>5, <1>6, <1>7, <1>8, <1>9, <1>10, <1>11, <1>12,
     <1>13, <1>14, <1>15, <1>16
     DEF Next, Task, Load, AllAnswered

-----------------------------------------------------------------------------
(***************************************************************************)
(* The log and what readers have seen of it.                               *)
(***************************************************************************)

\* A PUT that creates an entry creates the one after the last visible.
LEMMA NewEntry ==
  ASSUME IInv, NEW r \in Reqs, StoreWalPut(r), putSeq[r] \notin DOMAIN wal
  PROVE  /\ putSeq[r] = shown + 1
         /\ DOMAIN wal = 1 .. shown
         /\ DOMAIN wal' = 1 .. shown + 1
         /\ wal'[shown + 1] = batch[r]
         /\ \A s \in 1 .. shown : wal'[s] = wal[s]
         /\ walPut' = [walPut EXCEPT ![r] = "stored"]
<1>1. TypeOK /\ LogShape /\ putSeq[r] \in 1 .. shown + 1 /\ shown \in Nat
  BY DEF IInv, PutShape, PutOK, StoreWalPut, Refuse, Create, TypeOK
<1>2. PICK n \in Nat : DOMAIN wal = 1 .. n /\ (n = shown \/ n = shown + 1)
  BY <1>1, LogDomain
<1>3. n = shown /\ putSeq[r] = shown + 1
  BY <1>1, <1>2
<1>4. 1 .. shown + 1 = (1 .. shown) \cup {shown + 1}
  BY <1>1
<1>5. wal' = [s \in DOMAIN wal \cup {putSeq[r]} |->
                IF s = putSeq[r] THEN batch[r] ELSE wal[s]]
  BY DEF StoreWalPut, Refuse, Create
<1>6. shown + 1 \notin 1 .. shown
  BY <1>1
<1>7. walPut' = [walPut EXCEPT ![r] = "stored"]
  BY DEF StoreWalPut, Refuse, Create
<1>8. DOMAIN wal' = 1 .. shown + 1
  BY <1>2, <1>3, <1>4, <1>5
<1>9. \A s \in DOMAIN wal' :
        wal'[s] = IF s = putSeq[r] THEN batch[r] ELSE wal[s]
  BY <1>5
<1>10. wal'[shown + 1] = batch[r] /\ \A s \in 1 .. shown : wal'[s] = wal[s]
  BY <1>1, <1>3, <1>8, <1>9
<1> QED BY <1>2, <1>3, <1>7, <1>8, <1>10

\* An entry that is applied is the one after the last visible.
LEMMA NewView ==
  ASSUME IInv, NEW r \in Reqs, WalPutOk(r)
  PROVE  /\ server = "up" /\ lock = {r}
         /\ putSeq[r] = walSeq + 1 /\ walSeq = shown
         /\ walSeq' = shown + 1 /\ shown' = shown + 1
         /\ shown + 1 \in DOMAIN wal
         /\ wal[shown + 1] = batch[r]
<1>1. /\ TypeOK
      /\ server = "up" /\ lock = {r} /\ walSeq = shown
      /\ putSeq[r] = walSeq + 1
      /\ putSeq[r] \in DOMAIN wal /\ wal[putSeq[r]] = batch[r]
  BY DEF IInv, TaskShape, TaskOK, PutShape, PutOK, ServerShape, WalPutOk, Apply, Working, Held
<1>2. shown \in Nat /\ shown <= shown + 1 /\ shown + 1 \in Nat
  BY <1>1 DEF TypeOK
<1>3. walSeq' = shown + 1 /\ shown' = shown + 1
  BY <1>1, <1>2, MaxOfTwo DEF WalPutOk, Apply
<1> QED BY <1>1, <1>3

\* What start-up publishes includes all that was visible before.
LEMMA PublishedView ==
  ASSUME IInv, PublishNamespace
  PROVE  /\ walSeq \in Nat /\ shown <= walSeq
         /\ walSeq \in {0} \cup DOMAIN wal
         /\ shown' = walSeq /\ walSeq' = walSeq
<1>1. /\ TypeOK /\ walSeq \in {0} \cup DOMAIN wal /\ shown <= walSeq
  BY DEF IInv, ServerShape, PublishNamespace, Publish
<1>2. walSeq \in Nat /\ shown \in Nat
  BY <1>1 DEF TypeOK
<1> QED BY <1>1, <1>2, MaxOfTwo DEF PublishNamespace, Publish, memory

\* The steps that change the log or the visible prefix.
LEMMA LogSteps ==
  ASSUME IInv, [Next]_vars
  PROVE  \/ UNCHANGED <<wal, shown>>
         \/ \E r \in Reqs : StoreWalPut(r) /\ putSeq[r] \notin DOMAIN wal
         \/ \E r \in Reqs : WalPutOk(r)
         \/ PublishNamespace
<1>1. ASSUME NEW r \in Reqs, StoreWalPut(r), putSeq[r] \in DOMAIN wal
      PROVE  UNCHANGED <<wal, shown>>
  BY <1>1 DEF StoreWalPut, Refuse, Create, history
<1>2. ASSUME NEW r \in Reqs,
             \/ \E w \in Writes : Submit(r, w)
             \/ TakeBatch(r) \/ FindNothing(r)
             \/ RejectBatch(r) \/ SendWalPut(r)
             \/ WalPutConflict(r) \/ WalPutError(r)
             \/ MetaPutOk(r) \/ MetaPutError(r)
             \/ Cancel(r) \/ StoreMetaPut(r)
      PROVE  UNCHANGED <<wal, shown>>
  BY <1>2 DEF Submit, TakeBatch, Take, FindNothing, RejectBatch, SendWalPut, Send,
              WalPutConflict, WalPutError, MetaPutOk, MetaPutError, Cancel,
              Return, StoreMetaPut, storeVars, history
<1>3. ASSUME Crash \/ LoadMetadata \/ ListWal \/ ReplayEntry \/ UNCHANGED vars
      PROVE  UNCHANGED <<wal, shown>>
  BY <1>3 DEF Crash, LoadMetadata, ListWal, List, ReplayEntry, Replay, vars, storeVars, history
<1> QED BY <1>1, <1>2, <1>3 DEF Next, Task, Load, AllAnswered

\* The log is append only.
LEMMA LogGrows ==
  ASSUME IInv, [Next]_vars
  PROVE  \A s \in DOMAIN wal : s \in DOMAIN wal' /\ wal'[s] = wal[s]
<1>1. CASE UNCHANGED wal
  BY <1>1
<1>2. ASSUME NEW r \in Reqs, StoreWalPut(r), putSeq[r] \notin DOMAIN wal
      PROVE  \A s \in DOMAIN wal : s \in DOMAIN wal' /\ wal'[s] = wal[s]
  <2>1. shown \in Nat
    BY DEF IInv, TypeOK
  <2> QED BY <1>2, <2>1, NewEntry
<1>3. \A r \in Reqs : WalPutOk(r) => UNCHANGED wal
  BY DEF WalPutOk, Apply, storeVars
<1>4. PublishNamespace => UNCHANGED wal
  BY DEF PublishNamespace, Publish, storeVars
<1> QED BY <1>1, <1>2, <1>3, <1>4, LogSteps

LEMMA LogShapeNext ==
  ASSUME IInv, [Next]_vars
  PROVE  LogShape'
<1>1. TypeOK /\ LogShape /\ shown \in Nat
  BY DEF IInv, TypeOK
<1>2. PICK n \in Nat : DOMAIN wal = 1 .. n /\ (n = shown \/ n = shown + 1)
  BY <1>1, LogDomain
<1>3. CASE UNCHANGED <<wal, shown>>
  BY <1>1, <1>3 DEF LogShape
<1>4. ASSUME NEW r \in Reqs, StoreWalPut(r), putSeq[r] \notin DOMAIN wal
      PROVE  LogShape'
  <2>1. shown' = shown
    BY <1>4 DEF StoreWalPut, Refuse, Create, history
  <2> QED BY <1>4, <2>1, NewEntry DEF LogShape
<1>5. ASSUME NEW r \in Reqs, WalPutOk(r)
      PROVE  LogShape'
  <2>1. shown' = shown + 1 /\ shown + 1 \in DOMAIN wal
    BY <1>5, NewView
  <2>2. n = shown + 1 /\ wal' = wal
    BY <1>1, <1>2, <1>5, <2>1 DEF WalPutOk, Apply, storeVars
  <2> QED BY <1>2, <2>1, <2>2 DEF LogShape
<1>6. CASE PublishNamespace
  <2>1. /\ walSeq \in Nat /\ shown <= walSeq /\ shown' = walSeq
        /\ walSeq \in {0} \cup DOMAIN wal
    BY <1>6, PublishedView
  <2>2. wal' = wal
    BY <1>6 DEF PublishNamespace, Publish, storeVars
  <2>3. n = shown' \/ n = shown' + 1
    BY <1>1, <1>2, <2>1
  <2> QED BY <1>2, <2>2, <2>3 DEF LogShape
<1> QED BY <1>3, <1>4, <1>5, <1>6, LogSteps

-----------------------------------------------------------------------------
(***************************************************************************)
(* Tasks and their PUTs.                                                   *)
(***************************************************************************)

\* Readers' view of the log never shrinks.
LEMMA ShownGrows ==
  ASSUME IInv, [Next]_vars
  PROVE  shown \in Nat /\ shown' \in Nat /\ shown <= shown'
<1>1. shown \in Nat
  BY DEF IInv, TypeOK
<1>2. \A r \in Reqs : StoreWalPut(r) => shown' = shown
  BY DEF StoreWalPut, Refuse, Create, history
<1> QED BY <1>1, <1>2, LogSteps, NewView, PublishedView

LEMMA TaskShapeNext ==
  ASSUME IInv, [Next]_vars
  PROVE  TaskShape'
<1> SUFFICES ASSUME NEW q \in Reqs
             PROVE  TaskOK(q)'
  BY DEF TaskShape
<1>t. /\ TypeOK /\ ServerShape
      /\ TaskOK(q) /\ \A r \in Reqs : TaskOK(r)
      /\ shown \in Nat /\ shown' \in Nat /\ shown <= shown'
  BY ShownGrows DEF IInv, TaskShape
<1>p. /\ pc \in [Reqs -> {"idle"} \cup Working \cup Ended]
      /\ batch \in [Reqs -> Seq(Op)]
      /\ putSeq \in [Reqs -> Nat]
      /\ walPut \in [Reqs -> {"none", "sent", "stored", "exists"}]
      /\ buffer \in Seq(Op) /\ walSeq \in Nat
  BY <1>t DEF TypeOK
<1>1. ASSUME NEW r \in Reqs, NEW w \in Writes, Submit(r, w)
      PROVE  TaskOK(q)'
  BY <1>1, <1>t, <1>p
     DEF Submit, TaskOK, memory, netVars, Working, Held
<1>2. ASSUME NEW r \in Reqs, TakeBatch(r)
      PROVE  TaskOK(q)'
  BY <1>2, <1>t, <1>p
     DEF TakeBatch, Take, TaskOK, memory, netVars, history, Working, Held
<1>3. ASSUME NEW r \in Reqs, FindNothing(r)
      PROVE  TaskOK(q)'
  BY <1>3, <1>t, <1>p
     DEF FindNothing, TaskOK, serverVars, memory, netVars, history, Working, Held
<1>4. ASSUME NEW r \in Reqs, RejectBatch(r)
      PROVE  TaskOK(q)'
  BY <1>4, <1>t, <1>p
     DEF RejectBatch, TaskOK, memory, netVars, history, Working, Held
<1>5. ASSUME NEW r \in Reqs, SendWalPut(r)
      PROVE  TaskOK(q)'
  BY <1>5, <1>t, <1>p
     DEF SendWalPut, Send, TaskOK, memory, history, Working, Held
<1>6. ASSUME NEW r \in Reqs, WalPutOk(r)
      PROVE  TaskOK(q)'
  <2>1. /\ lock = {r} /\ putSeq[r] = shown + 1 /\ shown' = shown + 1
    BY <1>6, NewView
  <2>2. /\ server' = server /\ lock' = lock
        /\ batch' = batch /\ putSeq' = putSeq /\ walPut' = walPut
        /\ walPut[r] = "stored" /\ pc[r] = "wal"
        /\ pc' = [pc EXCEPT ![r] = "meta"]
    BY <1>6 DEF WalPutOk, Apply
  <2>3. CASE q = r
    <3>1. pc'[q] = "meta" /\ putSeq[q] <= shown' /\ batch[q] # <<>> /\ server = "up"
      BY <1>t, <1>p, <2>1, <2>2, <2>3 DEF TaskOK, Working
    <3> QED BY <2>1, <2>2, <2>3, <3>1 DEF TaskOK, Held
  <2>4. CASE q # r
    <3>1. pc'[q] = pc[q] /\ pc[q] \notin Held
      BY <1>t, <1>p, <2>1, <2>2, <2>4 DEF TaskOK
    <3> QED BY <1>t, <1>p, <2>2, <3>1 DEF TaskOK, Held
  <2> QED BY <2>3, <2>4
<1>7. ASSUME NEW r \in Reqs,
             WalPutConflict(r) \/ WalPutError(r) \/ MetaPutOk(r)
             \/ MetaPutError(r) \/ Cancel(r)
      PROVE  TaskOK(q)'
  <2>1. PICK o \in Ended :
          /\ Return(r, o)
          /\ pc[r] \in Working
          /\ o = "conflict" => walPut[r] = "exists"
          /\ o = "ok" => pc[r] = "meta"
          /\ o # "mismatch"
    BY <1>7 DEF WalPutConflict, WalPutError, MetaPutOk, MetaPutError, Cancel,
                Working, Ended, Failed
  <2> QED BY <1>t, <1>p, <2>1
       DEF Return, TaskOK, memory, netVars, history, Working, Held, Ended, Failed
<1>8. ASSUME NEW r \in Reqs, StoreWalPut(r)
      PROVE  TaskOK(q)'
  <2>1. \/ walPut' = [walPut EXCEPT ![r] = "exists"]
        \/ walPut' = [walPut EXCEPT ![r] = "stored"]
    BY <1>8 DEF StoreWalPut, Refuse, Create
  <2> QED BY <1>8, <1>t, <1>p, <2>1
       DEF StoreWalPut, Refuse, Create, TaskOK, serverVars, memory, taskVars, history, Working, Held
<1>9. ASSUME NEW r \in Reqs, StoreMetaPut(r)
      PROVE  TaskOK(q)'
  BY <1>9, <1>t DEF StoreMetaPut, TaskOK, serverVars, memory, taskVars, history
<1>10. ASSUME Crash
       PROVE  TaskOK(q)'
  BY <1>10, <1>t, <1>p
     DEF Crash, TaskOK, netVars, history, Working, Held
<1>11. ASSUME LoadMetadata \/ ListWal \/ ReplayEntry \/ PublishNamespace
       PROVE  TaskOK(q)'
  <2>1. server # "up" /\ lock' = lock /\ UNCHANGED <<taskVars, netVars>>
    BY <1>11 DEF LoadMetadata, ListWal, List, ReplayEntry, Replay, PublishNamespace, Publish
  <2> QED BY <1>t, <1>p, <2>1 DEF TaskOK, taskVars, netVars, Working, Held
<1>12. ASSUME UNCHANGED vars
       PROVE  TaskOK(q)'
  BY <1>12, <1>t
     DEF vars, TaskOK, serverVars, taskVars, netVars, history
<1> QED
  BY <1>1, <1>2, <1>3, <1>4, <1>5, <1>6, <1>7, <1>8, <1>9, <1>10, <1>11, <1>12
     DEF Next, Task, Load, AllAnswered

LEMMA PutShapeNext ==
  ASSUME IInv, [Next]_vars
  PROVE  PutShape'
<1> SUFFICES ASSUME NEW q \in Reqs
             PROVE  PutOK(q)'
  BY DEF PutShape
<1>t. /\ TypeOK /\ ServerShape /\ TaskShape /\ PutOK(q)
      /\ shown \in Nat /\ shown' \in Nat /\ shown <= shown'
      /\ \A s \in DOMAIN wal : s \in DOMAIN wal' /\ wal'[s] = wal[s]
  BY ShownGrows, LogGrows DEF IInv, PutShape
<1>p. /\ batch \in [Reqs -> Seq(Op)]
      /\ putSeq \in [Reqs -> Nat]
      /\ walPut \in [Reqs -> {"none", "sent", "stored", "exists"}]
  BY <1>t DEF TypeOK
\* The batch and the sequence of a PUT never change once it is sent.
<1>1. CASE batch'[q] = batch[q] /\ putSeq'[q] = putSeq[q] /\ walPut'[q] = walPut[q]
  BY <1>1, <1>t, <1>p DEF PutOK
<1>2. ASSUME TakeBatch(q)
      PROVE  PutOK(q)'
  <2>1. walPut[q] = "none"
    BY <1>2, <1>t DEF TakeBatch, Take, TaskShape, TaskOK
  <2> QED BY <1>2, <2>1 DEF TakeBatch, Take, PutOK, netVars
<1>3. ASSUME SendWalPut(q)
      PROVE  PutOK(q)'
  <2>1. batch[q] # <<>> /\ walSeq = shown
    BY <1>3, <1>t DEF SendWalPut, Send, TaskShape, TaskOK, ServerShape, Working
  <2> QED BY <1>3, <1>t, <1>p, <2>1 DEF SendWalPut, Send, PutOK, history
<1>4. ASSUME StoreWalPut(q)
      PROVE  PutOK(q)'
  <2>1. UNCHANGED <<batch, putSeq>> /\ walPut[q] = "sent"
    BY <1>4 DEF StoreWalPut, Refuse, Create, taskVars
  <2>2. CASE putSeq[q] \in DOMAIN wal
    BY <1>4, <1>t, <1>p, <2>1, <2>2 DEF StoreWalPut, Refuse, Create, PutOK, history
  <2>3. CASE putSeq[q] \notin DOMAIN wal
    BY <1>4, <1>t, <1>p, <2>1, <2>3, NewEntry DEF PutOK
  <2> QED BY <2>2, <2>3
<1>5. ASSUME NEW r \in Reqs,
             \/ TakeBatch(r) /\ r # q
             \/ SendWalPut(r) /\ r # q
             \/ StoreWalPut(r) /\ r # q
      PROVE  batch'[q] = batch[q] /\ putSeq'[q] = putSeq[q] /\ walPut'[q] = walPut[q]
  BY <1>5, <1>p DEF TakeBatch, Take, SendWalPut, Send, StoreWalPut, Refuse, Create, netVars, taskVars
<1>6. ASSUME NEW r \in Reqs,
             \/ \E w \in Writes : Submit(r, w)
             \/ FindNothing(r) \/ RejectBatch(r) \/ WalPutOk(r)
             \/ WalPutConflict(r) \/ WalPutError(r)
             \/ MetaPutOk(r) \/ MetaPutError(r)
             \/ Cancel(r) \/ StoreMetaPut(r)
      PROVE  batch' = batch /\ putSeq' = putSeq /\ walPut' = walPut
  BY <1>6 DEF Submit, FindNothing, RejectBatch, WalPutOk, Apply,
              WalPutConflict, WalPutError, MetaPutOk, MetaPutError, Cancel,
              Return, StoreMetaPut, netVars, taskVars
<1>7. ASSUME \/ Crash \/ LoadMetadata \/ ListWal \/ ReplayEntry
             \/ PublishNamespace \/ UNCHANGED vars
      PROVE  batch' = batch /\ putSeq' = putSeq /\ walPut' = walPut
  BY <1>7 DEF Crash, LoadMetadata, ListWal, List, ReplayEntry, Replay, PublishNamespace, Publish,
              vars, netVars, taskVars
<1> QED
  BY <1>1, <1>2, <1>3, <1>4, <1>5, <1>6, <1>7 DEF Next, Task, Load, AllAnswered

\* The metadata a task has sent, and meta.bin, name entries of the log.
LEMMA MetaShapeNext ==
  ASSUME IInv, [Next]_vars
  PROVE  MetaShape'
<1>t. /\ MetaShape
      /\ metaPut \in [Reqs -> [at : {"none", "sent", "stored"}, body : Meta]]
      /\ DOMAIN wal \subseteq DOMAIN wal'
  BY LogGrows DEF IInv, TypeOK
<1>1. CASE UNCHANGED <<meta, metaPut>>
  BY <1>1, <1>t DEF MetaShape
<1>2. ASSUME NEW r \in Reqs, WalPutOk(r)
      PROVE  MetaShape'
  <2>1. walSeq' \in DOMAIN wal
    BY <1>2, NewView
  <2>2. \A q \in Reqs : metaPut'[q].body.seq = metaPut[q].body.seq
                        \/ metaPut'[q].body.seq = walSeq'
    BY <1>2, <1>t DEF WalPutOk, Apply
  <2> QED BY <1>2, <1>t, <2>1, <2>2 DEF WalPutOk, Apply, MetaShape, storeVars
<1>3. ASSUME NEW r \in Reqs, StoreMetaPut(r)
      PROVE  MetaShape'
  <2>1. meta' = metaPut[r].body /\ \A q \in Reqs : metaPut'[q].body = metaPut[q].body
    BY <1>3, <1>t DEF StoreMetaPut
  <2> QED BY <1>t, <2>1 DEF MetaShape
<1>4. ASSUME NEW r \in Reqs,
             \/ \E w \in Writes : Submit(r, w)
             \/ TakeBatch(r) \/ FindNothing(r)
             \/ RejectBatch(r) \/ SendWalPut(r)
             \/ WalPutConflict(r) \/ WalPutError(r)
             \/ MetaPutOk(r) \/ MetaPutError(r)
             \/ Cancel(r) \/ StoreWalPut(r)
      PROVE  UNCHANGED <<meta, metaPut>>
  BY <1>4 DEF Submit, TakeBatch, Take, FindNothing, RejectBatch, SendWalPut, Send,
              WalPutConflict, WalPutError, MetaPutOk, MetaPutError, Cancel,
              Return, StoreWalPut, Refuse, Create, storeVars, netVars
<1>5. ASSUME \/ Crash \/ LoadMetadata \/ ListWal \/ ReplayEntry
             \/ PublishNamespace \/ UNCHANGED vars
      PROVE  UNCHANGED <<meta, metaPut>>
  BY <1>5 DEF Crash, LoadMetadata, ListWal, List, ReplayEntry, Replay, PublishNamespace, Publish,
              vars, netVars, storeVars
<1> QED BY <1>1, <1>2, <1>3, <1>4, <1>5 DEF Next, Task, Load, AllAnswered

-----------------------------------------------------------------------------
(***************************************************************************)
(* The server process and its memory.                                      *)
(***************************************************************************)

\* The entry start-up replays next is the one after those it has replayed.
LEMMA NextToReplay ==
  ASSUME NEW n \in Nat, NEW k \in 0 .. n, k + 1 .. n # {}
  PROVE  /\ k < n
         /\ Min(k + 1 .. n) = k + 1
         /\ (k + 1 .. n) \ {k + 1} = (k + 1) + 1 .. n
<1>1. k < n
  OBVIOUS
<1> DEFINE S == k + 1 .. n
<1>2. S \in SUBSET Nat /\ k + 1 \in S
  BY <1>1
<1>3. Min(S) \in S /\ Min(S) <= k + 1
  <2> HIDE DEF S
  <2> QED BY <1>2, MinProps
<1> QED BY <1>1, <1>3

LEMMA ServerShapeNext ==
  ASSUME IInv, [Next]_vars
  PROVE  ServerShape'
<1>t. /\ TypeOK /\ ServerShape /\ LogShape' /\ TaskShape
      /\ shown \in Nat /\ shown' \in Nat /\ shown <= shown'
      /\ \A s \in DOMAIN wal : s \in DOMAIN wal'
  BY ShownGrows, LogGrows, LogShapeNext DEF IInv
<1>1. DOMAIN wal' \subseteq 1 .. shown' + 1
  <2>1. PICK n \in {shown', shown' + 1} : DOMAIN wal' = 1 .. n
    BY <1>t DEF LogShape
  <2>2. shown' \in Nat
    BY ShownGrows
  <2>3. 1 .. shown' \subseteq 1 .. shown' + 1
    BY <2>2, IntervalGrows
  <2> QED BY <2>1, <2>3
<1>2. ASSUME UNCHANGED <<server, documents, docSeqs, walSeq, shown, toLoad>>,
             lock' \subseteq lock \/ server = "up",
             buffer' = buffer \/ server = "up"
      PROVE  ServerShape'
  BY <1>1, <1>2, <1>t DEF ServerShape
<1>3. ASSUME NEW r \in Reqs, WalPutOk(r)
      PROVE  ServerShape'
  <2>1. server = "up" /\ server' = "up" /\ shown' = shown + 1 /\ walSeq' = shown'
        /\ shown' \in DOMAIN wal
    BY <1>3, NewView DEF WalPutOk, Apply
  <2> QED BY <1>1, <1>t, <2>1 DEF ServerShape
<1>4. CASE Crash
  BY <1>1, <1>4, <1>t DEF Crash, ServerShape, history, storeVars
<1>5. CASE LoadMetadata
  BY <1>1, <1>5, <1>t DEF LoadMetadata, ServerShape, history, storeVars, memory
<1>6. CASE ListWal
  <2>1. PICK n \in Nat : DOMAIN wal = 1 .. n /\ (n = shown \/ n = shown + 1)
    BY LogDomain DEF IInv
  <2>2. walSeq' = n /\ toLoad' = 0 + 1 .. n
    BY <1>6, <2>1, LastListed DEF ListWal, List
  <2>3. 0 \in 0 .. n /\ n \in {0} \cup DOMAIN wal /\ shown <= n
    BY <1>t, <2>1
  <2>4. /\ server' = "replaying" /\ wal' = wal /\ shown' = shown
        /\ buffer' = buffer /\ lock' = lock /\ server = "listing"
    BY <1>6 DEF ListWal, List, history, storeVars
  <2> QED BY <1>1, <1>t, <2>2, <2>3, <2>4 DEF ServerShape
<1>7. CASE ReplayEntry
  <2>1. /\ server = "replaying" /\ server' = "replaying"
        /\ UNCHANGED <<wal, shown, buffer, lock, walSeq>>
        /\ toLoad # {} /\ toLoad' = toLoad \ {Min(toLoad)}
    BY <1>7 DEF ReplayEntry, Replay, history, storeVars
  <2>2. walSeq \in Nat
    BY <1>t DEF TypeOK
  <2>3. PICK k \in 0 .. walSeq : toLoad = k + 1 .. walSeq
    BY <1>t, <2>1 DEF ServerShape
  <2>4. k + 1 \in 0 .. walSeq /\ toLoad' = (k + 1) + 1 .. walSeq
    BY <2>1, <2>2, <2>3, NextToReplay
  <2> QED BY <1>1, <1>t, <2>1, <2>4 DEF ServerShape
<1>8. CASE PublishNamespace
  <2>1. shown' = walSeq' /\ walSeq \in {0} \cup DOMAIN wal
    BY <1>8, PublishedView
  <2> QED BY <1>1, <1>8, <1>t, <2>1
       DEF PublishNamespace, Publish, ServerShape, memory, storeVars
<1>9. \A r \in Reqs : pc[r] \in Working => server = "up"
  BY <1>t DEF TaskShape, TaskOK
<1>10. ASSUME NEW r \in Reqs,
              \/ \E w \in Writes : Submit(r, w)
              \/ TakeBatch(r) \/ FindNothing(r)
              \/ RejectBatch(r) \/ SendWalPut(r)
              \/ WalPutConflict(r) \/ WalPutError(r)
              \/ MetaPutOk(r) \/ MetaPutError(r)
              \/ Cancel(r)
       PROVE  /\ UNCHANGED <<server, documents, docSeqs, walSeq, shown, toLoad>>
              /\ server = "up"
  BY <1>9, <1>10
     DEF Submit, TakeBatch, Take, FindNothing, RejectBatch, SendWalPut, Send,
         WalPutConflict, WalPutError, MetaPutOk, MetaPutError, Cancel,
         Return, serverVars, memory, history, Working
<1>11. ASSUME \/ \E r \in Reqs : StoreWalPut(r) \/ StoreMetaPut(r)
              \/ UNCHANGED vars
       PROVE  UNCHANGED <<server, documents, docSeqs, walSeq, shown, toLoad,
                          buffer, lock>>
  BY <1>11 DEF StoreWalPut, Refuse, Create, StoreMetaPut, vars, serverVars, memory, history
<1> QED
  BY <1>2, <1>3, <1>4, <1>5, <1>6, <1>7, <1>8, <1>10, <1>11
     DEF Next, Task, Load, AllAnswered

LEMMA MemoryShapeNext ==
  ASSUME IInv, [Next]_vars
  PROVE  MemoryShape'
<1>t. /\ TypeOK /\ ServerShape /\ MemoryShape /\ TaskShape
      /\ \A s \in DOMAIN wal : s \in DOMAIN wal' /\ wal'[s] = wal[s]
      /\ walSeq \in Nat
  BY LogGrows DEF IInv, TypeOK
<1>d. PICK n \in Nat : DOMAIN wal = 1 .. n
  BY LogDomain DEF IInv
\* Entries appended to the log do not disturb a replay of the earlier ones.
<1>f. ASSUME NEW k \in Nat, k \in {0} \cup DOMAIN wal, NEW d, NEW q,
             ReplayOf(wal, k, d, q)
      PROVE  ReplayOf(wal', k, d, q)
  <2>1. \A s \in 1 .. k : s \in DOMAIN wal
    BY <1>d, <1>f
  <2> QED BY <1>f, <1>t, <2>1, ReplayFrame
<1>1. ASSUME UNCHANGED <<server, documents, docSeqs, walSeq, toLoad>>
      PROVE  MemoryShape'
  <2>1. CASE server = "up"
    <3>1. walSeq \in {0} \cup DOMAIN wal
      BY <1>t, <2>1 DEF ServerShape
    <3> QED BY <1>1, <1>f, <1>t, <2>1, <3>1 DEF MemoryShape
  <2>2. CASE server = "replaying"
    <3>1. walSeq \in {0} \cup DOMAIN wal
      BY <1>t, <2>2 DEF ServerShape
    <3>2. \A k \in 0 .. walSeq : k \in Nat /\ k \in {0} \cup DOMAIN wal
      BY <1>d, <1>t, <3>1
    <3> QED BY <1>1, <1>f, <1>t, <2>2, <3>2 DEF MemoryShape
  <2>3. CASE server \notin {"up", "replaying"}
    BY <1>1, <2>3 DEF MemoryShape
  <2> QED BY <2>1, <2>2, <2>3
<1>2. ASSUME NEW r \in Reqs, WalPutOk(r)
      PROVE  MemoryShape'
  <2>1. /\ server = "up" /\ walSeq = shown /\ putSeq[r] = walSeq + 1
        /\ walSeq' = walSeq + 1 /\ walSeq + 1 \in DOMAIN wal
        /\ wal[walSeq + 1] = batch[r]
    BY <1>2, NewView
  <2>2. /\ documents' = ApplyDocs(documents, wal[walSeq + 1])
        /\ docSeqs' = ApplySeqs(docSeqs, wal[walSeq + 1], walSeq + 1)
        /\ wal' = wal /\ server' = "up"
    BY <1>2, <2>1 DEF WalPutOk, Apply, storeVars
  <2>3. wal[walSeq + 1] \in Seq(Op) /\ ReplayOf(wal, walSeq, documents, docSeqs)
    BY <1>t, <2>1 DEF TypeOK, MemoryShape
  <2>4. ReplayOf(wal, walSeq + 1, documents', docSeqs')
    BY <1>t, <2>2, <2>3, ReplayStep
  <2> QED BY <2>1, <2>2, <2>4 DEF MemoryShape
<1>3. CASE Crash \/ LoadMetadata
  BY <1>3 DEF Crash, LoadMetadata, MemoryShape
<1>4. CASE ListWal
  <2>1. /\ walSeq' = n /\ toLoad' = 1 .. n
        /\ documents' = NoDocs /\ docSeqs' = NoSeqs
        /\ server' = "replaying" /\ wal' = wal
    BY <1>4, <1>d, <1>t, LastListed DEF ListWal, List, ServerShape, storeVars
  <2>2. \A k \in 0 .. n : 1 .. n = k + 1 .. n => k = 0
    <3> SUFFICES ASSUME NEW k \in 0 .. n, 1 .. n = k + 1 .. n, k # 0
                 PROVE  FALSE
      OBVIOUS
    <3>1. 1 \in 1 .. n /\ 1 \notin k + 1 .. n
      OBVIOUS
    <3> QED BY <3>1
  <2>3. ReplayOf(wal, 0, NoDocs, NoSeqs)
    BY DEF ReplayOf, NoDocs, NoSeqs
  <2> QED BY <2>1, <2>2, <2>3 DEF MemoryShape
<1>5. CASE ReplayEntry
  <2>1. /\ server = "replaying" /\ server' = "replaying"
        /\ wal' = wal /\ walSeq' = walSeq
        /\ toLoad # {} /\ toLoad' = toLoad \ {Min(toLoad)}
        /\ documents' = ApplyDocs(documents, wal[Min(toLoad)])
        /\ docSeqs' = ApplySeqs(docSeqs, wal[Min(toLoad)], Min(toLoad))
    BY <1>5 DEF ReplayEntry, Replay, storeVars
  <2>2. walSeq \in {0} \cup DOMAIN wal
    BY <1>t, <2>1 DEF ServerShape
  <2>3. PICK k \in 0 .. walSeq : toLoad = k + 1 .. walSeq
    BY <1>t, <2>1 DEF ServerShape
  <2>4. /\ k < walSeq /\ Min(toLoad) = k + 1
        /\ toLoad' = (k + 1) + 1 .. walSeq
    BY <1>t, <2>1, <2>3, NextToReplay
  <2>5. k \in Nat /\ k + 1 \in DOMAIN wal
    BY <1>d, <1>t, <2>2, <2>4
  <2>6. wal[k + 1] \in Seq(Op) /\ ReplayOf(wal, k, documents, docSeqs)
    BY <1>t, <2>1, <2>3, <2>5 DEF TypeOK, MemoryShape
  <2>7. ReplayOf(wal, k + 1, documents', docSeqs')
    BY <2>1, <2>4, <2>5, <2>6, ReplayStep
  <2>8. \A j \in 0 .. walSeq : toLoad' = j + 1 .. walSeq => j = k + 1
    <3> SUFFICES ASSUME NEW j \in 0 .. walSeq,
                        (k + 1) + 1 .. walSeq = j + 1 .. walSeq, j # k + 1
                 PROVE  FALSE
      BY <2>4
    <3>1. CASE j < k + 1
      <4>1. j + 1 \in j + 1 .. walSeq /\ j + 1 \notin (k + 1) + 1 .. walSeq
        BY <1>t, <2>4, <2>5, <3>1
      <4> QED BY <4>1
    <3>2. CASE k + 1 < j
      <4>1. (k + 1) + 1 \in (k + 1) + 1 .. walSeq /\ (k + 1) + 1 \notin j + 1 .. walSeq
        BY <1>t, <2>4, <2>5, <3>2
      <4> QED BY <4>1
    <3> QED BY <2>5, <3>1, <3>2
  <2> QED BY <2>1, <2>7, <2>8 DEF MemoryShape
<1>6. CASE PublishNamespace
  <2>1. /\ server = "replaying" /\ server' = "up" /\ toLoad = {}
        /\ UNCHANGED <<wal, walSeq, documents, docSeqs>>
    BY <1>6 DEF PublishNamespace, Publish, storeVars, memory
  <2>2. walSeq \in 0 .. walSeq /\ toLoad = walSeq + 1 .. walSeq
    BY <1>t, <2>1
  <2> QED BY <1>t, <2>1, <2>2 DEF MemoryShape
<1>7. ASSUME NEW r \in Reqs,
             \/ \E w \in Writes : Submit(r, w)
             \/ TakeBatch(r) \/ FindNothing(r)
             \/ RejectBatch(r) \/ SendWalPut(r)
             \/ WalPutConflict(r) \/ WalPutError(r)
             \/ MetaPutOk(r) \/ MetaPutError(r)
             \/ Cancel(r) \/ StoreWalPut(r) \/ StoreMetaPut(r)
      PROVE  UNCHANGED <<server, documents, docSeqs, walSeq, toLoad>>
  BY <1>7
     DEF Submit, TakeBatch, Take, FindNothing, RejectBatch, SendWalPut, Send,
         WalPutConflict, WalPutError, MetaPutOk, MetaPutError, Cancel,
         Return, StoreWalPut, Refuse, Create, StoreMetaPut, serverVars, memory
<1>8. UNCHANGED vars => UNCHANGED <<server, documents, docSeqs, walSeq, toLoad>>
  BY DEF vars, serverVars
<1> QED
  BY <1>1, <1>2, <1>3, <1>4, <1>5, <1>6, <1>7, <1>8 DEF Next, Task, Load, AllAnswered

-----------------------------------------------------------------------------
(***************************************************************************)
(* Where the operation of a request is.                                    *)
(***************************************************************************)

\* Only Submit takes a request out of "idle", and none goes back.
LEMMA IdleOnce ==
  ASSUME IInv, [Next]_vars
  PROVE  \A q \in Reqs : pc[q] # "idle" => pc'[q] # "idle"
<1> SUFFICES ASSUME NEW q \in Reqs, pc[q] # "idle"
             PROVE  pc'[q] # "idle"
  OBVIOUS
<1>t. pc \in [Reqs -> {"idle"} \cup Working \cup Ended]
  BY DEF IInv, TypeOK
<1>1. ASSUME NEW r \in Reqs,
             \/ \E w \in Writes : Submit(r, w)
             \/ TakeBatch(r) \/ FindNothing(r)
             \/ RejectBatch(r) \/ SendWalPut(r) \/ WalPutOk(r)
             \/ WalPutConflict(r) \/ WalPutError(r)
             \/ MetaPutOk(r) \/ MetaPutError(r) \/ Cancel(r)
             \/ StoreWalPut(r) \/ StoreMetaPut(r)
      PROVE  pc'[q] # "idle"
  BY <1>1, <1>t
     DEF Submit, TakeBatch, Take, FindNothing, RejectBatch, SendWalPut, Send, WalPutOk, Apply,
         WalPutConflict, WalPutError, MetaPutOk, MetaPutError, Cancel,
         Return, StoreWalPut, Refuse, Create, StoreMetaPut, taskVars
<1>2. ASSUME \/ Crash \/ LoadMetadata \/ ListWal \/ ReplayEntry
             \/ PublishNamespace \/ UNCHANGED vars
      PROVE  pc'[q] # "idle"
  BY <1>2, <1>t DEF Crash, LoadMetadata, ListWal, List, ReplayEntry, Replay,
                    PublishNamespace, Publish, vars, taskVars
<1> QED BY <1>1, <1>2 DEF Next, Task, Load, AllAnswered

\* The operations of the buffer and of the batches belong to requests.
LEMMA OpTypes ==
  ASSUME TypeOK
  PROVE  /\ DOMAIN buffer = 1 .. Len(buffer) /\ Len(buffer) \in Nat
         /\ \A i \in DOMAIN buffer : buffer[i].req \in Reqs
         /\ \A q \in Reqs : \A i \in DOMAIN batch[q] : batch[q][i].req \in Reqs
<1>1. buffer \in Seq(Op) /\ batch \in [Reqs -> Seq(Op)]
  BY DEF TypeOK
<1>2. \A i \in DOMAIN buffer : buffer[i] \in Op
  BY <1>1
<1>3. \A q \in Reqs : \A i \in DOMAIN batch[q] : batch[q][i] \in Op
  BY <1>1
<1> QED BY <1>1, <1>2, <1>3 DEF Op

LEMMA OnePlaceNext ==
  ASSUME IInv, [Next]_vars
  PROVE  OnePlace'
<1>t. /\ TypeOK /\ OnePlace /\ TaskShape
      /\ DOMAIN buffer = 1 .. Len(buffer) /\ Len(buffer) \in Nat
      /\ \A i \in DOMAIN buffer : buffer[i].req \in Reqs
      /\ \A q \in Reqs : \A i \in DOMAIN batch[q] : batch[q][i].req \in Reqs
      /\ \A q \in Reqs : pc[q] # "idle" => pc'[q] # "idle"
  BY OpTypes, IdleOnce DEF IInv
<1>p. batch \in [Reqs -> Seq(Op)] /\ buffer \in Seq(Op)
      /\ pc \in [Reqs -> {"idle"} \cup Working \cup Ended]
  BY <1>t DEF TypeOK
<1>1. CASE UNCHANGED <<buffer, batch>>
  BY <1>1, <1>t DEF OnePlace
<1>2. ASSUME NEW r \in Reqs, NEW w \in Writes, Submit(r, w)
      PROVE  OnePlace'
  <2> DEFINE op == [req |-> r, ids |-> w.ids, doc |-> w.doc]
  <2>1. /\ buffer' = Append(buffer, op) /\ batch' = batch
        /\ pc[r] = "idle" /\ pc'[r] # "idle"
    BY <1>2, <1>p DEF Submit
  <2>2. op \in Op
    BY WritesAssumption DEF Op, Write
  <2>3. /\ DOMAIN buffer' = 1 .. Len(buffer) + 1
        /\ \A i \in DOMAIN buffer : buffer'[i] = buffer[i]
        /\ buffer'[Len(buffer) + 1].req = r
    BY <1>p, <1>t, <2>1, <2>2
  <2>4. \A i \in DOMAIN buffer' : i \in DOMAIN buffer \/ i = Len(buffer) + 1
    BY <1>t, <2>3
  <2>5. \A i \in DOMAIN buffer : buffer[i].req # r
    BY <1>t, <2>1 DEF OnePlace
  <2>6. \A q \in Reqs : \A i \in DOMAIN batch[q] : batch[q][i].req # r
    BY <1>t, <2>1 DEF OnePlace
  <2>7. \A i, j \in DOMAIN buffer' : buffer'[i].req = buffer'[j].req => i = j
    BY <1>t, <2>3, <2>4, <2>5 DEF OnePlace
  <2>8. \A q \in Reqs : \A i \in DOMAIN batch[q], j \in DOMAIN buffer' :
           batch[q][i].req # buffer'[j].req
    BY <1>t, <2>3, <2>4, <2>6 DEF OnePlace
  <2>9. \A i \in DOMAIN buffer' : pc'[buffer'[i].req] # "idle"
    BY <1>t, <2>1, <2>3, <2>4 DEF OnePlace
  <2> QED BY <1>t, <2>1, <2>7, <2>8, <2>9 DEF OnePlace
<1>3. ASSUME NEW r \in Reqs, TakeBatch(r)
      PROVE  OnePlace'
  <2>1. /\ batch[r] = <<>>
        /\ buffer' = <<>>
        /\ batch' = [batch EXCEPT ![r] = buffer]
    BY <1>3, <1>t DEF TakeBatch, Take, TaskShape, TaskOK
  <2>2. batch'[r] = buffer /\ \A q \in Reqs : q # r => batch'[q] = batch[q]
    BY <1>p, <2>1
  <2>3. DOMAIN buffer' = {}
    BY <2>1
  <2>4. \A p, q \in Reqs : \A i \in DOMAIN batch'[p], j \in DOMAIN batch'[q] :
           batch'[p][i].req = batch'[q][j].req => p = q /\ i = j
    <3> SUFFICES ASSUME NEW p \in Reqs, NEW q \in Reqs,
                        NEW i \in DOMAIN batch'[p], NEW j \in DOMAIN batch'[q],
                        batch'[p][i].req = batch'[q][j].req
                 PROVE  p = q /\ i = j
      OBVIOUS
    <3>1. CASE p = r /\ q = r
      BY <1>t, <2>2, <3>1 DEF OnePlace
    <3>2. CASE p = r /\ q # r
      BY <1>t, <2>2, <3>2 DEF OnePlace
    <3>3. CASE p # r /\ q = r
      BY <1>t, <2>2, <3>3 DEF OnePlace
    <3>4. CASE p # r /\ q # r
      BY <1>t, <2>2, <3>4 DEF OnePlace
    <3> QED BY <3>1, <3>2, <3>3, <3>4
  <2>5. \A q \in Reqs : \A i \in DOMAIN batch'[q] : pc'[batch'[q][i].req] # "idle"
    <3> SUFFICES ASSUME NEW q \in Reqs, NEW i \in DOMAIN batch'[q]
                 PROVE  pc'[batch'[q][i].req] # "idle"
      OBVIOUS
    <3>1. CASE q = r
      BY <1>t, <2>2, <3>1 DEF OnePlace
    <3>2. CASE q # r
      BY <1>t, <2>2, <3>2 DEF OnePlace
    <3> QED BY <3>1, <3>2
  <2> QED BY <2>3, <2>4, <2>5 DEF OnePlace
<1>4. CASE Crash
  <2>1. batch' = batch /\ buffer' = <<>>
    BY <1>4 DEF Crash
  <2>2. DOMAIN buffer' = {}
    BY <2>1
  <2> QED BY <1>t, <2>1, <2>2 DEF OnePlace
<1>5. ASSUME NEW r \in Reqs,
             \/ FindNothing(r)
             \/ RejectBatch(r) \/ SendWalPut(r) \/ WalPutOk(r)
             \/ WalPutConflict(r) \/ WalPutError(r)
             \/ MetaPutOk(r) \/ MetaPutError(r) \/ Cancel(r)
             \/ StoreWalPut(r) \/ StoreMetaPut(r)
      PROVE  UNCHANGED <<buffer, batch>>
  BY <1>5
     DEF FindNothing, RejectBatch, SendWalPut, Send, WalPutOk, Apply,
         WalPutConflict, WalPutError, MetaPutOk, MetaPutError, Cancel,
         Return, StoreWalPut, Refuse, Create, StoreMetaPut, serverVars, taskVars
<1>6. ASSUME \/ LoadMetadata \/ ListWal \/ ReplayEntry
             \/ PublishNamespace \/ UNCHANGED vars
      PROVE  UNCHANGED <<buffer, batch>>
  BY <1>6 DEF LoadMetadata, ListWal, List, ReplayEntry, Replay, PublishNamespace, Publish, vars,
              serverVars, taskVars
<1> QED BY <1>1, <1>2, <1>3, <1>4, <1>5, <1>6 DEF Next, Task, Load, AllAnswered

\* The steps that change a batch, a sequence or a PUT, per task.
LEMMA PutSteps ==
  ASSUME IInv, [Next]_vars, NEW q \in Reqs
  PROVE  \/ batch'[q] = batch[q] /\ putSeq'[q] = putSeq[q] /\ walPut'[q] = walPut[q]
         \/ TakeBatch(q) \/ SendWalPut(q) \/ StoreWalPut(q)
<1>p. /\ batch \in [Reqs -> Seq(Op)]
      /\ putSeq \in [Reqs -> Nat]
      /\ walPut \in [Reqs -> {"none", "sent", "stored", "exists"}]
  BY DEF IInv, TypeOK
<1>1. ASSUME NEW r \in Reqs, r # q,
             TakeBatch(r) \/ SendWalPut(r) \/ StoreWalPut(r)
      PROVE  batch'[q] = batch[q] /\ putSeq'[q] = putSeq[q] /\ walPut'[q] = walPut[q]
  BY <1>1, <1>p DEF TakeBatch, Take, SendWalPut, Send, StoreWalPut, Refuse, Create, netVars, taskVars
<1>2. ASSUME NEW r \in Reqs,
             \/ \E w \in Writes : Submit(r, w)
             \/ FindNothing(r) \/ RejectBatch(r) \/ WalPutOk(r)
             \/ WalPutConflict(r) \/ WalPutError(r)
             \/ MetaPutOk(r) \/ MetaPutError(r)
             \/ Cancel(r) \/ StoreMetaPut(r)
      PROVE  batch' = batch /\ putSeq' = putSeq /\ walPut' = walPut
  BY <1>2 DEF Submit, FindNothing, RejectBatch, WalPutOk, Apply,
              WalPutConflict, WalPutError, MetaPutOk, MetaPutError, Cancel,
              Return, StoreMetaPut, netVars, taskVars
<1>3. ASSUME \/ Crash \/ LoadMetadata \/ ListWal \/ ReplayEntry
             \/ PublishNamespace \/ UNCHANGED vars
      PROVE  batch' = batch /\ putSeq' = putSeq /\ walPut' = walPut
  BY <1>3 DEF Crash, LoadMetadata, ListWal, List, ReplayEntry, Replay, PublishNamespace, Publish,
              vars, netVars, taskVars
<1> QED BY <1>1, <1>2, <1>3 DEF Next, Task, Load, AllAnswered

\* A stored PUT stays what it is.
LEMMA StoredForever ==
  ASSUME IInv, [Next]_vars, NEW q \in Reqs, walPut[q] = "stored"
  PROVE  batch'[q] = batch[q] /\ putSeq'[q] = putSeq[q] /\ walPut'[q] = "stored"
<1>1. TaskOK(q)
  BY DEF IInv, TaskShape
<1>2. ~ TakeBatch(q) /\ ~ SendWalPut(q) /\ ~ StoreWalPut(q)
  BY <1>1 DEF TaskOK, TakeBatch, Take, SendWalPut, Send, StoreWalPut, Refuse, Create
<1> QED BY <1>2, PutSteps

LEMMA LogSourceNext ==
  ASSUME IInv, [Next]_vars
  PROVE  LogSource'
<1> SUFFICES ASSUME NEW s \in DOMAIN wal'
             PROVE  \E q \in Reqs : walPut'[q] = "stored" /\ putSeq'[q] = s
                                    /\ wal'[s] = batch'[q]
  BY DEF LogSource
<1>1. CASE s \in DOMAIN wal
  <2>1. PICK q \in Reqs : walPut[q] = "stored" /\ putSeq[q] = s /\ wal[s] = batch[q]
    BY <1>1 DEF IInv, LogSource
  <2> QED BY <1>1, <2>1, StoredForever, LogGrows
<1>2. CASE s \notin DOMAIN wal
  <2>1. \A r \in Reqs : WalPutOk(r) => UNCHANGED wal
    BY DEF WalPutOk, Apply, storeVars
  <2>2. PublishNamespace => UNCHANGED wal
    BY DEF PublishNamespace, Publish, storeVars
  <2>3. PICK r \in Reqs : StoreWalPut(r) /\ putSeq[r] \notin DOMAIN wal
    BY <1>2, <2>1, <2>2, LogSteps
  <2>4. /\ DOMAIN wal = 1 .. shown /\ DOMAIN wal' = 1 .. shown + 1
        /\ putSeq[r] = shown + 1 /\ wal'[shown + 1] = batch[r]
        /\ walPut' = [walPut EXCEPT ![r] = "stored"]
    BY <2>3, NewEntry
  <2>5. shown \in Nat /\ walPut \in [Reqs -> {"none", "sent", "stored", "exists"}]
    BY DEF IInv, TypeOK
  <2>6. s = shown + 1
    BY <1>2, <2>4, <2>5
  <2>7. batch' = batch /\ putSeq' = putSeq
    BY <2>3 DEF StoreWalPut, Refuse, Create, taskVars
  <2> QED BY <2>4, <2>5, <2>6, <2>7
<1> QED BY <1>1, <1>2

LEMMA SeqOrderNext ==
  ASSUME IInv, [Next]_vars
  PROVE  SeqOrder'
<1>t. /\ TypeOK /\ SeqOrder /\ TaskShape /\ OnePlace /\ ServerShape
      /\ \A q \in Reqs : TaskOK(q)
  BY DEF IInv, TaskShape
<1>p. /\ batch \in [Reqs -> Seq(Op)] /\ putSeq \in [Reqs -> Nat]
      /\ walPut \in [Reqs -> {"none", "sent", "stored", "exists"}]
      /\ pc \in [Reqs -> {"idle"} \cup Working \cup Ended]
      /\ ackedBefore \in [Reqs -> SUBSET Reqs]
      /\ shown \in Nat /\ walSeq \in Nat
  BY <1>t DEF TypeOK
\* A request acknowledged by its own flush stays so.
<1>a. ASSUME NEW q \in Reqs, pc[q] = "ok", InBatch(q, q)
      PROVE  /\ pc'[q] = "ok" /\ InBatch(q, q)'
             /\ putSeq'[q] = putSeq[q] /\ putSeq[q] <= shown
  <2>1. batch[q] # <<>>
    BY <1>a DEF InBatch
  <2>2. walPut[q] = "stored" /\ putSeq[q] <= shown
    BY <1>a, <1>t, <2>1 DEF TaskOK
  <2>3. batch'[q] = batch[q] /\ putSeq'[q] = putSeq[q]
    BY <2>2, StoredForever
  <2>4. pc'[q] = "ok"
    <3>1. ASSUME NEW r \in Reqs,
                 \/ \E w \in Writes : Submit(r, w)
                 \/ TakeBatch(r) \/ FindNothing(r)
                 \/ RejectBatch(r) \/ SendWalPut(r) \/ WalPutOk(r)
                 \/ WalPutConflict(r) \/ WalPutError(r)
                 \/ MetaPutOk(r) \/ MetaPutError(r) \/ Cancel(r)
                 \/ StoreWalPut(r) \/ StoreMetaPut(r)
          PROVE  pc'[q] = "ok"
      BY <1>a, <1>p, <3>1
         DEF Submit, TakeBatch, Take, FindNothing, RejectBatch, SendWalPut, Send, WalPutOk, Apply,
             WalPutConflict, WalPutError, MetaPutOk, MetaPutError, Cancel,
             Return, StoreWalPut, Refuse, Create, StoreMetaPut, taskVars, Working
    <3>2. ASSUME \/ Crash \/ LoadMetadata \/ ListWal \/ ReplayEntry
                 \/ PublishNamespace \/ UNCHANGED vars
          PROVE  pc'[q] = "ok"
      BY <1>a, <1>p, <3>2
         DEF Crash, LoadMetadata, ListWal, List, ReplayEntry, Replay,
             PublishNamespace, Publish, vars, taskVars, Working
    <3> QED BY <3>1, <3>2 DEF Next, Task, Load, AllAnswered
  <2> QED BY <1>a, <2>2, <2>3, <2>4 DEF InBatch
\* What a request finds acknowledged when it is submitted, or found then.
<1>b. ASSUME NEW r \in Reqs, NEW q \in ackedBefore'[r]
      PROVE  /\ q \in Reqs /\ pc[q] = "ok" /\ InBatch(q, q)
             /\ \/ q \in ackedBefore[r]
                \/ pc[r] = "idle" /\ UNCHANGED <<batch, putSeq, walPut>>
  <2>1. CASE UNCHANGED ackedBefore
    BY <1>b, <1>p, <1>t, <2>1 DEF SeqOrder
  <2>2. ASSUME NEW p \in Reqs, NEW w \in Writes, Submit(p, w)
        PROVE  /\ q \in Reqs /\ pc[q] = "ok" /\ InBatch(q, q)
               /\ \/ q \in ackedBefore[r]
                  \/ pc[r] = "idle" /\ UNCHANGED <<batch, putSeq, walPut>>
    <3>1. /\ ackedBefore' = [ackedBefore EXCEPT ![p] = AckedByOwnFlush]
          /\ pc[p] = "idle" /\ UNCHANGED <<batch, putSeq, walPut>>
      BY <2>2 DEF Submit, netVars
    <3>2. CASE p = r
      BY <1>b, <1>p, <3>1, <3>2 DEF AckedByOwnFlush
    <3>3. CASE p # r
      BY <1>b, <1>p, <1>t, <3>1, <3>3 DEF SeqOrder
    <3> QED BY <3>2, <3>3
  <2>3. ASSUME NEW p \in Reqs,
               \/ TakeBatch(p) \/ FindNothing(p)
               \/ RejectBatch(p) \/ SendWalPut(p) \/ WalPutOk(p)
               \/ WalPutConflict(p) \/ WalPutError(p)
               \/ MetaPutOk(p) \/ MetaPutError(p) \/ Cancel(p)
               \/ StoreWalPut(p) \/ StoreMetaPut(p)
        PROVE  UNCHANGED ackedBefore
    BY <2>3
       DEF TakeBatch, Take, FindNothing, RejectBatch, SendWalPut, Send, WalPutOk, Apply,
           WalPutConflict, WalPutError, MetaPutOk, MetaPutError, Cancel,
           Return, StoreWalPut, Refuse, Create, StoreMetaPut, history
  <2>4. ASSUME \/ Crash \/ LoadMetadata \/ ListWal \/ ReplayEntry
               \/ PublishNamespace \/ UNCHANGED vars
        PROVE  UNCHANGED ackedBefore
    BY <2>4 DEF Crash, LoadMetadata, ListWal, List, ReplayEntry, Replay, PublishNamespace, Publish,
                vars, history
  <2> QED BY <2>1, <2>2, <2>3, <2>4 DEF Next, Task, Load, AllAnswered
<1> SUFFICES ASSUME NEW r \in Reqs, NEW q \in ackedBefore'[r], NEW p \in Reqs,
                    InBatch(r, p)', walPut'[p] # "none"
             PROVE  putSeq'[q] < putSeq'[p]
  BY <1>a, <1>b DEF SeqOrder
<1>q. /\ q \in Reqs /\ putSeq'[q] = putSeq[q] /\ putSeq[q] <= shown
      /\ putSeq[q] \in Nat
  BY <1>a, <1>b, <1>p
<1>1. CASE q \notin ackedBefore[r]
  <2>1. pc[r] = "idle" /\ batch' = batch
    BY <1>1, <1>b
  <2>2. ~ InBatch(r, p)'
    BY <1>t, <2>1 DEF InBatch, OnePlace
  <2> QED BY <2>2
<1>2. CASE q \in ackedBefore[r]
  <2>1. CASE batch'[p] = batch[p] /\ putSeq'[p] = putSeq[p] /\ walPut'[p] = walPut[p]
    BY <1>2, <1>q, <1>t, <2>1 DEF SeqOrder, InBatch
  <2>2. CASE TakeBatch(p)
    BY <1>t, <2>2 DEF TakeBatch, Take, TaskOK, netVars
  <2>3. CASE SendWalPut(p)
    <3>1. putSeq'[p] = walSeq + 1 /\ walSeq = shown
      BY <1>p, <1>t, <2>3 DEF SendWalPut, Send, TaskOK, ServerShape, Working
    <3> QED BY <1>p, <1>q, <3>1
  <2>4. CASE StoreWalPut(p)
    <3>1. batch'[p] = batch[p] /\ putSeq'[p] = putSeq[p] /\ walPut[p] # "none"
      BY <2>4 DEF StoreWalPut, Refuse, Create, taskVars
    <3> QED BY <1>2, <1>q, <1>t, <3>1 DEF SeqOrder, InBatch
  <2> QED BY <2>1, <2>2, <2>3, <2>4, PutSteps
<1> QED BY <1>1, <1>2

-----------------------------------------------------------------------------
(***************************************************************************)
(* The inductive invariant.                                                *)
(***************************************************************************)
LEMMA InitIInv == Init => IInv
<1> SUFFICES ASSUME Init
             PROVE  IInv
  OBVIOUS
<1>1. TypeOK
  BY TypeInit
<1>2. DOMAIN wal = {} /\ shown = 0 /\ 1 .. 0 = {}
  BY DEF Init
<1>3. LogShape
  BY <1>2 DEF LogShape
<1>4. TaskShape /\ PutShape
  BY DEF Init, TaskShape, TaskOK, PutShape, PutOK, Working, Held
<1>5. MetaShape
  BY DEF Init, MetaShape, NoPut
<1>6. ServerShape
  BY <1>2 DEF Init, ServerShape
<1>7. MemoryShape
  BY DEF Init, MemoryShape, ReplayOf, NoDocs, NoSeqs
<1>8. OnePlace /\ LogSource /\ SeqOrder
  BY <1>2 DEF Init, OnePlace, LogSource, SeqOrder
<1> QED BY <1>1, <1>3, <1>4, <1>5, <1>6, <1>7, <1>8 DEF IInv

LEMMA IInvNext == IInv /\ [Next]_vars => IInv'
BY TypeNext, LogShapeNext, TaskShapeNext, PutShapeNext, MetaShapeNext,
   ServerShapeNext, MemoryShapeNext, OnePlaceNext, LogSourceNext, SeqOrderNext
   DEF IInv

\* Every reachable state satisfies the inductive invariant.
THEOREM Inductive == Spec => []IInv
BY InitIInv, IInvNext, PTL DEF Spec

-----------------------------------------------------------------------------
(***************************************************************************)
(* The properties.                                                         *)
(***************************************************************************)

\* Type correctness of the write path: every variable of the server, its
\* tasks, the PUTs and the store keeps its type.
THEOREM TypeCorrect == Spec => []TypeOK
<1>1. IInv => TypeOK
  BY DEF IInv
<1> QED BY <1>1, Inductive, PTL

\* The WAL objects that write_wal creates are numbered 1 .. n without a hole.
THEOREM Contiguous == Spec => []LogContiguous
<1>1. IInv => LogContiguous
  <2> SUFFICES ASSUME IInv
               PROVE  LogContiguous
    OBVIOUS
  <2>1. PICK n \in Nat : DOMAIN wal = 1 .. n
    BY LogDomain DEF IInv
  <2>2. 0 + 1 = 1 /\ n - 0 = n
    OBVIOUS
  <2>3. Cardinality(1 .. n) = n
    BY <2>2, IntervalSize
  <2> QED BY <2>1, <2>3 DEF LogContiguous
<1> QED BY <1>1, Inductive, PTL

\* Readers of the namespace see the replay of a prefix of the WAL, and
\* start-up rebuilds it: apply_wal_entry in flush_batcher and in
\* load_namespace agree, whatever failed in between.
THEOREM MemoryCorrect == Spec => []MemoryIsReplay
<1>1. IInv => MemoryIsReplay
  <2> SUFFICES ASSUME IInv
               PROVE  MemoryIsReplay
    OBVIOUS
  <2>1. TypeOK /\ ServerShape /\ MemoryShape /\ walSeq \in Nat
    BY DEF IInv, TypeOK
  <2>2. CASE server = "up"
    BY <2>1, <2>2 DEF ServerShape, MemoryShape, MemoryIsReplay
  <2>3. CASE server = "replaying"
    <3>1. PICK k \in 0 .. walSeq : toLoad = k + 1 .. walSeq
      BY <2>1, <2>3 DEF ServerShape
    <3>2. k \in Nat /\ k <= walSeq
      BY <2>1
    <3>3. Cardinality(toLoad) = walSeq - k
      BY <2>1, <3>1, <3>2, IntervalSize
    <3>4. walSeq - Cardinality(toLoad) = k
      BY <2>1, <3>2, <3>3
    <3> QED BY <2>1, <2>3, <3>1, <3>4 DEF MemoryShape, MemoryIsReplay
  <2> QED BY <2>2, <2>3 DEF MemoryIsReplay
<1> QED BY <1>1, Inductive, PTL

\* The log is at most one entry ahead of the memory of a running server.
THEOREM OneAhead == Spec => []AtMostOneAhead
<1>1. IInv => AtMostOneAhead
  BY DEF IInv, ServerShape, AtMostOneAhead
<1> QED BY <1>1, Inductive, PTL

\* A flush of a non-empty batch that returned Ok has put it in the log, where
\* it stays and where readers see it.
THEOREM FlushDurable == Spec => []FlushedIsDurable
<1>1. IInv => FlushedIsDurable
  BY DEF IInv, TaskShape, TaskOK, PutShape, PutOK, ServerShape, FlushedIsDurable
<1> QED BY <1>1, Inductive, PTL

\* No restart takes back what a reader has seen.
THEOREM VisibleStays == Spec => []VisibleNeverLost
<1>1. IInv => VisibleNeverLost
  BY DEF IInv, ServerShape, VisibleNeverLost
<1> QED BY <1>1, Inductive, PTL

\* meta.bin names a WAL position that exists.
THEOREM MetadataTrails == Spec => []MetadataTrailsLog
<1>1. IInv => MetadataTrailsLog
  BY DEF IInv, MetaShape, MetadataTrailsLog
<1> QED BY <1>1, Inductive, PTL

\* No step replaces or removes a WAL entry.
THEOREM AppendOnly == Spec => LogAppendOnly
<1>1. IInv /\ [Next]_vars =>
        [\A s \in DOMAIN wal : s \in DOMAIN wal' /\ wal'[s] = wal[s]]_vars
  BY LogGrows
<1> QED BY <1>1, Inductive, PTL DEF Spec, LogAppendOnly

-----------------------------------------------------------------------------
(***************************************************************************)
(* Positions of requests in the log.                                       *)
(***************************************************************************)

LEMMA PlacesProps ==
  ASSUME IInv, NEW r \in Reqs, NEW p \in Places(r)
  PROVE  \E q \in Reqs : /\ walPut[q] = "stored" /\ putSeq[q] = p[1]
                         /\ p[2] \in DOMAIN batch[q]
                         /\ batch[q][p[2]].req = r
                         /\ p = <<p[1], p[2]>>
<1>1. PICK s \in DOMAIN wal : p \in {s} \X DOMAIN wal[s]
  BY DEF Places
<1>2. p = <<p[1], p[2]>> /\ p[1] = s /\ p[2] \in DOMAIN wal[s]
  BY <1>1
<1>3. wal[s][p[2]].req = r
  BY <1>2 DEF Places
<1>4. PICK q \in Reqs : walPut[q] = "stored" /\ putSeq[q] = s /\ wal[s] = batch[q]
  BY DEF IInv, LogSource
<1> QED BY <1>2, <1>3, <1>4

\* An operation is logged at most once, under one sequence, whoever flushed it.
THEOREM AtMostOnce == Spec => []LoggedAtMostOnce
<1>1. IInv => LoggedAtMostOnce
  <2> SUFFICES ASSUME IInv, NEW r \in Reqs
               PROVE  Cardinality(Places(r)) <= 1
    BY DEF LoggedAtMostOnce
  <2>1. ASSUME NEW p1 \in Places(r), NEW p2 \in Places(r)
        PROVE  p1 = p2
    <3>1. PICK q1 \in Reqs : /\ walPut[q1] = "stored" /\ putSeq[q1] = p1[1]
                             /\ p1[2] \in DOMAIN batch[q1]
                             /\ batch[q1][p1[2]].req = r
                             /\ p1 = <<p1[1], p1[2]>>
      BY PlacesProps
    <3>2. PICK q2 \in Reqs : /\ walPut[q2] = "stored" /\ putSeq[q2] = p2[1]
                             /\ p2[2] \in DOMAIN batch[q2]
                             /\ batch[q2][p2[2]].req = r
                             /\ p2 = <<p2[1], p2[2]>>
      BY PlacesProps
    <3>3. q1 = q2 /\ p1[2] = p2[2]
      BY <3>1, <3>2 DEF IInv, OnePlace
    <3> QED BY <3>1, <3>2, <3>3
  <2>2. CASE Places(r) = {}
    BY <2>2, FS_EmptySet
  <2>3. CASE Places(r) # {}
    <3>1. PICK p : p \in Places(r)
      BY <2>3
    <3>2. Places(r) = {p}
      BY <2>1, <3>1
    <3>3. Cardinality({p}) = 1
      BY FS_Singleton
    <3> QED BY <3>2, <3>3
  <2> QED BY <2>2, <2>3
<1> QED BY <1>1, Inductive, PTL

\* A batch refused with WriteConflict or DimensionMismatch is not in the log
\* in that or any later state: its requests may be sent again.
THEOREM RejectedStaysOut == Spec => []RejectedNeverDurable
<1>1. IInv => RejectedNeverDurable
  <2> SUFFICES ASSUME IInv, NEW q \in Reqs, pc[q] \in {"conflict", "mismatch"},
                      NEW i \in DOMAIN batch[q],
                      NEW p \in Places(batch[q][i].req)
               PROVE  FALSE
    BY DEF RejectedNeverDurable
  <2>1. batch[q][i].req \in Reqs
    BY OpTypes DEF IInv
  <2>2. PICK o \in Reqs : /\ walPut[o] = "stored"
                          /\ p[2] \in DOMAIN batch[o]
                          /\ batch[o][p[2]].req = batch[q][i].req
    BY <2>1, PlacesProps
  <2>3. o = q
    BY <2>2 DEF IInv, OnePlace
  <2> QED BY <2>2, <2>3 DEF IInv, TaskShape, TaskOK
<1> QED BY <1>1, Inductive, PTL

\* A write submitted after another was acknowledged by its own flush is later
\* in the log.
THEOREM OrderKept == Spec => []RealTimeOrder
<1>1. IInv => RealTimeOrder
  <2> SUFFICES ASSUME IInv, NEW r \in Reqs, NEW q \in ackedBefore[r],
                      NEW p1 \in Places(q), NEW p2 \in Places(r)
               PROVE  p1[1] < p2[1]
    BY DEF RealTimeOrder
  <2>1. q \in Reqs
    BY DEF IInv, TypeOK
  <2>2. PICK q1 \in Reqs : /\ putSeq[q1] = p1[1]
                           /\ p1[2] \in DOMAIN batch[q1]
                           /\ batch[q1][p1[2]].req = q
    BY <2>1, PlacesProps
  <2>3. PICK q2 \in Reqs : /\ walPut[q2] = "stored" /\ putSeq[q2] = p2[1]
                           /\ p2[2] \in DOMAIN batch[q2]
                           /\ batch[q2][p2[2]].req = r
    BY PlacesProps
  <2>4. PICK i \in DOMAIN batch[q] : batch[q][i].req = q
    BY DEF IInv, SeqOrder, InBatch
  <2>5. q1 = q
    BY <2>1, <2>2, <2>4 DEF IInv, OnePlace
  <2>6. putSeq[q] < putSeq[q2]
    BY <2>3 DEF IInv, SeqOrder, InBatch
  <2> QED BY <2>2, <2>3, <2>5, <2>6
<1> QED BY <1>1, Inductive, PTL
=============================================================================

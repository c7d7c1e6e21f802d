-------------------------- MODULE Namespaces_proofs ---------------------------
(***************************************************************************)
(* Proofs about Namespaces for any number of requests, ids, payloads,      *)
(* generations, crashes and clients that go away.  The argument: NsInv     *)
(* of NamespacesInv holds initially, every step preserves it, and it       *)
(* implies the properties.                                                 *)
(***************************************************************************)
EXTENDS NamespacesInv, WalReplay_proofs, SequenceTheorems

-----------------------------------------------------------------------------
(***************************************************************************)
(* The queue of a lock.                                                    *)
(***************************************************************************)

\* More tasks, more queues.
LEMMA QueueMonotone ==
  ASSUME NEW S, NEW T, S \subseteq T
  PROVE  Queue(S) \subseteq Queue(T)
<1> SUFFICES ASSUME NEW q \in Queue(S)
             PROVE  q \in Queue(T)
  OBVIOUS
<1> DEFINE A == [by : S, mode : {"read", "write"}]
           B == [by : T, mode : {"read", "write"}]
<1>1. A \subseteq B
  OBVIOUS
<1> HIDE DEF A, B
<1>2. q \in Seq(A)
  BY DEF Queue, A
<1>3. q \in Seq(B)
  BY <1>1, <1>2
<1> QED BY <1>3 DEF Queue, B

\* Asking puts a task at the end of the queue and moves nobody.
LEMMA AskProps ==
  ASSUME NEW S, NEW queue \in Queue(S), NEW n \in S, NEW mode \in {"read", "write"},
         Once(queue), n \notin By(queue)
  PROVE  LET after == Ask(queue, n, mode)
         IN  /\ after \in Queue(S) /\ Once(after)
             /\ By(after) = By(queue) \cup {n}
             /\ Range(after) = Range(queue) \cup {[by |-> n, mode |-> mode]}
             /\ queue # <<>> => after[1] = queue[1]
<1> DEFINE after == Ask(queue, n, mode)
           e == [by |-> n, mode |-> mode]
<1>1. queue \in Seq([by : S, mode : {"read", "write"}])
  BY DEF Queue
<1>2. /\ after \in Seq([by : S, mode : {"read", "write"}])
      /\ DOMAIN queue = 1 .. Len(queue) /\ Len(queue) \in Nat
      /\ DOMAIN after = 1 .. Len(queue) + 1
      /\ \A i \in 1 .. Len(queue) : after[i] = queue[i]
      /\ after[Len(queue) + 1] = e
  BY <1>1 DEF Ask
<1> HIDE DEF after
<1>3. \A i \in DOMAIN after : i \in DOMAIN queue \/ i = Len(queue) + 1
  BY <1>2
<1>4. Once(after)
  BY <1>2, <1>3 DEF Once, By
<1>5. By(after) = By(queue) \cup {n}
  BY <1>2, <1>3 DEF By
<1>6. Range(after) = Range(queue) \cup {e}
  BY <1>2, <1>3 DEF Range
<1>7. queue # <<>> => after[1] = queue[1]
  BY <1>1, <1>2
<1> QED BY <1>2, <1>4, <1>5, <1>6, <1>7 DEF Queue, after

\* Leaving takes a task out of the queue and keeps the order of the others.
LEMMA LeaveProps ==
  ASSUME NEW S, NEW queue \in Queue(S), NEW n \in By(queue), Once(queue)
  PROVE  /\ Leave(queue, n) \in Queue(S \ {n}) /\ Once(Leave(queue, n))
         /\ By(Leave(queue, n)) = By(queue) \ {n}
         /\ Range(Leave(queue, n)) = {e \in Range(queue) : e.by # n}
         /\ queue[1].by # n => Leave(queue, n)[1] = queue[1]
<1> DEFINE after == Leave(queue, n)
           p == Place(queue, n)
           R == [by : S, mode : {"read", "write"}]
<1>1. /\ queue \in Seq(R)
      /\ DOMAIN queue = 1 .. Len(queue) /\ Len(queue) \in Nat
  BY DEF Queue
<1>2. p \in DOMAIN queue /\ queue[p].by = n
  BY DEF By, Place
<1> HIDE DEF p, R
<1>3. /\ after \in Seq(R)
      /\ DOMAIN after = 1 .. Len(queue) - 1
      /\ \A i \in 1 .. Len(queue) - 1 : after[i] = IF i < p THEN queue[i] ELSE queue[i + 1]
  <2> DEFINE a == SubSeq(queue, 1, p - 1)
             b == SubSeq(queue, p + 1, Len(queue))
  <2>1. /\ a \in Seq(R)
        /\ Len(a) = p - 1 /\ \A i \in 1 .. p - 1 : a[i] = queue[i]
    <3>1. /\ 1 \in Int /\ p - 1 \in Int
          /\ \A i \in 1 .. p - 1 : queue[i] \in R
      BY <1>1, <1>2
    <3> HIDE DEF a
    <3>2. /\ a \in Seq(R)
          /\ Len(a) = IF 1 <= p - 1 THEN (p - 1) - 1 + 1 ELSE 0
          /\ \A i \in 1 .. (p - 1) - 1 + 1 : a[i] = queue[1 + i - 1]
      BY <3>1, SubSeqProperties DEF a
    <3> QED BY <1>1, <1>2, <3>2
  <2>2. /\ b \in Seq(R)
        /\ Len(b) = Len(queue) - p
        /\ \A i \in 1 .. Len(queue) - p : b[i] = queue[p + i]
    <3>1. /\ p + 1 \in Int /\ Len(queue) \in Int
          /\ \A i \in p + 1 .. Len(queue) : queue[i] \in R
      BY <1>1, <1>2
    <3> HIDE DEF b
    <3>2. /\ b \in Seq(R)
          /\ Len(b) = IF p + 1 <= Len(queue) THEN Len(queue) - (p + 1) + 1 ELSE 0
          /\ \A i \in 1 .. Len(queue) - (p + 1) + 1 : b[i] = queue[(p + 1) + i - 1]
      BY <3>1, SubSeqProperties DEF b
    <3>3. Len(queue) - (p + 1) + 1 = Len(queue) - p
      BY <1>1, <1>2
    <3>4. Len(b) = Len(queue) - p
      BY <1>1, <1>2, <3>2, <3>3
    <3>5. \A i \in 1 .. Len(queue) - p : b[i] = queue[p + i]
      <4> SUFFICES ASSUME NEW i \in 1 .. Len(queue) - p
                   PROVE  b[i] = queue[p + i]
        OBVIOUS
      <4>1. (p + 1) + i - 1 = p + i
        BY <1>1, <1>2
      <4>2. b[i] = queue[(p + 1) + i - 1]
        BY <3>2, <3>3
      <4> QED BY <4>1, <4>2
    <3> QED BY <3>2, <3>4, <3>5
  <2>3. after = a \o b
    BY DEF Leave, RemoveAt, p
  <2> HIDE DEF a, b, after
  <2>4. /\ after \in Seq(R)
        /\ Len(after) = Len(queue) - 1
        /\ \A i \in 1 .. Len(queue) - 1 :
              after[i] = IF i <= p - 1 THEN a[i] ELSE b[i - (p - 1)]
    <3>1. /\ a \o b \in Seq(R) /\ Len(a \o b) = Len(a) + Len(b)
          /\ \A i \in 1 .. Len(a) + Len(b) :
                (a \o b)[i] = IF i <= Len(a) THEN a[i] ELSE b[i - Len(a)]
      BY <2>1, <2>2, ConcatProperties
    <3> QED BY <1>1, <1>2, <2>1, <2>2, <2>3, <3>1
  <2>5. ASSUME NEW i \in 1 .. Len(queue) - 1
        PROVE  after[i] = IF i < p THEN queue[i] ELSE queue[i + 1]
    <3>1. CASE i < p
      <4>1. i <= p - 1 /\ i \in 1 .. p - 1
        BY <1>1, <1>2, <3>1
      <4>2. after[i] = a[i] /\ a[i] = queue[i]
        BY <2>1, <2>4, <4>1
      <4> QED BY <3>1, <4>2
    <3>2. CASE ~ (i < p)
      <4>1. i - (p - 1) \in 1 .. Len(queue) - p /\ p + (i - (p - 1)) = i + 1
        BY <1>1, <1>2, <3>2
      <4>2. b[i - (p - 1)] = queue[i + 1]
        BY <2>2, <4>1
      <4> QED BY <1>1, <1>2, <2>4, <3>2, <4>2
    <3> QED BY <3>1, <3>2
  <2> QED BY <1>1, <2>4, <2>5
<1> HIDE DEF after
<1>4. \A i \in DOMAIN queue : i # p => queue[i].by # n
  BY <1>2 DEF Once
<1>5. \A i \in DOMAIN after :
         \E j \in DOMAIN queue : /\ j # p /\ after[i] = queue[j]
                                 /\ j = IF i < p THEN i ELSE i + 1
  BY <1>1, <1>2, <1>3
<1>6. \A j \in DOMAIN queue : j # p => \E i \in DOMAIN after : after[i] = queue[j]
  <2> SUFFICES ASSUME NEW j \in DOMAIN queue, j # p
               PROVE  \E i \in DOMAIN after : after[i] = queue[j]
    OBVIOUS
  <2>1. CASE j < p
    BY <1>1, <1>2, <1>3, <2>1
  <2>2. CASE p < j
    <3>1. j - 1 \in DOMAIN after /\ ~ (j - 1 < p) /\ (j - 1) + 1 = j
      BY <1>1, <1>2, <1>3, <2>2
    <3>2. after[j - 1] = queue[(j - 1) + 1]
      BY <1>3, <3>1
    <3> QED BY <3>1, <3>2
  <2> QED BY <1>1, <1>2, <2>1, <2>2
<1>7. Once(after)
  <2> SUFFICES ASSUME NEW i \in DOMAIN after, NEW j \in DOMAIN after, after[i].by = after[j].by
               PROVE  i = j
    BY DEF Once
  <2>1. PICK k \in DOMAIN queue : after[i] = queue[k] /\ k = IF i < p THEN i ELSE i + 1
    BY <1>5
  <2>2. PICK l \in DOMAIN queue : after[j] = queue[l] /\ l = IF j < p THEN j ELSE j + 1
    BY <1>5
  <2>3. k = l
    BY <2>1, <2>2 DEF Once
  <2> QED BY <1>1, <1>2, <1>3, <2>1, <2>2, <2>3
<1>8. By(after) = By(queue) \ {n}
  BY <1>2, <1>4, <1>5, <1>6 DEF By
<1>9. Range(after) = {e \in Range(queue) : e.by # n}
  BY <1>2, <1>4, <1>5, <1>6 DEF Range
<1>10. \A i \in DOMAIN after : after[i] \in [by : S \ {n}, mode : {"read", "write"}]
  <2> SUFFICES ASSUME NEW j \in DOMAIN queue, j # p
               PROVE  queue[j] \in [by : S \ {n}, mode : {"read", "write"}]
    BY <1>5
  <2>1. queue[j] \in R /\ queue[j].by # n
    BY <1>1, <1>4
  <2> QED BY <2>1 DEF R
<1>11. after \in Seq([by : S \ {n}, mode : {"read", "write"}])
  <2> DEFINE T == [by : S \ {n}, mode : {"read", "write"}]
  <2> HIDE DEF T
  <2>1. \A i \in DOMAIN after : after[i] \in T
    BY <1>10 DEF T
  <2>2. Len(queue) - 1 \in Nat
    BY <1>1, <1>2
  <2>3. after \in Seq(T)
    BY <1>3, <2>1, <2>2
  <2> QED BY <2>3 DEF T
<1>12. queue[1].by # n => after[1] = queue[1]
  <2> SUFFICES ASSUME queue[1].by # n
               PROVE  after[1] = queue[1]
    OBVIOUS
  <2>1. 1 < p /\ 1 \in 1 .. Len(queue) - 1
    BY <1>1, <1>2
  <2> QED BY <1>3, <2>1
<1> QED BY <1>7, <1>8, <1>9, <1>11, <1>12 DEF Queue, after

\* In the queue of the same tasks, that is.
LEMMA LeaveKeeps ==
  ASSUME NEW S, NEW queue \in Queue(S), NEW n \in By(queue), Once(queue)
  PROVE  /\ Leave(queue, n) \in Queue(S) /\ Once(Leave(queue, n))
         /\ By(Leave(queue, n)) = By(queue) \ {n}
         /\ Range(Leave(queue, n)) = {e \in Range(queue) : e.by # n}
         /\ queue[1].by # n => Leave(queue, n)[1] = queue[1]
<1>1. /\ Leave(queue, n) \in Queue(S \ {n}) /\ Once(Leave(queue, n))
      /\ By(Leave(queue, n)) = By(queue) \ {n}
      /\ Range(Leave(queue, n)) = {e \in Range(queue) : e.by # n}
      /\ queue[1].by # n => Leave(queue, n)[1] = queue[1]
  BY LeaveProps, Zenon
<1>2. Leave(queue, n) \in Queue(S)
  BY <1>1, QueueMonotone
<1> QED BY <1>1, <1>2

\* Who has a lock is in its queue, and at the front as a writer.
LEMMA HeldProps ==
  ASSUME NEW S, NEW queue \in Queue(S), NEW n, Held(queue, n)
  PROVE  /\ n \in By(queue) /\ queue # <<>>
         /\ (\A e \in Range(queue) : e.by = n => e.mode = "write") => queue[1].by = n
<1>1. queue \in Seq([by : S, mode : {"read", "write"}])
  BY DEF Queue
<1>2. PICK i \in DOMAIN queue :
        queue[i].by = n /\ (i = 1 \/ \A j \in 1 .. i : queue[j].mode = "read")
  BY DEF Held
<1>3. n \in By(queue) /\ queue # <<>>
  BY <1>1, <1>2 DEF By
<1>4. ASSUME \A e \in Range(queue) : e.by = n => e.mode = "write"
      PROVE  queue[1].by = n
  <2>1. queue[i] \in Range(queue) /\ i \in Nat /\ i \in 1 .. i
    BY <1>1, <1>2 DEF Range
  <2>2. queue[i].mode = "write"
    BY <1>2, <1>4, <2>1
  <2> QED BY <1>2, <2>1, <2>2
<1> QED BY <1>3, <1>4

-----------------------------------------------------------------------------
(***************************************************************************)
(* What start-up loads.                                                    *)
(***************************************************************************)

\* apply_wal_entry yields a NamespaceState.
LEMMA AppliedType ==
  ASSUME NEW state \in NamespaceState, NEW s \in Nat, NEW ops \in Seq(Op)
  PROVE  Applied(state, s, ops) \in NamespaceState
BY ApplyType DEF Applied, NamespaceState

\* It turns the replay of s entries into that of s + 1.
LEMMA AppliedReplay ==
  ASSUME NEW state \in NamespaceState, NEW ops \in Seq(Op),
         OfTheLog(state), state.walSeq + 1 \in DOMAIN wal, wal[state.walSeq + 1] = ops
  PROVE  OfTheLog(Applied(state, state.walSeq + 1, ops))
<1>1. state.walSeq \in Nat
  BY DEF NamespaceState
<1>2. ReplayOf(wal, state.walSeq + 1, ApplyDocs(state.docs, ops),
                                      ApplySeqs(state.seqs, ops, state.walSeq + 1))
  BY <1>1, ReplayStep DEF OfTheLog
<1>3. 1 .. state.walSeq + 1 \subseteq DOMAIN wal
  <2>1. \A i \in 1 .. state.walSeq + 1 : i \in 1 .. state.walSeq \/ i = state.walSeq + 1
    BY <1>1
  <2> QED BY <2>1 DEF OfTheLog
<1> QED BY <1>2, <1>3 DEF OfTheLog, Applied

\* A namespace without entries is the replay of none of them.
LEMMA FreshReplay == FreshState \in NamespaceState /\ OfTheLog(FreshState)
BY DEF FreshState, NamespaceState, OfTheLog, ReplayOf, NoDocs, NoSeqs

\* Replayed is the function its recursive definition describes.
LEMMA ReplayedProps ==
  ASSUME \A s \in DOMAIN wal : wal[s] \in Seq(Op)
  PROVE  /\ Replayed \in [Nat -> NamespaceState]
         /\ Replayed[0] = FreshState
         /\ \A n \in Nat : Replayed[n + 1] =
              IF n + 1 \in DOMAIN wal THEN Applied(Replayed[n], n + 1, wal[n + 1])
              ELSE Replayed[n]
<1> DEFINE Body(n, v) == IF n \in DOMAIN wal THEN Applied(v, n, wal[n]) ELSE v
           step == [p \in Nat \X NamespaceState |-> Body(p[1], p[2])]
           Eqn(f) == f = [n \in Nat |-> IF n = 0 THEN FreshState
                                        ELSE IF n \in DOMAIN wal THEN Applied(f[n - 1], n, wal[n])
                                        ELSE f[n - 1]]
<1>1. step \in Steps(NamespaceState)
  BY AppliedType DEF Steps
<1>2. PICK f \in [Nat -> NamespaceState] : Iterates(f, FreshState, step)
  <2>1. FreshState \in NamespaceState
    BY FreshReplay
  <2> HIDE DEF step
  <2> QED BY <1>1, <2>1, Iteration
<1>3. ASSUME NEW n \in Nat
      PROVE  f[n] = IF n = 0 THEN FreshState
                    ELSE IF n \in DOMAIN wal THEN Applied(f[n - 1], n, wal[n]) ELSE f[n - 1]
  <2>1. f[n] = IF n = 0 THEN FreshState ELSE step[<<n, f[n - 1]>>]
    BY <1>2 DEF Iterates
  <2>2. ASSUME n # 0
        PROVE  step[<<n, f[n - 1]>>] = Body(n, f[n - 1])
    <3>1. <<n, f[n - 1]>> \in Nat \X NamespaceState
      BY <2>2
    <3> QED BY <3>1
  <2> QED BY <2>1, <2>2
<1>4. Eqn(f)
  BY <1>3
<1>5. Replayed = CHOOSE g : Eqn(g)
  BY DEF Replayed
<1>6. Eqn(Replayed)
  <2> HIDE DEF Eqn
  <2> QED BY <1>4, <1>5
\* Two solutions of the equation agree everywhere.
<1>7. ASSUME NEW n \in Nat
      PROVE  Replayed[n] = IF n = 0 THEN FreshState
                           ELSE IF n \in DOMAIN wal THEN Applied(Replayed[n - 1], n, wal[n])
                           ELSE Replayed[n - 1]
  BY <1>6
<1>8. Replayed = f
  <2> DEFINE S == {n \in Nat : Replayed[n] = f[n]}
  <2>1. 0 \in S
    BY <1>3, <1>7
  <2>2. ASSUME NEW n \in Nat, n \in S
        PROVE  n + 1 \in S
    <3>1. n + 1 \in Nat /\ n + 1 # 0 /\ (n + 1) - 1 = n /\ Replayed[n] = f[n]
      BY <2>2
    <3> QED BY <1>3, <1>7, <3>1
  <2>3. Nat \subseteq S
    <3> HIDE DEF S
    <3> QED BY <2>1, <2>2, SetInduction
  <2>4. \A n \in Nat : Replayed[n] = f[n]
    BY <2>3
  <2>5. /\ f = [n \in Nat |-> f[n]]
        /\ Replayed = [n \in Nat |-> Replayed[n]]
    BY <1>2, <1>6
  <2> QED BY <2>4, <2>5
<1>9. ASSUME NEW n \in Nat
      PROVE  Replayed[n + 1] = IF n + 1 \in DOMAIN wal THEN Applied(Replayed[n], n + 1, wal[n + 1])
                               ELSE Replayed[n]
  <2>1. n + 1 \in Nat /\ n + 1 # 0 /\ (n + 1) - 1 = n
    OBVIOUS
  <2> QED BY <1>7, <2>1
<1> QED BY <1>7, <1>8, <1>9

\* Start-up rebuilds the replay of the whole log.
LEMMA LoadedProps ==
  ASSUME IsFiniteSet(DOMAIN wal), LogShape, \A s \in DOMAIN wal : wal[s] \in Seq(Op)
  PROVE  Loaded \in NamespaceState /\ OfTheLog(Loaded)
<1> DEFINE N == Cardinality(DOMAIN wal)
           S == {n \in Nat : n <= N => Replayed[n].walSeq = n /\ OfTheLog(Replayed[n])}
<1>1. N \in Nat /\ DOMAIN wal = 1 .. N
  BY FS_CardinalityType DEF LogShape
<1> HIDE DEF N
<1>2. 0 \in S
  BY ReplayedProps, FreshReplay DEF FreshState
<1>3. ASSUME NEW n \in Nat, n \in S
      PROVE  n + 1 \in S
  <2> SUFFICES ASSUME n + 1 <= N
               PROVE  Replayed[n + 1].walSeq = n + 1 /\ OfTheLog(Replayed[n + 1])
    OBVIOUS
  <2>1. Replayed[n] \in NamespaceState /\ Replayed[n].walSeq = n /\ OfTheLog(Replayed[n])
    <3>1. n <= N
      BY <1>1
    <3>2. Replayed[n] \in NamespaceState
      BY ReplayedProps
    <3> QED BY <1>3, <3>1, <3>2
  <2>2. n + 1 \in DOMAIN wal /\ wal[n + 1] \in Seq(Op)
    BY <1>1
  <2>3. Replayed[n + 1] = Applied(Replayed[n], n + 1, wal[n + 1])
    BY <2>2, ReplayedProps
  <2>4. OfTheLog(Replayed[n + 1])
    BY <2>1, <2>2, <2>3, AppliedReplay
  <2> QED BY <2>3, <2>4 DEF Applied
<1>4. N \in S
  <2>1. Nat \subseteq S
    <3> HIDE DEF S
    <3> QED BY <1>2, <1>3, SetInduction
  <2> QED BY <1>1, <2>1
<1>5. Max({0} \cup DOMAIN wal) = N
  <2>1. /\ N \in {0} \cup DOMAIN wal
        /\ \A y \in {0} \cup DOMAIN wal : N >= y
        /\ {0} \cup DOMAIN wal \subseteq Nat
    BY <1>1
  <2>2. \A x \in {0} \cup DOMAIN wal : (\A y \in {0} \cup DOMAIN wal : x >= y) => x = N
    BY <1>1, <2>1
  <2> QED BY <2>1, <2>2 DEF Max
<1> QED BY <1>1, <1>4, <1>5, ReplayedProps DEF Loaded
-----------------------------------------------------------------------------
(***************************************************************************)
(* The types of what tasks, states and buffers are.                        *)
(***************************************************************************)

\* What a task has found, one part of it changed.
LEMMA FindingProps ==
  ASSUME NEW x \in Finding, NEW g \in Nat, NEW ops \in Seq(Op)
  PROVE  /\ x.batcher \in Nat /\ x.state \in Nat /\ x.ops \in Seq(Op)
         /\ [x EXCEPT !.state = g] \in Finding /\ [x EXCEPT !.state = g].state = g
         /\ [x EXCEPT !.state = g].batcher = x.batcher /\ [x EXCEPT !.state = g].ops = x.ops
         /\ [x EXCEPT !.batcher = g] \in Finding /\ [x EXCEPT !.batcher = g].batcher = g
         /\ [x EXCEPT !.batcher = g].state = x.state /\ [x EXCEPT !.batcher = g].ops = x.ops
         /\ [x EXCEPT !.ops = ops] \in Finding /\ [x EXCEPT !.ops = ops].ops = ops
         /\ [x EXCEPT !.ops = ops].batcher = x.batcher /\ [x EXCEPT !.ops = ops].state = x.state
BY DEF Finding

\* The invariant's types, element by element.
LEMMA TypeFacts ==
  ASSUME NsTypeOK
  PROVE  /\ Len(states) \in Nat /\ DOMAIN states = 1 .. Len(states)
         /\ \A g \in 1 .. Len(states) : states[g] \in NamespaceState
         /\ DOMAIN stateLocks = 1 .. Len(states)
         /\ \A g \in 1 .. Len(states) : stateLocks[g] \in Queue(Tasks)
         /\ mapLock \in Queue(Tasks)
         /\ Len(buffers) \in Nat /\ DOMAIN buffers = 1 .. Len(buffers)
         /\ \A b \in 1 .. Len(buffers) : buffers[b] \in Seq(Op)
         /\ namespaces \in 0 .. Len(states) /\ batchers \in 0 .. Len(buffers)
         /\ \A n \in Tasks : /\ mine[n] \in Finding /\ mine[n].batcher \in Nat
                             /\ mine[n].state \in Nat /\ mine[n].ops \in Seq(Op)
<1>1. Queue(Live) \subseteq Queue(Tasks)
  BY QueueMonotone DEF Live
<1>2. /\ states \in Seq(NamespaceState) /\ buffers \in Seq(Seq(Op))
      /\ mapLock \in Queue(Live) /\ stateLocks \in Seq(Queue(Live))
      /\ Len(stateLocks) = Len(states)
      /\ namespaces \in 0 .. Len(states) /\ batchers \in 0 .. Len(buffers)
      /\ mine \in [Tasks -> Finding]
  BY DEF NsTypeOK, Generation
<1>3. Len(states) \in Nat /\ DOMAIN states = 1 .. Len(states)
  BY <1>2
<1>4. \A g \in 1 .. Len(states) : states[g] \in NamespaceState
  BY <1>2
<1>5. DOMAIN stateLocks = 1 .. Len(states)
  BY <1>2
<1>6. \A g \in 1 .. Len(states) : stateLocks[g] \in Queue(Tasks)
  BY <1>1, <1>2
<1>7. /\ Len(buffers) \in Nat /\ DOMAIN buffers = 1 .. Len(buffers)
      /\ \A b \in 1 .. Len(buffers) : buffers[b] \in Seq(Op)
  <2> DEFINE T == Seq(Op)
  <2> HIDE DEF T
  <2>1. buffers \in Seq(T)
    BY <1>2 DEF T
  <2>2. \A b \in 1 .. Len(buffers) : buffers[b] \in T
    BY <2>1
  <2> QED BY <2>1, <2>2 DEF T
<1>8. \A n \in Tasks : /\ mine[n] \in Finding /\ mine[n].batcher \in Nat
                       /\ mine[n].state \in Nat /\ mine[n].ops \in Seq(Op)
  <2> SUFFICES ASSUME NEW n \in Tasks
               PROVE  /\ mine[n] \in Finding /\ mine[n].batcher \in Nat
                      /\ mine[n].state \in Nat /\ mine[n].ops \in Seq(Op)
    OBVIOUS
  <2>1. mine[n] \in Finding
    BY <1>2
  <2> QED BY <2>1 DEF Finding
<1> QED BY <1>1, <1>2, <1>3, <1>4, <1>5, <1>6, <1>7, <1>8

\* A task that has a state's lock, or waits for it, has found one that exists.
LEMMA StateFound ==
  ASSUME NsTypeOK, TaskShape, NEW n \in Tasks, pc[n] \in StatePoints
  PROVE  mine[n].state \in 1 .. Len(states)
<1>1. n \in Live
  BY DEF StatePoints, Live
<1>2. mine[n].state # 0 /\ mine[n].state <= Len(states)
  BY <1>1 DEF TaskShape, TaskOK, NsTypeOK
<1> QED BY <1>2, TypeFacts

\* A write that waits for the end of its window has found a batcher.
LEMMA BatcherFound ==
  ASSUME NsTypeOK, TaskShape, NEW n \in Tasks, pc[n] \in {"submit", "window"}
  PROVE  mine[n].batcher \in 1 .. Len(buffers)
<1>1. n \in Live
  BY DEF Live
<1>2. mine[n].batcher # 0 /\ mine[n].batcher <= Len(buffers)
  BY <1>1 DEF TaskShape, TaskOK, NsTypeOK
<1> QED BY <1>2, TypeFacts

\* Forgetting the state.
LEMMA ForgetProps ==
  ASSUME NsTypeOK, NEW n \in Tasks, Forget(n)
  PROVE  /\ mine' \in [Tasks -> Finding]
         /\ \A m \in Tasks \ {n} : mine'[m] = mine[m]
         /\ mine'[n].state = 0
         /\ mine'[n].batcher = mine[n].batcher /\ mine'[n].ops = mine[n].ops
<1> DEFINE y == [mine[n] EXCEPT !.state = 0]
<1>1. mine' = [mine EXCEPT ![n] = y]
  BY DEF Forget
<1>2. /\ mine \in [Tasks -> Finding] /\ mine[n] \in Finding /\ mine[n].ops \in Seq(Op)
      /\ 0 \in Nat
  BY TypeFacts DEF NsTypeOK
<1>3. y \in Finding /\ y.state = 0 /\ y.batcher = mine[n].batcher /\ y.ops = mine[n].ops
  BY <1>2 DEF Finding
<1> HIDE DEF y
<1> QED BY <1>1, <1>2, <1>3

\* Finding a state.
LEMMA StateSet ==
  ASSUME NsTypeOK, NEW n \in Tasks, mine' = [mine EXCEPT ![n].state = namespaces]
  PROVE  /\ mine' \in [Tasks -> Finding]
         /\ \A m \in Tasks \ {n} : mine'[m] = mine[m]
         /\ mine'[n].state = namespaces
         /\ mine'[n].batcher = mine[n].batcher /\ mine'[n].ops = mine[n].ops
<1> DEFINE y == [mine[n] EXCEPT !.state = namespaces]
<1>1. mine' = [mine EXCEPT ![n] = y]
  OBVIOUS
<1>2. /\ mine \in [Tasks -> Finding] /\ mine[n] \in Finding /\ mine[n].ops \in Seq(Op)
      /\ namespaces \in Nat
  BY TypeFacts DEF NsTypeOK
<1>3. y \in Finding /\ y.state = namespaces /\ y.batcher = mine[n].batcher /\ y.ops = mine[n].ops
  BY <1>2 DEF Finding
<1> HIDE DEF y
<1> QED BY <1>1, <1>2, <1>3

\* Finding a batcher.
LEMMA BatcherSet ==
  ASSUME NsTypeOK, NEW n \in Tasks, mine' = [mine EXCEPT ![n].batcher = batchers]
  PROVE  /\ mine' \in [Tasks -> Finding]
         /\ \A m \in Tasks \ {n} : mine'[m] = mine[m]
         /\ mine'[n].batcher = batchers
         /\ mine'[n].state = mine[n].state /\ mine'[n].ops = mine[n].ops
<1> DEFINE y == [mine[n] EXCEPT !.batcher = batchers]
<1>1. mine' = [mine EXCEPT ![n] = y]
  OBVIOUS
<1>2. /\ mine \in [Tasks -> Finding] /\ mine[n] \in Finding /\ mine[n].ops \in Seq(Op)
      /\ batchers \in Nat
  BY TypeFacts DEF NsTypeOK
<1>3. y \in Finding /\ y.batcher = batchers /\ y.state = mine[n].state /\ y.ops = mine[n].ops
  BY <1>2 DEF Finding
<1> HIDE DEF y
<1> QED BY <1>1, <1>2, <1>3

\* Taking what waits in a batcher.
LEMMA OpsSet ==
  ASSUME NsTypeOK, NEW n \in Tasks, NEW ops \in Seq(Op), mine' = [mine EXCEPT ![n].ops = ops]
  PROVE  /\ mine' \in [Tasks -> Finding]
         /\ \A m \in Tasks \ {n} : mine'[m] = mine[m]
         /\ mine'[n].ops = ops
         /\ mine'[n].state = mine[n].state /\ mine'[n].batcher = mine[n].batcher
<1> DEFINE y == [mine[n] EXCEPT !.ops = ops]
<1>1. mine' = [mine EXCEPT ![n] = y]
  OBVIOUS
<1>2. /\ mine \in [Tasks -> Finding] /\ mine[n] \in Finding /\ 0 \in Nat
  BY TypeFacts DEF NsTypeOK
<1>3. y \in Finding /\ y.ops = ops /\ y.state = mine[n].state /\ y.batcher = mine[n].batcher
  <2> DEFINE T == Seq(Op)
  <2> HIDE DEF T
  <2>1. mine[n] \in [batcher : Nat, state : Nat, ops : T] /\ ops \in T
    BY <1>2 DEF Finding, T
  <2>2. /\ y \in [batcher : Nat, state : Nat, ops : T] /\ y.ops = ops
        /\ y.state = mine[n].state /\ y.batcher = mine[n].batcher
    BY <2>1
  <2> QED BY <2>2 DEF Finding, T
<1> HIDE DEF y
<1> QED BY <1>1, <1>2, <1>3
-----------------------------------------------------------------------------
(***************************************************************************)
(* Tasks.                                                                  *)
(***************************************************************************)

\* A task arrives, goes on, or loses its client.
Move(n) == Step(n) \/ Cancel(n) \/ \E kind \in Jobs : Arrive(n, kind)

\* That changes nothing of the other tasks.
OthersKept(n) ==
    /\ job' \in [Tasks -> Jobs] /\ pc' \in [Tasks -> Points]
    /\ answer' \in [Tasks -> Answers] /\ mine' \in [Tasks -> Finding]
    /\ \A m \in Tasks \ {n} : /\ job'[m] = job[m] /\ pc'[m] = pc[m]
                              /\ answer'[m] = answer[m] /\ mine'[m] = mine[m]
    /\ up' = up

LEMMA OthersAreKept ==
  ASSUME NsTypeOK, TaskShape, NEW n \in Tasks,
         Move(n)
  PROVE  OthersKept(n)
<1> USE DEF OthersKept, At, Goto, Reply
<1>1. /\ job \in [Tasks -> Jobs] /\ pc \in [Tasks -> Points]
      /\ answer \in [Tasks -> Answers] /\ mine \in [Tasks -> Finding]
  BY DEF NsTypeOK
<1>2. \A status \in {Ok, Created, NoContent, NotFound, AlreadyExists, StorageError} :
        [answer EXCEPT ![n] = status] \in [Tasks -> Answers]
  BY <1>1 DEF Answers
<1>3. \A at \in Points : [pc EXCEPT ![n] = at] \in [Tasks -> Points]
  BY <1>1
<1>4. CASE \E kind \in Jobs : Arrive(n, kind)
  BY <1>1, <1>2, <1>3, <1>4 DEF Arrive, First, Jobs, Lifecycle, Points, serverVars,
      locks, storeVars
<1>5. CASE Check(n)
  BY <1>1, <1>2, <1>3, <1>5 DEF Check, Points, serverVars, locks, storeVars
<1>6. CASE PutNewMeta(n)
  BY <1>1, <1>2, <1>3, <1>6 DEF PutNewMeta, Lost, Points, serverVars, locks, storeVars
<1>7. CASE InsertState(n)
  BY <1>1, <1>2, <1>3, <1>7 DEF InsertState, Points, serverVars, locks, storeVars
<1>8. CASE InsertBatcher(n)
  BY <1>1, <1>2, <1>3, <1>8 DEF InsertBatcher, Points, serverVars, locks, storeVars
<1>9. CASE Erase(n)
  BY <1>1, <1>2, <1>3, <1>9 DEF Erase, EraseListed, EraseMeta, EraseFails, Lost, Points,
      serverVars, locks, storeVars
<1>10. CASE RemoveState(n)
  BY <1>1, <1>2, <1>3, <1>10 DEF RemoveState, Points, serverVars, locks, storeVars
<1>11. CASE RemoveBatcher(n)
  BY <1>1, <1>2, <1>3, <1>11 DEF RemoveBatcher, Points, serverVars, locks, storeVars
<1>12. CASE WriteNothing(n)
  BY <1>1, <1>2, <1>3, <1>12 DEF WriteNothing, Points, serverVars, locks, storeVars
<1>13. CASE LookupBatcher(n)
  BY <1>1, <1>2, <1>3, BatcherSet, <1>13 DEF LookupBatcher, Points, serverVars,
      locks, storeVars
<1>14. CASE \E w \in Writes : Submit(n, w)
  BY <1>1, <1>2, <1>3, <1>14 DEF Submit, Points, serverVars, locks, storeVars
<1>15. CASE TakeBatch(n)
  <2>1. buffers[mine[n].batcher] \in Seq(Op)
    BY <1>15, BatcherFound, TypeFacts DEF TakeBatch
  <2>2. mine' = [mine EXCEPT ![n].ops = buffers[mine[n].batcher]]
    BY <1>15 DEF TakeBatch
  <2>3. mine' \in [Tasks -> Finding] /\ \A m \in Tasks \ {n} : mine'[m] = mine[m]
    BY <2>1, <2>2, OpsSet
  <2> QED BY <1>1, <1>2, <1>3, <1>15, <2>3 DEF TakeBatch, Points
<1>16. CASE FindState(n)
  BY <1>1, <1>2, <1>3, StateSet, <1>16 DEF FindState, Points, serverVars, locks,
      storeVars
<1>17. CASE PutWal(n)
  BY <1>1, <1>2, <1>3, ForgetProps, <1>17 DEF PutWal, Store, Points, serverVars,
      locks, storeVars
<1>18. CASE ApplyEntry(n)
  BY <1>1, <1>2, <1>3, <1>18 DEF ApplyEntry, Apply, Points, serverVars, locks,
      storeVars
<1>19. CASE PutMeta(n)
  BY <1>1, <1>2, <1>3, ForgetProps, <1>19 DEF PutMeta, Lost, Points, serverVars, locks,
      storeVars
<1>20. CASE Enter(n)
  BY <1>1, <1>2, <1>3, StateSet, <1>20 DEF Enter, Points, serverVars, locks,
      storeVars
<1>21. CASE Read(n)
  BY <1>1, <1>2, <1>3, ForgetProps, <1>21 DEF Read, Points, serverVars, locks,
      storeVars
<1>22. CASE ReadEtag(n)
  BY <1>1, <1>2, <1>3, ForgetProps, <1>22 DEF ReadEtag, Points, serverVars, locks,
      storeVars
<1>23. CASE EnterAgain(n)
  BY <1>1, <1>2, <1>3, StateSet, <1>23 DEF EnterAgain, Points, serverVars, locks,
      storeVars
<1>24. CASE Swap(n)
  BY <1>1, <1>2, <1>3, ForgetProps, <1>24 DEF Swap, Points, serverVars, locks,
      storeVars
<1>25. CASE Cancel(n)
  BY <1>1, <1>3, ForgetProps, <1>25 DEF Cancel, Points, serverVars
<1> QED BY <1>4, <1>5, <1>6, <1>7, <1>8, <1>9, <1>10, <1>11, <1>12, <1>13, <1>14,
           <1>15, <1>16, <1>17, <1>18, <1>19, <1>20, <1>21, <1>22, <1>23, <1>24, <1>25
      DEF Move, Step, Create, Delete, WriteDocs, Flush, Visit

\* A task stays within the points of its job, with what it has found there.
LEMMA TaskShapeStep ==
  ASSUME NsTypeOK, TaskShape, NEW n \in Tasks,
         Move(n)
  PROVE  TaskShape'
<1> USE DEF At, Goto, Reply, serverVars, locks, storeVars, Live, Lifecycle, StatePoints,
            BatchPoints, LoggedPoints, CreatePoints, DeletePoints, WritePoints, NothingFound,
            Ok, Created, NoContent, NotFound, AlreadyExists, StorageError, Unanswered
<1>1. OthersKept(n)
  BY OthersAreKept
<1>2. /\ job \in [Tasks -> Jobs] /\ pc \in [Tasks -> Points]
      /\ answer \in [Tasks -> Answers] /\ mine \in [Tasks -> Finding]
  BY DEF NsTypeOK
<1>3. TaskOK(n)
  BY DEF TaskShape
<1> SUFFICES TaskOK(n)'
  BY <1>1 DEF OthersKept, TaskShape, TaskOK
<1> USE DEF TaskOK
<1>4. CASE \E kind \in Jobs : Arrive(n, kind)
  BY <1>1, <1>2, <1>3, <1>4 DEF Arrive, First, Jobs, Lifecycle
<1>5. CASE Check(n)
  BY <1>1, <1>2, <1>3, <1>5 DEF Check
<1>6. CASE PutNewMeta(n)
  BY <1>1, <1>2, <1>3, <1>6 DEF PutNewMeta, Lost
<1>7. CASE InsertState(n)
  BY <1>1, <1>2, <1>3, <1>7 DEF InsertState
<1>8. CASE InsertBatcher(n)
  BY <1>1, <1>2, <1>3, <1>8 DEF InsertBatcher
<1>9. CASE Erase(n)
  BY <1>1, <1>2, <1>3, <1>9 DEF Erase, EraseListed, EraseMeta, EraseFails, Lost
<1>10. CASE RemoveState(n)
  BY <1>1, <1>2, <1>3, <1>10 DEF RemoveState
<1>11. CASE RemoveBatcher(n)
  BY <1>1, <1>2, <1>3, <1>11 DEF RemoveBatcher
<1>12. CASE WriteNothing(n)
  BY <1>1, <1>2, <1>3, <1>12 DEF WriteNothing
<1>13. CASE LookupBatcher(n)
  BY <1>1, <1>2, <1>3, BatcherSet, <1>13 DEF LookupBatcher
<1>14. CASE \E w \in Writes : Submit(n, w)
  BY <1>1, <1>2, <1>3, <1>14 DEF Submit
<1>15. CASE TakeBatch(n)
  <2>1. buffers[mine[n].batcher] \in Seq(Op)
    BY <1>15, BatcherFound, TypeFacts DEF TakeBatch
  <2>2. mine' = [mine EXCEPT ![n].ops = buffers[mine[n].batcher]]
    BY <1>15 DEF TakeBatch
  <2>3. /\ mine'[n].ops = buffers[mine[n].batcher]
        /\ mine'[n].batcher = mine[n].batcher /\ mine'[n].state = mine[n].state
    BY <2>1, <2>2, OpsSet
  <2> QED BY <1>1, <1>2, <1>3, <1>15, <2>3 DEF TakeBatch
<1>16. CASE FindState(n)
  BY <1>1, <1>2, <1>3, StateSet, <1>16 DEF FindState
<1>17. CASE PutWal(n)
  <2>1. CASE Store(n)
    BY <1>1, <1>2, <1>3, <1>17, <2>1 DEF PutWal, Store
  <2>2. CASE Reply(n, StorageError) /\ Forget(n)
    <3>1. mine'[n].state = 0
      BY <2>2, ForgetProps
    <3> QED BY <1>1, <1>2, <1>3, <1>17, <2>2, <3>1 DEF PutWal
  <2> QED BY <1>17, <2>1, <2>2 DEF PutWal
<1>18. CASE ApplyEntry(n)
  BY <1>1, <1>2, <1>3, <1>18 DEF ApplyEntry, Apply
<1>19. CASE PutMeta(n)
  BY <1>1, <1>2, <1>3, ForgetProps, <1>19 DEF PutMeta, Lost
<1>20. CASE Enter(n)
  BY <1>1, <1>2, <1>3, StateSet, <1>20 DEF Enter
<1>21. CASE Read(n)
  BY <1>1, <1>2, <1>3, ForgetProps, <1>21 DEF Read
<1>22. CASE ReadEtag(n)
  BY <1>1, <1>2, <1>3, ForgetProps, <1>22 DEF ReadEtag
<1>23. CASE EnterAgain(n)
  BY <1>1, <1>2, <1>3, StateSet, <1>23 DEF EnterAgain
<1>24. CASE Swap(n)
  BY <1>1, <1>2, <1>3, ForgetProps, <1>24 DEF Swap
<1>25. CASE Cancel(n)
  BY <1>1, <1>2, <1>3, ForgetProps, <1>25 DEF Cancel
<1> QED BY <1>4, <1>5, <1>6, <1>7, <1>8, <1>9, <1>10, <1>11, <1>12, <1>13, <1>14,
           <1>15, <1>16, <1>17, <1>18, <1>19, <1>20, <1>21, <1>22, <1>23, <1>24, <1>25
      DEF Move, Step, Create, Delete, WriteDocs, Flush, Visit
-----------------------------------------------------------------------------
(***************************************************************************)
(* The queue of the map.                                                   *)
(***************************************************************************)

\* What a step of n may do to the queue of the map: nothing, ask, leave, or
\* leave and ask again.
MapMove(n) ==
    LET before == pc[n] \in MapPoints
        after == pc'[n] \in MapPoints
    IN  \/ mapLock' = mapLock /\ before = after
        \/ (\E mode \in {"read", "write"} : AskMap(n, mode)) /\ ~before /\ after
        \/ LeaveMap(n) /\ before /\ ~after
        \/ mapLock' = Ask(Leave(mapLock, n), n, "read") /\ before /\ after

LEMMA MapMoved ==
  ASSUME NsTypeOK, MapQueue, NEW n \in Tasks, OthersKept(n), MapMove(n)
  PROVE  mapLock' \in Queue(Tasks) /\ MapQueue'
<1>1. /\ mapLock \in Queue(Tasks) /\ Once(mapLock)
      /\ \A m \in Tasks : m \in By(mapLock) <=> pc[m] \in MapPoints
  BY TypeFacts DEF MapQueue
<1>2. \A m \in Tasks \ {n} : pc'[m] = pc[m]
  BY DEF OthersKept
<1>3. CASE mapLock' = mapLock /\ (pc[n] \in MapPoints) = (pc'[n] \in MapPoints)
  BY <1>1, <1>2, <1>3 DEF MapQueue
<1>4. CASE (\E mode \in {"read", "write"} : AskMap(n, mode)) /\ pc[n] \notin MapPoints
           /\ pc'[n] \in MapPoints
  <2>1. PICK mode \in {"read", "write"} : mapLock' = Ask(mapLock, n, mode)
    BY <1>4 DEF AskMap
  <2>2. n \notin By(mapLock)
    BY <1>1, <1>4
  <2>3. /\ mapLock' \in Queue(Tasks) /\ Once(mapLock')
        /\ By(mapLock') = By(mapLock) \cup {n}
    BY <1>1, <2>1, <2>2, AskProps
  <2> QED BY <1>1, <1>2, <1>4, <2>3 DEF MapQueue
<1>5. CASE LeaveMap(n) /\ pc[n] \in MapPoints /\ pc'[n] \notin MapPoints
  <2>1. n \in By(mapLock)
    BY <1>1, <1>5
  <2>2. /\ mapLock' \in Queue(Tasks \ {n}) /\ Once(mapLock')
        /\ By(mapLock') = By(mapLock) \ {n}
    BY <1>1, <1>5, <2>1, LeaveProps DEF LeaveMap
  <2>3. mapLock' \in Queue(Tasks)
    BY <2>2, QueueMonotone
  <2> QED BY <1>1, <1>2, <1>5, <2>2, <2>3 DEF MapQueue
<1>6. CASE mapLock' = Ask(Leave(mapLock, n), n, "read") /\ pc[n] \in MapPoints
           /\ pc'[n] \in MapPoints
  <2> DEFINE left == Leave(mapLock, n)
  <2>1. n \in By(mapLock)
    BY <1>1, <1>6
  <2>2. left \in Queue(Tasks \ {n}) /\ Once(left) /\ By(left) = By(mapLock) \ {n}
    BY <1>1, <2>1, LeaveProps
  <2>3. left \in Queue(Tasks)
    BY <2>2, QueueMonotone
  <2>4. mapLock' = Ask(left, n, "read")
    BY <1>6
  <2> HIDE DEF left
  <2>5. /\ mapLock' \in Queue(Tasks) /\ Once(mapLock')
        /\ By(mapLock') = By(left) \cup {n}
    BY <2>2, <2>3, <2>4, AskProps
  <2> QED BY <1>1, <1>2, <1>6, <2>2, <2>5 DEF MapQueue
<1> QED BY <1>3, <1>4, <1>5, <1>6 DEF MapMove

\* A task is in the queue of the map at just the points at which it should be.
LEMMA MapQueueStep ==
  ASSUME NsTypeOK, TaskShape, MapQueue, NEW n \in Tasks,
         Move(n)
  PROVE  mapLock' \in Queue(Tasks) /\ MapQueue'
<1> USE DEF At, Goto, Reply, locks, MapPoints
<1>1. OthersKept(n)
  BY OthersAreKept
<1>2. pc \in [Tasks -> Points]
  BY DEF NsTypeOK
<1> SUFFICES MapMove(n)
  BY <1>1, MapMoved
<1> USE DEF MapMove
<1>3. CASE \E kind \in Jobs : Arrive(n, kind)
  BY <1>1, <1>2, <1>3 DEF Arrive, First, Jobs, Lifecycle
<1>4. CASE Check(n)
  BY <1>1, <1>2, <1>4 DEF Check
<1>5. CASE PutNewMeta(n)
  BY <1>1, <1>2, <1>5 DEF PutNewMeta, Lost
<1>6. CASE InsertState(n)
  BY <1>1, <1>2, <1>6 DEF InsertState
<1>7. CASE InsertBatcher(n)
  BY <1>1, <1>2, <1>7 DEF InsertBatcher
<1>8. CASE Erase(n)
  BY <1>1, <1>2, <1>8 DEF Erase, EraseListed, EraseMeta, EraseFails, Lost
<1>9. CASE RemoveState(n)
  BY <1>1, <1>2, <1>9 DEF RemoveState
<1>10. CASE RemoveBatcher(n)
  BY <1>1, <1>2, <1>10 DEF RemoveBatcher
<1>11. CASE WriteNothing(n)
  BY <1>1, <1>2, <1>11 DEF WriteNothing
<1>12. CASE LookupBatcher(n)
  BY <1>1, <1>2, <1>12 DEF LookupBatcher
<1>13. CASE \E w \in Writes : Submit(n, w)
  BY <1>1, <1>2, <1>13 DEF Submit
<1>14. CASE TakeBatch(n)
  BY <1>1, <1>2, <1>14 DEF TakeBatch
<1>15. CASE FindState(n)
  BY <1>1, <1>2, <1>15 DEF FindState
<1>16. CASE PutWal(n)
  BY <1>1, <1>2, <1>16 DEF PutWal, Store
<1>17. CASE ApplyEntry(n)
  BY <1>1, <1>2, <1>17 DEF ApplyEntry, Apply
<1>18. CASE PutMeta(n)
  BY <1>1, <1>2, <1>18 DEF PutMeta, Lost
<1>19. CASE Enter(n)
  BY <1>1, <1>2, <1>19 DEF Enter
<1>20. CASE Read(n)
  BY <1>1, <1>2, <1>20 DEF Read
<1>21. CASE ReadEtag(n)
  BY <1>1, <1>2, <1>21 DEF ReadEtag
<1>22. CASE EnterAgain(n)
  BY <1>1, <1>2, <1>22 DEF EnterAgain
<1>23. CASE Swap(n)
  BY <1>1, <1>2, <1>23 DEF Swap
<1>24. CASE Cancel(n)
  <2>1. Queued(mapLock, n) <=> pc[n] \in MapPoints
    BY DEF MapQueue, Queued, By
  <2>2. pc'[n] = "answered"
    BY <1>2, <1>24 DEF Cancel, Live
  <2> QED BY <2>1, <2>2, <1>24 DEF Cancel
<1> QED BY <1>3, <1>4, <1>5, <1>6, <1>7, <1>8, <1>9, <1>10, <1>11, <1>12, <1>13, <1>14,
           <1>15, <1>16, <1>17, <1>18, <1>19, <1>20, <1>21, <1>22, <1>23, <1>24
      DEF Move, Step, Create, Delete, WriteDocs, Flush, Visit
-----------------------------------------------------------------------------
(***************************************************************************)
(* The queues of the states.                                               *)
(***************************************************************************)

\* Who is in a queue is in one of its entries.
LEMMA ByEntries ==
  ASSUME NEW queue \in Queue(Tasks)
  PROVE  /\ By(queue) = {e.by : e \in Range(queue)}
         /\ \A e \in Range(queue) : e.by \in Tasks
         /\ By(queue) # {} => queue # <<>>
<1>1. queue \in Seq([by : Tasks, mode : {"read", "write"}])
  BY DEF Queue
<1>2. By(queue) = {e.by : e \in Range(queue)}
  BY DEF By, Range
<1>3. \A e \in Range(queue) : e.by \in Tasks
  <2> DEFINE R == [by : Tasks, mode : {"read", "write"}]
  <2>1. \A e \in R : e.by \in Tasks
    OBVIOUS
  <2> HIDE DEF R
  <2>2. queue \in Seq(R)
    BY <1>1 DEF R
  <2>3. \A i \in DOMAIN queue : queue[i] \in R
    BY <2>2
  <2> QED BY <2>1, <2>3 DEF Range
<1>4. By(queue) # {} => queue # <<>>
  BY DEF By
<1> QED BY <1>2, <1>3, <1>4

\* What a step of n may do to the queues of the states: nothing, make a new
\* state, ask for the one the map names, or leave that which it has found;
\* and its batch is put into the log only with the lock in hand.
StateMove(n) ==
    LET before == pc[n] \in StatePoints
        after == pc'[n] \in StatePoints
    IN  \/ stateLocks' = stateLocks /\ Len(states') = Len(states) /\ ~before /\ ~after
        \/ /\ stateLocks' = Append(stateLocks, Free) /\ Len(states') = Len(states) + 1
           /\ ~before /\ ~after
        \/ /\ AskState(n, namespaces, IF pc'[n] = "read" THEN "read" ELSE "write")
           /\ Len(states') = Len(states) /\ ~before /\ after /\ pc'[n] \notin LoggedPoints
           /\ namespaces # 0 /\ mine'[n].state = namespaces
        \/ LeaveState(n) /\ Len(states') = Len(states) /\ before /\ ~after
        \/ /\ stateLocks' = stateLocks /\ Len(states') = Len(states)
           /\ pc[n] \in {"flush", "apply"} /\ pc'[n] \in LoggedPoints /\ mine' = mine
           /\ pc[n] = "flush" => HoldsState(n)

LEMMA StateMoved ==
  ASSUME NsTypeOK, TaskShape, StateQueues, NEW n \in Tasks, OthersKept(n), StateMove(n)
  PROVE  /\ stateLocks' \in Seq(Queue(Tasks)) /\ Len(stateLocks') = Len(states')
         /\ StateQueues'
<1> DEFINE Q == Queue(Tasks)
<1>1. /\ stateLocks \in Seq(Q) /\ Len(stateLocks) = Len(states)
      /\ DOMAIN stateLocks = 1 .. Len(states) /\ Len(states) \in Nat
      /\ namespaces \in 0 .. Len(states)
  <2>1. Queue(Live) \subseteq Q
    BY QueueMonotone DEF Live
  <2> HIDE DEF Q
  <2>2. stateLocks \in Seq(Queue(Live)) /\ Len(stateLocks) = Len(states)
    BY DEF NsTypeOK
  <2>3. stateLocks \in Seq(Q)
    BY <2>1, <2>2
  <2> QED BY <2>2, <2>3, TypeFacts
<1>2. \A g \in DOMAIN stateLocks : stateLocks[g] \in Q
  BY <1>1, TypeFacts
<1>3. /\ \A m \in Tasks \ {n} : pc'[m] = pc[m] /\ mine'[m] = mine[m]
      /\ mine \in [Tasks -> Finding] /\ mine' \in [Tasks -> Finding]
  BY DEF OthersKept, NsTypeOK
<1>4. \A g \in DOMAIN stateLocks :
        Once(stateLocks[g]) /\ \A e \in Range(stateLocks[g]) : InStateQueue(g, e)
  BY DEF StateQueues
<1>5. \A m \in Tasks : pc[m] \in StatePoints =>
        /\ mine[m].state \in DOMAIN stateLocks
        /\ m \in By(stateLocks[mine[m].state])
        /\ pc[m] \in LoggedPoints => stateLocks[mine[m].state][1].by = m
  BY <1>1, StateFound DEF StateQueues
<1>6. \A g \in DOMAIN stateLocks : \A e \in Range(stateLocks[g]) : e.by \in Tasks
  BY <1>2, ByEntries
\* Entries of others stay what they were.
<1>7. ASSUME NEW h, NEW e, e.by \in Tasks \ {n}, InStateQueue(h, e)
      PROVE  InStateQueue(h, e)'
  BY <1>3, <1>7 DEF InStateQueue
<1> HIDE DEF Q
<1>8. CASE stateLocks' = stateLocks /\ Len(states') = Len(states)
           /\ pc[n] \notin StatePoints /\ pc'[n] \notin StatePoints
  <2>1. ASSUME NEW g \in DOMAIN stateLocks, NEW e \in Range(stateLocks[g])
        PROVE  InStateQueue(g, e)'
    <3>1. InStateQueue(g, e) /\ e.by \in Tasks
      BY <1>4, <1>6
    <3>2. e.by # n
      BY <1>8, <3>1 DEF InStateQueue
    <3> QED BY <1>7, <3>1, <3>2
  <2>2. \A m \in Tasks : pc'[m] \in StatePoints => m # n /\ pc'[m] = pc[m] /\ mine'[m] = mine[m]
    BY <1>3, <1>8
  <2> QED BY <1>1, <1>4, <1>5, <1>8, <2>1, <2>2 DEF StateQueues, Q
<1>9. CASE stateLocks' = Append(stateLocks, Free) /\ Len(states') = Len(states) + 1
           /\ pc[n] \notin StatePoints /\ pc'[n] \notin StatePoints
  <2>1. Free \in Q /\ Once(Free) /\ Range(Free) = {}
    BY DEF Free, Q, Queue, Once, Range
  <2>2. /\ stateLocks' \in Seq(Q) /\ Len(stateLocks') = Len(stateLocks) + 1
        /\ DOMAIN stateLocks' = 1 .. Len(states) + 1
        /\ \A g \in DOMAIN stateLocks : stateLocks'[g] = stateLocks[g]
        /\ stateLocks'[Len(states) + 1] = Free
    BY <1>1, <1>9, <2>1
  <2>3. \A g \in DOMAIN stateLocks' : g \in DOMAIN stateLocks \/ stateLocks'[g] = Free
    BY <1>1, <2>2
  <2>4. ASSUME NEW g \in DOMAIN stateLocks, NEW e \in Range(stateLocks[g])
        PROVE  InStateQueue(g, e)'
    <3>1. InStateQueue(g, e) /\ e.by \in Tasks
      BY <1>4, <1>6
    <3>2. e.by # n
      BY <1>9, <3>1 DEF InStateQueue
    <3> QED BY <1>7, <3>1, <3>2
  <2>5. \A m \in Tasks : pc'[m] \in StatePoints => m # n /\ pc'[m] = pc[m] /\ mine'[m] = mine[m]
    BY <1>3, <1>9
  <2>6. ASSUME NEW g \in DOMAIN stateLocks'
        PROVE  Once(stateLocks'[g]) /\ \A e \in Range(stateLocks'[g]) : InStateQueue(g, e)'
    <3>1. CASE g \in DOMAIN stateLocks
      BY <1>4, <2>2, <2>4, <3>1
    <3>2. CASE stateLocks'[g] = Free
      BY <2>1, <3>2
    <3> QED BY <2>3, <3>1, <3>2
  <2>7. ASSUME NEW m \in Tasks, pc'[m] \in StatePoints
        PROVE  /\ m \in By(stateLocks'[mine'[m].state])
               /\ pc'[m] \in LoggedPoints => stateLocks'[mine'[m].state][1].by = m
    BY <1>5, <2>2, <2>5, <2>7
  <2> QED BY <1>1, <1>9, <2>2, <2>6, <2>7 DEF StateQueues, Q
<1>10. CASE /\ AskState(n, namespaces, IF pc'[n] = "read" THEN "read" ELSE "write")
            /\ Len(states') = Len(states) /\ pc[n] \notin StatePoints
            /\ pc'[n] \in StatePoints /\ pc'[n] \notin LoggedPoints
            /\ namespaces # 0 /\ mine'[n].state = namespaces
  <2> DEFINE g == namespaces
             mode == IF pc'[n] = "read" THEN "read" ELSE "write"
             e0 == [by |-> n, mode |-> mode]
             old == stateLocks[g]
             new == Ask(old, n, mode)
  <2>1. g \in DOMAIN stateLocks /\ mode \in {"read", "write"} /\ old \in Q
    BY <1>1, <1>2, <1>10
  <2>2. stateLocks' = [stateLocks EXCEPT ![g] = new]
    BY <1>10 DEF AskState
  <2>3. \A h \in DOMAIN stateLocks : \A e \in Range(stateLocks[h]) : e.by # n
    BY <1>4, <1>10 DEF InStateQueue
  <2>4. n \notin By(old)
    BY <2>1, <2>3, ByEntries DEF Q
  <2>5. /\ new \in Q /\ Once(new) /\ By(new) = By(old) \cup {n}
        /\ Range(new) = Range(old) \cup {e0}
        /\ old # <<>> => new[1] = old[1]
    <3> HIDE DEF mode, old
    <3>1. old \in Queue(Tasks) /\ Once(old)
      BY <1>4, <2>1 DEF Q, old
    <3> QED BY <2>1, <2>4, <3>1, AskProps DEF Q
  <2> HIDE DEF new
  <2>6. /\ stateLocks' \in Seq(Q) /\ Len(stateLocks') = Len(stateLocks)
        /\ DOMAIN stateLocks' = DOMAIN stateLocks /\ stateLocks'[g] = new
        /\ \A h \in DOMAIN stateLocks \ {g} : stateLocks'[h] = stateLocks[h]
    BY <1>1, <2>1, <2>2, <2>5, ExceptSeq
  <2>7. ASSUME NEW h, NEW e, h = g, e = e0
        PROVE  InStateQueue(h, e)'
    BY <1>10, <2>7 DEF InStateQueue
  <2>8. ASSUME NEW h \in DOMAIN stateLocks, NEW e \in Range(stateLocks[h])
        PROVE  InStateQueue(h, e)'
    BY <1>4, <1>6, <1>7, <2>3
  <2>9. ASSUME NEW h \in DOMAIN stateLocks'
        PROVE  Once(stateLocks'[h]) /\ \A e \in Range(stateLocks'[h]) : InStateQueue(h, e)'
    <3>1. CASE h = g
      <4>1. Once(stateLocks'[h]) /\ Range(stateLocks'[h]) = Range(old) \cup {e0}
        BY <2>5, <2>6, <3>1
      <4>2. ASSUME NEW e \in Range(old)
            PROVE  InStateQueue(h, e)'
        BY <2>1, <2>8, <3>1
      <4> QED BY <2>7, <3>1, <4>1, <4>2
    <3>2. CASE h # g
      BY <1>4, <2>6, <2>8, <3>2
    <3> QED BY <3>1, <3>2
  <2>10. ASSUME NEW m \in Tasks, pc'[m] \in StatePoints
         PROVE  /\ m \in By(stateLocks'[mine'[m].state])
                /\ pc'[m] \in LoggedPoints => stateLocks'[mine'[m].state][1].by = m
    <3>1. CASE m = n
      BY <1>10, <2>5, <2>6, <3>1
    <3>2. CASE m # n
      <4>1. /\ pc'[m] = pc[m] /\ mine'[m] = mine[m]
            /\ mine[m].state \in DOMAIN stateLocks
            /\ m \in By(stateLocks[mine[m].state])
            /\ pc[m] \in LoggedPoints => stateLocks[mine[m].state][1].by = m
        BY <1>3, <1>5, <2>10, <3>2
      <4>2. CASE mine[m].state = g
        <5>1. old # <<>>
          BY <2>1, <4>1, <4>2, ByEntries DEF Q
        <5> QED BY <2>5, <2>6, <4>1, <4>2, <5>1
      <4>3. CASE mine[m].state # g
        BY <2>6, <4>1, <4>3
      <4> QED BY <4>2, <4>3
    <3> QED BY <3>1, <3>2
  <2> HIDE DEF g, old, mode, e0
  <2> QED BY <1>1, <1>10, <2>6, <2>9, <2>10 DEF StateQueues, Q
<1>11. CASE LeaveState(n) /\ Len(states') = Len(states) /\ pc[n] \in StatePoints
            /\ pc'[n] \notin StatePoints
  <2> DEFINE g == mine[n].state
             old == stateLocks[g]
             new == Leave(old, n)
  <2>1. g \in DOMAIN stateLocks /\ old \in Q /\ n \in By(old) /\ Once(old)
    BY <1>2, <1>4, <1>5, <1>11
  <2>2. stateLocks' = [stateLocks EXCEPT ![g] = new]
    BY <1>11 DEF LeaveState
  <2>3. /\ new \in Q /\ Once(new) /\ By(new) = By(old) \ {n}
        /\ Range(new) = {e \in Range(old) : e.by # n}
        /\ old[1].by # n => new[1] = old[1]
    <3>1. old \in Queue(Tasks) /\ n \in By(old) /\ Once(old)
      BY <2>1 DEF Q
    <3> HIDE DEF old
    <3>2. /\ Leave(old, n) \in Queue(Tasks) /\ Once(Leave(old, n))
          /\ By(Leave(old, n)) = By(old) \ {n}
          /\ Range(Leave(old, n)) = {e \in Range(old) : e.by # n}
          /\ old[1].by # n => Leave(old, n)[1] = old[1]
      BY <3>1, LeaveKeeps, Zenon
    <3> QED BY <3>2 DEF Q
  <2> HIDE DEF new
  <2>4. /\ stateLocks' \in Seq(Q) /\ Len(stateLocks') = Len(stateLocks)
        /\ DOMAIN stateLocks' = DOMAIN stateLocks /\ stateLocks'[g] = new
        /\ \A h \in DOMAIN stateLocks \ {g} : stateLocks'[h] = stateLocks[h]
    BY <1>1, <2>1, <2>2, <2>3, ExceptSeq
  <2>5. \A h \in DOMAIN stateLocks : \A e \in Range(stateLocks[h]) : e.by = n => h = g
    BY <1>4 DEF InStateQueue
  <2>6. ASSUME NEW h \in DOMAIN stateLocks, NEW e \in Range(stateLocks[h]), e.by # n
        PROVE  InStateQueue(h, e)'
    BY <1>4, <1>6, <1>7, <2>6
  <2>7. ASSUME NEW h \in DOMAIN stateLocks'
        PROVE  Once(stateLocks'[h]) /\ \A e \in Range(stateLocks'[h]) : InStateQueue(h, e)'
    <3>1. CASE h = g
      BY <2>1, <2>3, <2>4, <2>6, <3>1
    <3>2. CASE h # g
      BY <1>4, <2>4, <2>5, <2>6, <3>2
    <3> QED BY <3>1, <3>2
  <2>8. ASSUME NEW m \in Tasks, pc'[m] \in StatePoints
        PROVE  /\ m \in By(stateLocks'[mine'[m].state])
               /\ pc'[m] \in LoggedPoints => stateLocks'[mine'[m].state][1].by = m
    <3>1. /\ m # n /\ pc'[m] = pc[m] /\ mine'[m] = mine[m]
          /\ mine[m].state \in DOMAIN stateLocks
          /\ m \in By(stateLocks[mine[m].state])
          /\ pc[m] \in LoggedPoints => stateLocks[mine[m].state][1].by = m
      BY <1>3, <1>5, <1>11, <2>8
    <3>2. CASE mine[m].state = g
      BY <2>3, <2>4, <3>1, <3>2
    <3>3. CASE mine[m].state # g
      BY <2>4, <3>1, <3>3
    <3> QED BY <3>2, <3>3
  <2> HIDE DEF g, old
  <2> QED BY <1>1, <1>11, <2>4, <2>7, <2>8 DEF StateQueues, Q
<1>12. CASE /\ stateLocks' = stateLocks /\ Len(states') = Len(states)
            /\ pc[n] \in {"flush", "apply"} /\ pc'[n] \in LoggedPoints /\ mine' = mine
            /\ pc[n] = "flush" => HoldsState(n)
  <2>1. pc[n] \in StatePoints /\ pc'[n] \in StatePoints /\ pc'[n] # "read" /\ pc[n] # "read"
    BY <1>12 DEF StatePoints, LoggedPoints
  <2>2. ASSUME NEW g \in DOMAIN stateLocks, NEW e \in Range(stateLocks[g])
        PROVE  InStateQueue(g, e)'
    <3>1. InStateQueue(g, e) /\ e.by \in Tasks
      BY <1>4, <1>6
    <3>2. CASE e.by = n
      BY <1>12, <2>1, <3>1, <3>2 DEF InStateQueue
    <3> QED BY <1>7, <3>1, <3>2
  <2>3. stateLocks[mine[n].state][1].by = n
    <3>1. CASE pc[n] = "apply"
      BY <1>5, <2>1, <3>1 DEF LoggedPoints
    <3>2. CASE pc[n] = "flush"
      <4> DEFINE q == stateLocks[mine[n].state]
      <4>1. q \in Queue(Tasks) /\ Held(q, n)
        BY <1>2, <1>5, <1>12, <2>1, <3>2 DEF HoldsState, Q
      <4>2. \A e \in Range(q) : e.by = n => e.mode = "write"
        BY <1>4, <1>5, <2>1 DEF InStateQueue
      <4> HIDE DEF q
      <4>3. q[1].by = n
        BY <4>1, <4>2, HeldProps
      <4> QED BY <4>3 DEF q
    <3> QED BY <1>12, <3>1, <3>2
  <2>4. ASSUME NEW m \in Tasks, pc'[m] \in StatePoints
        PROVE  /\ m \in By(stateLocks'[mine'[m].state])
               /\ pc'[m] \in LoggedPoints => stateLocks'[mine'[m].state][1].by = m
    <3>1. CASE m = n
      BY <1>5, <1>12, <2>1, <2>3, <3>1
    <3>2. CASE m # n
      BY <1>3, <1>5, <1>12, <2>4, <3>2
    <3> QED BY <3>1, <3>2
  <2> QED BY <1>1, <1>4, <1>12, <2>2, <2>4 DEF StateQueues, Q
<1> QED BY <1>8, <1>9, <1>10, <1>11, <1>12 DEF StateMove
\* apply_wal_entry changes the state that the task has found.
LEMMA ApplyProps ==
  ASSUME NsTypeOK, TaskShape, NEW n \in Tasks, pc[n] = "apply", Apply(n)
  PROVE  /\ mine[n].state \in 1 .. Len(states)
         /\ states' \in Seq(NamespaceState) /\ Len(states') = Len(states)
         /\ \A g \in 1 .. Len(states) :
               states'[g] = IF g = mine[n].state
                            THEN Applied(states[g], NextSeq(n), mine[n].ops) ELSE states[g]
<1> DEFINE g == mine[n].state
           new == Applied(states[g], states[g].walSeq + 1, mine[n].ops)
<1>1. g \in 1 .. Len(states)
  BY StateFound DEF StatePoints
<1>2. /\ states \in Seq(NamespaceState) /\ states[g] \in NamespaceState
      /\ mine[n].ops \in Seq(Op) /\ DOMAIN states = 1 .. Len(states) /\ Len(states) \in Nat
  BY <1>1, TypeFacts DEF NsTypeOK
<1>3. states[g].walSeq + 1 \in Nat
  BY <1>2 DEF NamespaceState
<1>4. new \in NamespaceState
  BY <1>2, <1>3, AppliedType
<1>5. states' = [states EXCEPT ![g] = new]
  BY DEF Apply
<1>6. new = Applied(states[g], NextSeq(n), mine[n].ops)
  BY DEF NextSeq
<1> HIDE DEF new, g
<1>7. /\ states' \in Seq(NamespaceState) /\ Len(states') = Len(states)
      /\ states'[g] = new /\ \A h \in DOMAIN states \ {g} : states'[h] = states[h]
  BY <1>1, <1>2, <1>4, <1>5, ExceptSeq
<1> QED BY <1>1, <1>2, <1>6, <1>7 DEF g

\* A task is in the queue of the state it has found, and of no other.
LEMMA StateQueuesStep ==
  ASSUME NsTypeOK, TaskShape, StateQueues, NEW n \in Tasks,
         Move(n)
  PROVE  /\ stateLocks' \in Seq(Queue(Tasks)) /\ Len(stateLocks') = Len(states')
         /\ StateQueues'
<1> USE DEF At, Goto, Reply, locks, serverVars, StatePoints, LoggedPoints
<1>1. OthersKept(n)
  BY OthersAreKept
<1>2. /\ pc \in [Tasks -> Points] /\ states \in Seq(NamespaceState)
      /\ namespaces \in Nat /\ Len(states) \in Nat
  BY TypeFacts DEF NsTypeOK
<1>3. pc[n] = "apply" /\ Apply(n) => Len(states') = Len(states)
  BY ApplyProps
<1> SUFFICES StateMove(n)
  BY <1>1, StateMoved
<1> USE DEF StateMove
<1>4. CASE \E kind \in Jobs : Arrive(n, kind)
  BY <1>1, <1>2, <1>4 DEF Arrive, First, Jobs, Lifecycle
<1>5. CASE Check(n)
  BY <1>1, <1>2, <1>5 DEF Check
<1>6. CASE PutNewMeta(n)
  BY <1>1, <1>2, <1>6 DEF PutNewMeta, Lost
<1>7. CASE InsertState(n)
  BY <1>1, <1>2, <1>7 DEF InsertState
<1>8. CASE InsertBatcher(n)
  BY <1>1, <1>2, <1>8 DEF InsertBatcher
<1>9. CASE Erase(n)
  BY <1>1, <1>2, <1>9 DEF Erase, EraseListed, EraseMeta, EraseFails, Lost
<1>10. CASE RemoveState(n)
  BY <1>1, <1>2, <1>10 DEF RemoveState
<1>11. CASE RemoveBatcher(n)
  BY <1>1, <1>2, <1>11 DEF RemoveBatcher
<1>12. CASE WriteNothing(n)
  BY <1>1, <1>2, <1>12 DEF WriteNothing
<1>13. CASE LookupBatcher(n)
  BY <1>1, <1>2, <1>13 DEF LookupBatcher
<1>14. CASE \E w \in Writes : Submit(n, w)
  BY <1>1, <1>2, <1>14 DEF Submit
<1>15. CASE TakeBatch(n)
  BY <1>1, <1>2, <1>15 DEF TakeBatch
<1>16. CASE FindState(n)
  BY <1>1, <1>2, StateSet, <1>16 DEF FindState
<1>17. CASE PutWal(n)
  BY <1>1, <1>2, <1>17 DEF PutWal, Store
<1>18. CASE ApplyEntry(n)
  BY <1>1, <1>2, <1>3, <1>18 DEF ApplyEntry, Apply
<1>19. CASE PutMeta(n)
  BY <1>1, <1>2, <1>19 DEF PutMeta, Lost
<1>20. CASE Enter(n)
  BY <1>1, <1>2, StateSet, <1>20 DEF Enter
<1>21. CASE Read(n)
  BY <1>1, <1>2, <1>21 DEF Read
<1>22. CASE ReadEtag(n)
  BY <1>1, <1>2, <1>22 DEF ReadEtag
<1>23. CASE EnterAgain(n)
  BY <1>1, <1>2, StateSet, <1>23 DEF EnterAgain
<1>24. CASE Swap(n)
  BY <1>1, <1>2, <1>24 DEF Swap
<1>25. CASE Cancel(n)
  <2>1. mine[n].state # 0 <=> pc[n] \in StatePoints
    BY <1>25 DEF Cancel, TaskShape, TaskOK
  <2>2. pc'[n] = "answered" /\ states' = states
    BY <1>2, <1>25 DEF Cancel, Live
  <2> QED BY <1>2, <2>1, <2>2, <1>25 DEF Cancel
<1> QED BY <1>4, <1>5, <1>6, <1>7, <1>8, <1>9, <1>10, <1>11, <1>12, <1>13, <1>14,
           <1>15, <1>16, <1>17, <1>18, <1>19, <1>20, <1>21, <1>22, <1>23, <1>24, <1>25
      DEF Move, Step, Create, Delete, WriteDocs, Flush, Visit
-----------------------------------------------------------------------------
(***************************************************************************)
(* Types.                                                                  *)
(***************************************************************************)

\* A queue holds those who are in it.
LEMMA QueueNarrow ==
  ASSUME NEW S, NEW T, NEW q \in Queue(S), By(q) \subseteq T
  PROVE  q \in Queue(T)
<1> DEFINE R == [by : S, mode : {"read", "write"}]
           U == [by : T, mode : {"read", "write"}]
<1>1. \A e \in R : e.by \in T => e \in U
  OBVIOUS
<1> HIDE DEF R, U
<1>2. q \in Seq(R)
  BY DEF Queue, R
<1>3. Len(q) \in Nat /\ DOMAIN q = 1 .. Len(q) /\ \A i \in DOMAIN q : q[i] \in R
  BY <1>2
<1>4. \A i \in DOMAIN q : q[i].by \in T
  BY DEF By
<1>5. \A i \in 1 .. Len(q) : q[i] \in U
  BY <1>1, <1>3, <1>4
<1>6. q \in Seq(U)
  BY <1>2, <1>3, <1>5
<1> QED BY <1>6 DEF Queue, U

\* Only requests in progress are in the queues after a step.
LEMMA LocksOfTheLive ==
  ASSUME mapLock' \in Queue(Tasks), stateLocks' \in Seq(Queue(Tasks)),
         MapQueue', StateQueues'
  PROVE  mapLock' \in Queue(Live') /\ stateLocks' \in Seq(Queue(Live'))
<1>1. \A n \in Tasks : pc'[n] \in MapPoints \cup StatePoints => n \in Live'
  BY DEF Live, MapPoints, StatePoints
<1>2. mapLock' \in Queue(Live')
  <2> DEFINE q == mapLock'
  <2>1. By(q) \subseteq Tasks
    BY ByEntries
  <2>2. By(q) \subseteq Live'
    BY <1>1, <2>1 DEF MapQueue
  <2> HIDE DEF q
  <2>3. q \in Queue(Tasks)
    BY DEF q
  <2>4. q \in Queue(Live')
    BY <2>2, <2>3, QueueNarrow
  <2> QED BY <2>4 DEF q
<1>3. ASSUME NEW g \in DOMAIN stateLocks'
      PROVE  stateLocks'[g] \in Queue(Live')
  <2> DEFINE q == stateLocks'[g]
  <2>1. q \in Queue(Tasks)
    <3> DEFINE Q == Queue(Tasks)
    <3> HIDE DEF Q
    <3>1. stateLocks' \in Seq(Q)
      BY DEF Q
    <3>2. stateLocks'[g] \in Q
      BY <3>1
    <3> QED BY <3>2 DEF Q
  <2>2. \A e \in Range(q) : e.by \in Tasks /\ pc'[e.by] \in StatePoints
    BY <2>1, ByEntries DEF StateQueues, InStateQueue
  <2>3. By(q) \subseteq Live'
    BY <1>1, <2>1, <2>2, ByEntries
  <2> HIDE DEF q
  <2>4. q \in Queue(Live')
    BY <2>1, <2>3, QueueNarrow
  <2> QED BY <2>4 DEF q
<1>4. stateLocks' \in Seq(Queue(Live'))
  <2> DEFINE Q == Queue(Tasks)
             L == Queue(Live')
  <2> HIDE DEF Q, L
  <2>1. stateLocks' \in Seq(Q) /\ \A g \in DOMAIN stateLocks' : stateLocks'[g] \in L
    BY <1>3 DEF Q, L
  <2>2. stateLocks' \in Seq(L)
    BY <2>1
  <2> QED BY <2>2 DEF L
<1> QED BY <1>2, <1>4

\* Generations are only added, and the maps name those there are.
LEMMA ServerTypes ==
  ASSUME NsTypeOK, TaskShape, NEW n \in Tasks,
         Move(n)
  PROVE  /\ states' \in Seq(NamespaceState) /\ Len(states') >= Len(states)
         /\ buffers' \in Seq(Seq(Op)) /\ Len(buffers') >= Len(buffers)
         /\ namespaces' \in 0 .. Len(states') /\ batchers' \in 0 .. Len(buffers')
<1> DEFINE T == Seq(Op)
<1> USE DEF At, serverVars, maps
<1>1. /\ states \in Seq(NamespaceState) /\ Len(states) \in Nat
      /\ buffers \in Seq(T) /\ Len(buffers) \in Nat
      /\ namespaces \in 0 .. Len(states) /\ batchers \in 0 .. Len(buffers)
  BY TypeFacts DEF NsTypeOK, Generation
<1> HIDE DEF T
<1> SUFFICES /\ states' \in Seq(NamespaceState) /\ Len(states') >= Len(states)
             /\ buffers' \in Seq(T) /\ Len(buffers') >= Len(buffers)
             /\ namespaces' \in 0 .. Len(states') /\ batchers' \in 0 .. Len(buffers')
  BY DEF T
<1>2. CASE \E kind \in Jobs : Arrive(n, kind)
  BY <1>1, <1>2 DEF Arrive, First, Jobs, Lifecycle
<1>3. CASE Check(n)
  BY <1>1, <1>3 DEF Check
<1>4. CASE PutNewMeta(n)
  BY <1>1, <1>4 DEF PutNewMeta, Lost
<1>5. CASE InsertState(n)
  <2>1. FreshState \in NamespaceState
    BY FreshReplay
  <2>2. /\ states' \in Seq(NamespaceState) /\ Len(states') = Len(states) + 1
        /\ namespaces' = Len(states') /\ buffers' = buffers /\ batchers' = batchers
    BY <1>1, <2>1, <1>5 DEF InsertState
  <2> QED BY <1>1, <2>2
<1>6. CASE InsertBatcher(n)
  <2>1. <<>> \in T
    BY DEF T
  <2>2. /\ buffers' \in Seq(T) /\ Len(buffers') = Len(buffers) + 1
        /\ batchers' = Len(buffers') /\ states' = states /\ namespaces' = namespaces
    BY <1>1, <2>1, <1>6 DEF InsertBatcher
  <2> QED BY <1>1, <2>2
<1>7. CASE Erase(n)
  BY <1>1, <1>7 DEF Erase, EraseListed, EraseMeta, EraseFails, Lost
<1>8. CASE RemoveState(n)
  BY <1>1, <1>8 DEF RemoveState
<1>9. CASE RemoveBatcher(n)
  BY <1>1, <1>9 DEF RemoveBatcher
<1>10. CASE WriteNothing(n)
  BY <1>1, <1>10 DEF WriteNothing
<1>11. CASE LookupBatcher(n)
  BY <1>1, <1>11 DEF LookupBatcher
<1>12. CASE \E w \in Writes : Submit(n, w)
  <2>1. PICK w \in Writes : Submit(n, w)
    BY <1>12
  <2> DEFINE b == mine[n].batcher
             op == [req |-> n, ids |-> w.ids, doc |-> w.doc]
             new == Append(buffers[b], op)
  <2>2. op \in Op
    BY WritesAssumption, ReqsAssumption DEF Write, Op, Tasks
  <2>3. b \in 1 .. Len(buffers) /\ buffers[b] \in Seq(Op)
    BY <2>1, BatcherFound, TypeFacts DEF Submit
  <2>4. new \in T
    <3> HIDE DEF op
    <3> QED BY <2>2, <2>3 DEF T
  <2>5. buffers' = [buffers EXCEPT ![b] = new] /\ states' = states /\ UNCHANGED maps
    BY <2>1 DEF Submit
  <2> HIDE DEF b, new
  <2>6. buffers' \in Seq(T) /\ Len(buffers') = Len(buffers)
    BY <1>1, <2>3, <2>4, <2>5, ExceptSeq
  <2> QED BY <1>1, <2>5, <2>6
<1>13. CASE TakeBatch(n)
  <2> DEFINE b == mine[n].batcher
  <2>1. b \in 1 .. Len(buffers) /\ <<>> \in T
    BY <1>13, BatcherFound DEF TakeBatch, T
  <2>2. buffers' = [buffers EXCEPT ![b] = <<>>] /\ states' = states /\ UNCHANGED maps
    BY <1>13 DEF TakeBatch
  <2> HIDE DEF b
  <2>3. buffers' \in Seq(T) /\ Len(buffers') = Len(buffers)
    BY <1>1, <2>1, <2>2, ExceptSeq
  <2> QED BY <1>1, <2>2, <2>3
<1>14. CASE FindState(n)
  BY <1>1, <1>14 DEF FindState
<1>15. CASE PutWal(n)
  BY <1>1, <1>15 DEF PutWal, Store
<1>16. CASE ApplyEntry(n)
  <2>1. pc[n] = "apply" /\ Apply(n)
    BY <1>16 DEF ApplyEntry, Apply
  <2>2. states' \in Seq(NamespaceState) /\ Len(states') = Len(states)
    BY <2>1, ApplyProps
  <2>3. buffers' = buffers /\ UNCHANGED maps
    BY <2>1 DEF Apply
  <2> QED BY <1>1, <2>2, <2>3
<1>17. CASE PutMeta(n)
  BY <1>1, <1>17 DEF PutMeta, Lost
<1>18. CASE Enter(n)
  BY <1>1, <1>18 DEF Enter
<1>19. CASE Read(n)
  BY <1>1, <1>19 DEF Read
<1>20. CASE ReadEtag(n)
  BY <1>1, <1>20 DEF ReadEtag
<1>21. CASE EnterAgain(n)
  BY <1>1, <1>21 DEF EnterAgain
<1>22. CASE Swap(n)
  BY <1>1, <1>22 DEF Swap
<1>23. CASE Cancel(n)
  BY <1>1, <1>23 DEF Cancel
<1> QED BY <1>2, <1>3, <1>4, <1>5, <1>6, <1>7, <1>8, <1>9, <1>10, <1>11, <1>12, <1>13,
           <1>14, <1>15, <1>16, <1>17, <1>18, <1>19, <1>20, <1>21, <1>22, <1>23
      DEF Move, Step, Create, Delete, WriteDocs, Flush, Visit

\* The log is changed by the PUT of a flush only.
LEMMA LogSteps ==
  ASSUME NEW n \in Tasks, Move(n)
  PROVE  \/ wal' = wal
         \/ At(n, "write", "flush") /\ NextSeq(n) \notin DOMAIN wal /\ Store(n)
<1> USE DEF storeVars
<1>1. CASE \E kind \in Jobs : Arrive(n, kind)
  BY <1>1 DEF Arrive, First, Jobs, Lifecycle
<1>2. CASE Check(n)
  BY <1>2 DEF Check
<1>3. CASE PutNewMeta(n)
  BY <1>3 DEF PutNewMeta, Lost
<1>4. CASE InsertState(n)
  BY <1>4 DEF InsertState
<1>5. CASE InsertBatcher(n)
  BY <1>5 DEF InsertBatcher
<1>6. CASE Erase(n)
  BY <1>6 DEF Erase, EraseListed, EraseMeta, EraseFails, Lost
<1>7. CASE RemoveState(n)
  BY <1>7 DEF RemoveState
<1>8. CASE RemoveBatcher(n)
  BY <1>8 DEF RemoveBatcher
<1>9. CASE WriteNothing(n)
  BY <1>9 DEF WriteNothing
<1>10. CASE LookupBatcher(n)
  BY <1>10 DEF LookupBatcher
<1>11. CASE \E w \in Writes : Submit(n, w)
  BY <1>11 DEF Submit
<1>12. CASE TakeBatch(n)
  BY <1>12 DEF TakeBatch
<1>13. CASE FindState(n)
  BY <1>13 DEF FindState
<1>14. CASE PutWal(n)
  BY <1>14 DEF PutWal
<1>15. CASE ApplyEntry(n)
  BY <1>15 DEF ApplyEntry, Apply
<1>16. CASE PutMeta(n)
  BY <1>16 DEF PutMeta, Lost
<1>17. CASE Enter(n)
  BY <1>17 DEF Enter
<1>18. CASE Read(n)
  BY <1>18 DEF Read
<1>19. CASE ReadEtag(n)
  BY <1>19 DEF ReadEtag
<1>20. CASE EnterAgain(n)
  BY <1>20 DEF EnterAgain
<1>21. CASE Swap(n)
  BY <1>21 DEF Swap
<1>22. CASE Cancel(n)
  BY <1>22 DEF Cancel
<1> QED BY <1>1, <1>2, <1>3, <1>4, <1>5, <1>6, <1>7, <1>8, <1>9, <1>10, <1>11, <1>12,
           <1>13, <1>14, <1>15, <1>16, <1>17, <1>18, <1>19, <1>20, <1>21, <1>22
      DEF Move, Step, Create, Delete, WriteDocs, Flush, Visit

\* A PUT that succeeds adds the entry after the last.
LEMMA StoreProps ==
  ASSUME NsTypeOK, TaskShape, LogShape, ReplayShape, NEW n \in Tasks, pc[n] = "flush",
         NextSeq(n) \notin DOMAIN wal, Store(n)
  PROVE  /\ NextSeq(n) \in Nat
         /\ DOMAIN wal' = DOMAIN wal \cup {NextSeq(n)}
         /\ wal'[NextSeq(n)] = mine[n].ops
         /\ \A s \in DOMAIN wal : wal'[s] = wal[s]
         /\ LogShape'
         /\ IsFiniteSet(DOMAIN wal') /\ DOMAIN wal' \subseteq Nat \ {0}
         /\ \A s \in DOMAIN wal' : wal'[s] \in Seq(Op)
<1> DEFINE N == Cardinality(DOMAIN wal)
           w == states[mine[n].state].walSeq
<1>1. N \in Nat /\ DOMAIN wal = 1 .. N
  BY FS_CardinalityType DEF NsTypeOK, LogShape
<1>2. w \in Nat /\ 1 .. w \subseteq DOMAIN wal /\ NextSeq(n) = w + 1
  <2>1. mine[n].state \in 1 .. Len(states)
    BY StateFound DEF StatePoints
  <2>2. states[mine[n].state] \in NamespaceState /\ OfTheLog(states[mine[n].state])
    BY <2>1, TypeFacts DEF ReplayShape
  <2> QED BY <2>2 DEF OfTheLog, NamespaceState, NextSeq
<1> HIDE DEF N, w
<1>3. NextSeq(n) = N + 1
  <2>1. w <= N
    <3>1. CASE w = 0
      BY <1>1, <3>1
    <3>2. CASE w # 0
      <4>1. w \in 1 .. w
        BY <1>2, <3>2
      <4> QED BY <1>1, <1>2, <4>1
    <3> QED BY <3>1, <3>2
  <2> QED BY <1>1, <1>2, <2>1
<1>4. /\ DOMAIN wal' = DOMAIN wal \cup {NextSeq(n)}
      /\ wal'[NextSeq(n)] = mine[n].ops
      /\ \A s \in DOMAIN wal : wal'[s] = wal[s]
  BY DEF Store
<1>5. DOMAIN wal' = 1 .. N + 1
  BY <1>1, <1>3, <1>4
<1>6. Cardinality(1 .. N + 1) = N + 1 /\ IsFiniteSet(1 .. N + 1)
  <2>1. N + 1 \in Int /\ 1 \in Int
    BY <1>1
  <2>2. /\ IsFiniteSet(1 .. N + 1)
        /\ Cardinality(1 .. N + 1) = IF 1 > N + 1 THEN 0 ELSE (N + 1) - 1 + 1
    BY <2>1, FS_Interval
  <2> QED BY <1>1, <2>2
<1>7. LogShape'
  BY <1>5, <1>6 DEF LogShape
<1>8. DOMAIN wal' \subseteq Nat \ {0}
  BY <1>1, <1>5
<1>9. ASSUME NEW s \in DOMAIN wal'
      PROVE  wal'[s] \in Seq(Op)
  <2>1. CASE s \in DOMAIN wal
    BY <1>4, <2>1 DEF NsTypeOK
  <2>2. CASE s = NextSeq(n)
    BY <1>4, <2>2, TypeFacts
  <2> QED BY <1>4, <2>1, <2>2
<1> QED BY <1>1, <1>3, <1>4, <1>5, <1>6, <1>7, <1>8, <1>9

\* What a task has found is of a generation that exists.
LEMMA FoundRemains ==
  ASSUME NsTypeOK, TaskShape, NEW n \in Tasks,
         Move(n)
  PROVE  \A m \in Live' : mine'[m].batcher <= Len(buffers) /\ mine'[m].state <= Len(states)
<1> USE DEF At, Goto, Reply
<1>1. OthersKept(n)
  BY OthersAreKept
<1>2. /\ mine \in [Tasks -> Finding] /\ pc \in [Tasks -> Points]
      /\ namespaces \in 0 .. Len(states) /\ batchers \in 0 .. Len(buffers)
      /\ mine[n].batcher \in Nat /\ mine[n].state \in Nat
      /\ Len(states) \in Nat /\ Len(buffers) \in Nat
  BY TypeFacts DEF NsTypeOK
<1>3. /\ \A m \in Live : mine[m].batcher <= Len(buffers) /\ mine[m].state <= Len(states)
      /\ pc[n] = "idle" => mine[n] = NothingFound
  BY DEF NsTypeOK, TaskShape, TaskOK
<1>4. pc[n] = "answered" => FALSE
  BY DEF Move, Cancel, Live, Arrive, Step, Create, Delete, WriteDocs, Flush, Visit, Check,
     PutNewMeta, InsertState, InsertBatcher, Erase, EraseListed, EraseMeta, RemoveState,
     RemoveBatcher, WriteNothing, LookupBatcher, Submit, TakeBatch, FindState, PutWal,
     ApplyEntry, Apply, PutMeta, Enter, Read, ReadEtag, EnterAgain, Swap
<1>5. mine[n].batcher <= Len(buffers) /\ mine[n].state <= Len(states)
  <2>1. CASE pc[n] = "idle"
    BY <1>2, <1>3, <2>1 DEF NothingFound
  <2>2. CASE pc[n] # "idle"
    BY <1>3, <1>4, <2>2 DEF Live
  <2> QED BY <2>1, <2>2
<1> SUFFICES mine'[n].batcher <= Len(buffers) /\ mine'[n].state <= Len(states)
  <2>1. \A m \in Live' : m \in Tasks /\ (m # n => m \in Live /\ mine'[m] = mine[m])
    BY <1>1 DEF OthersKept, Live
  <2> QED BY <1>3, <2>1
<1>6. CASE \E kind \in Jobs : Arrive(n, kind)
  BY <1>2, <1>5, <1>6 DEF Arrive, First, Jobs, Lifecycle
<1>7. CASE Check(n)
  BY <1>2, <1>5, <1>7 DEF Check
<1>8. CASE PutNewMeta(n)
  BY <1>2, <1>5, <1>8 DEF PutNewMeta, Lost
<1>9. CASE InsertState(n)
  BY <1>2, <1>5, <1>9 DEF InsertState
<1>10. CASE InsertBatcher(n)
  BY <1>2, <1>5, <1>10 DEF InsertBatcher
<1>11. CASE Erase(n)
  BY <1>2, <1>5, <1>11 DEF Erase, EraseListed, EraseMeta, EraseFails, Lost
<1>12. CASE RemoveState(n)
  BY <1>2, <1>5, <1>12 DEF RemoveState
<1>13. CASE RemoveBatcher(n)
  BY <1>2, <1>5, <1>13 DEF RemoveBatcher
<1>14. CASE WriteNothing(n)
  BY <1>2, <1>5, <1>14 DEF WriteNothing
<1>15. CASE LookupBatcher(n)
  BY <1>2, <1>5, BatcherSet, <1>15 DEF LookupBatcher
<1>16. CASE \E w \in Writes : Submit(n, w)
  BY <1>2, <1>5, <1>16 DEF Submit
<1>17. CASE TakeBatch(n)
  <2>1. buffers[mine[n].batcher] \in Seq(Op)
    BY <1>17, BatcherFound, TypeFacts DEF TakeBatch
  <2>2. mine' = [mine EXCEPT ![n].ops = buffers[mine[n].batcher]]
    BY <1>17 DEF TakeBatch
  <2>3. mine'[n].batcher = mine[n].batcher /\ mine'[n].state = mine[n].state
    BY <2>1, <2>2, OpsSet
  <2> QED BY <1>5, <2>3
<1>18. CASE FindState(n)
  BY <1>2, <1>5, StateSet, <1>18 DEF FindState
<1>19. CASE PutWal(n)
  BY <1>2, <1>5, ForgetProps, <1>19 DEF PutWal, Store
<1>20. CASE ApplyEntry(n)
  BY <1>2, <1>5, <1>20 DEF ApplyEntry, Apply
<1>21. CASE PutMeta(n)
  BY <1>2, <1>5, ForgetProps, <1>21 DEF PutMeta, Lost
<1>22. CASE Enter(n)
  BY <1>2, <1>5, StateSet, <1>22 DEF Enter
<1>23. CASE Read(n)
  BY <1>2, <1>5, ForgetProps, <1>23 DEF Read
<1>24. CASE ReadEtag(n)
  BY <1>2, <1>5, ForgetProps, <1>24 DEF ReadEtag
<1>25. CASE EnterAgain(n)
  BY <1>2, <1>5, StateSet, <1>25 DEF EnterAgain
<1>26. CASE Swap(n)
  BY <1>2, <1>5, ForgetProps, <1>26 DEF Swap
<1>27. CASE Cancel(n)
  BY <1>2, <1>5, ForgetProps, <1>27 DEF Cancel
<1> QED BY <1>6, <1>7, <1>8, <1>9, <1>10, <1>11, <1>12, <1>13, <1>14, <1>15, <1>16,
           <1>17, <1>18, <1>19, <1>20, <1>21, <1>22, <1>23, <1>24, <1>25, <1>26, <1>27
      DEF Move, Step, Create, Delete, WriteDocs, Flush, Visit

\* The flags of the server, of the store and of the history.
LEMMA Booleans ==
  ASSUME NsTypeOK, TaskShape, NEW n \in Tasks,
         Move(n)
  PROVE  /\ up' \in BOOLEAN /\ meta' \in BOOLEAN
         /\ overlapped' \in BOOLEAN /\ parted' \in BOOLEAN
<1> USE DEF storeVars, history
<1>1. /\ up \in BOOLEAN /\ meta \in BOOLEAN
      /\ overlapped \in BOOLEAN /\ parted \in BOOLEAN
  BY DEF NsTypeOK
<1>2. up' = up
  BY OthersAreKept DEF OthersKept
<1>3. CASE \E kind \in Jobs : Arrive(n, kind)
  BY <1>1, <1>2, <1>3 DEF Arrive
<1>4. CASE Check(n)
  BY <1>1, <1>2, <1>4 DEF Check
<1>5. CASE PutNewMeta(n)
  BY <1>1, <1>2, <1>5 DEF PutNewMeta, Lost
<1>6. CASE InsertState(n)
  BY <1>1, <1>2, <1>6 DEF InsertState
<1>7. CASE InsertBatcher(n)
  BY <1>1, <1>2, <1>7 DEF InsertBatcher
<1>8. CASE Erase(n)
  BY <1>1, <1>2, <1>8 DEF Erase, EraseListed, EraseMeta, EraseFails, Lost
<1>9. CASE RemoveState(n)
  BY <1>1, <1>2, <1>9 DEF RemoveState
<1>10. CASE RemoveBatcher(n)
  BY <1>1, <1>2, <1>10 DEF RemoveBatcher
<1>11. CASE WriteNothing(n)
  BY <1>1, <1>2, <1>11 DEF WriteNothing
<1>12. CASE LookupBatcher(n)
  BY <1>1, <1>2, <1>12 DEF LookupBatcher
<1>13. CASE \E w \in Writes : Submit(n, w)
  BY <1>1, <1>2, <1>13 DEF Submit
<1>14. CASE TakeBatch(n)
  BY <1>1, <1>2, <1>14 DEF TakeBatch
<1>15. CASE FindState(n)
  BY <1>1, <1>2, <1>15 DEF FindState
<1>16. CASE PutWal(n)
  BY <1>1, <1>2, <1>16 DEF PutWal, Store
<1>17. CASE ApplyEntry(n)
  BY <1>1, <1>2, <1>17 DEF ApplyEntry, Apply
<1>18. CASE PutMeta(n)
  BY <1>1, <1>2, <1>18 DEF PutMeta, Lost
<1>19. CASE Enter(n)
  BY <1>1, <1>2, <1>19 DEF Enter
<1>20. CASE Read(n)
  BY <1>1, <1>2, <1>20 DEF Read
<1>21. CASE ReadEtag(n)
  BY <1>1, <1>2, <1>21 DEF ReadEtag
<1>22. CASE EnterAgain(n)
  BY <1>1, <1>2, <1>22 DEF EnterAgain
<1>23. CASE Swap(n)
  BY <1>1, <1>2, <1>23 DEF Swap
<1>24. CASE Cancel(n)
  BY <1>1, <1>2, <1>24 DEF Cancel
<1> QED BY <1>3, <1>4, <1>5, <1>6, <1>7, <1>8, <1>9, <1>10, <1>11, <1>12, <1>13, <1>14,
           <1>15, <1>16, <1>17, <1>18, <1>19, <1>20, <1>21, <1>22, <1>23, <1>24
      DEF Move, Step, Create, Delete, WriteDocs, Flush, Visit

\* Only crashes count.
LEMMA CrashesKept ==
  ASSUME NEW n \in Tasks, Move(n)
  PROVE  crashes' = crashes
<1>1. CASE \E kind \in Jobs : Arrive(n, kind)
  BY <1>1 DEF Arrive
<1>2. CASE Check(n)
  BY <1>2 DEF Check
<1>3. CASE PutNewMeta(n)
  BY <1>3 DEF PutNewMeta, Lost
<1>4. CASE InsertState(n)
  BY <1>4 DEF InsertState
<1>5. CASE InsertBatcher(n)
  BY <1>5 DEF InsertBatcher
<1>6. CASE Erase(n)
  BY <1>6 DEF Erase, EraseListed, EraseMeta, EraseFails, Lost
<1>7. CASE RemoveState(n)
  BY <1>7 DEF RemoveState
<1>8. CASE RemoveBatcher(n)
  BY <1>8 DEF RemoveBatcher
<1>9. CASE WriteNothing(n)
  BY <1>9 DEF WriteNothing
<1>10. CASE LookupBatcher(n)
  BY <1>10 DEF LookupBatcher
<1>11. CASE \E w \in Writes : Submit(n, w)
  BY <1>11 DEF Submit
<1>12. CASE TakeBatch(n)
  BY <1>12 DEF TakeBatch
<1>13. CASE FindState(n)
  BY <1>13 DEF FindState
<1>14. CASE PutWal(n)
  BY <1>14 DEF PutWal, Store
<1>15. CASE ApplyEntry(n)
  BY <1>15 DEF ApplyEntry, Apply
<1>16. CASE PutMeta(n)
  BY <1>16 DEF PutMeta, Lost
<1>17. CASE Enter(n)
  BY <1>17 DEF Enter
<1>18. CASE Read(n)
  BY <1>18 DEF Read
<1>19. CASE ReadEtag(n)
  BY <1>19 DEF ReadEtag
<1>20. CASE EnterAgain(n)
  BY <1>20 DEF EnterAgain
<1>21. CASE Swap(n)
  BY <1>21 DEF Swap
<1>22. CASE Cancel(n)
  BY <1>22 DEF Cancel
<1> QED BY <1>1, <1>2, <1>3, <1>4, <1>5, <1>6, <1>7, <1>8, <1>9, <1>10, <1>11, <1>12,
           <1>13, <1>14, <1>15, <1>16, <1>17, <1>18, <1>19, <1>20, <1>21, <1>22
      DEF Move, Step, Create, Delete, WriteDocs, Flush, Visit

\* A request to meta.bin outlives its task only if that ends without success.
LEMMA LateStep ==
  ASSUME NsTypeOK, TaskShape, LateShape, NEW n \in Tasks, Move(n)
  PROVE  late' \subseteq Tasks /\ LateShape'
<1> USE DEF storeVars, At, Reply
<1>1. OthersKept(n)
  BY OthersAreKept
<1>2. /\ pc \in [Tasks -> Points] /\ answer \in [Tasks -> Answers] /\ late \subseteq Tasks
      /\ n \in Live => answer[n] = Unanswered
  BY DEF NsTypeOK, TaskShape, TaskOK
<1>3. pc[n] # "answered"
  BY DEF Move, Cancel, Live, Arrive, Step, Create, Delete, WriteDocs, Flush, Visit, Check,
     PutNewMeta, InsertState, InsertBatcher, Erase, EraseListed, EraseMeta, RemoveState,
     RemoveBatcher, WriteNothing, LookupBatcher, Submit, TakeBatch, FindState, PutWal,
     ApplyEntry, Apply, PutMeta, Enter, Read, ReadEtag, EnterAgain, Swap
<1> DEFINE Ended ==
             /\ late' = late \cup {n} /\ pc'[n] = "answered"
             /\ answer'[n] \in {Unanswered, StorageError}
<1> SUFFICES late' = late \/ Ended
  <2>1. n \notin late
    BY <1>3 DEF LateShape
  <2>2. \A m \in late : m \in Tasks \ {n} /\ (m \in Unsettled => m \in Unsettled')
    BY <1>1, <1>2, <2>1 DEF OthersKept, Unsettled
  <2>3. Ended => n \in Tasks /\ (job'[n] = "delete" => n \in Unsettled')
    BY DEF Unsettled
  <2>4. \A m \in late : pc'[m] = "answered" /\ (job'[m] = "delete" => m \in Unsettled')
    BY <1>1, <2>2 DEF LateShape, OthersKept
  <2> QED BY <1>2, <2>3, <2>4 DEF LateShape
<1>4. CASE \E kind \in Jobs : Arrive(n, kind)
  BY <1>4 DEF Arrive
<1>5. CASE Check(n)
  BY <1>5 DEF Check
<1>6. CASE PutNewMeta(n)
  BY <1>2, <1>6 DEF PutNewMeta, Lost
<1>7. CASE InsertState(n)
  BY <1>7 DEF InsertState
<1>8. CASE InsertBatcher(n)
  BY <1>8 DEF InsertBatcher
<1>9. CASE Erase(n)
  BY <1>2, <1>9 DEF Erase, EraseListed, EraseMeta, EraseFails, Lost
<1>10. CASE RemoveState(n)
  BY <1>10 DEF RemoveState
<1>11. CASE RemoveBatcher(n)
  BY <1>11 DEF RemoveBatcher
<1>12. CASE WriteNothing(n)
  BY <1>12 DEF WriteNothing
<1>13. CASE LookupBatcher(n)
  BY <1>13 DEF LookupBatcher
<1>14. CASE \E w \in Writes : Submit(n, w)
  BY <1>14 DEF Submit
<1>15. CASE TakeBatch(n)
  BY <1>15 DEF TakeBatch
<1>16. CASE FindState(n)
  BY <1>16 DEF FindState
<1>17. CASE PutWal(n)
  BY <1>17 DEF PutWal, Store
<1>18. CASE ApplyEntry(n)
  BY <1>18 DEF ApplyEntry, Apply
<1>19. CASE PutMeta(n)
  BY <1>2, <1>19 DEF PutMeta, Lost
<1>20. CASE Enter(n)
  BY <1>20 DEF Enter
<1>21. CASE Read(n)
  BY <1>21 DEF Read
<1>22. CASE ReadEtag(n)
  BY <1>22 DEF ReadEtag
<1>23. CASE EnterAgain(n)
  BY <1>23 DEF EnterAgain
<1>24. CASE Swap(n)
  BY <1>24 DEF Swap
<1>25. CASE Cancel(n)
  BY <1>2, <1>25 DEF Cancel, Goto
<1> QED BY <1>4, <1>5, <1>6, <1>7, <1>8, <1>9, <1>10, <1>11, <1>12, <1>13, <1>14,
           <1>15, <1>16, <1>17, <1>18, <1>19, <1>20, <1>21, <1>22, <1>23, <1>24, <1>25
      DEF Move, Step, Create, Delete, WriteDocs, Flush, Visit

\* Types are kept.
LEMMA NsTypeStep ==
  ASSUME NsTypeOK, TaskShape, MapQueue, StateQueues, LogShape, ReplayShape, LateShape,
         NEW n \in Tasks, Move(n)
  PROVE  NsTypeOK'
<1>1. OthersKept(n)
  BY OthersAreKept
<1>2. /\ states' \in Seq(NamespaceState) /\ Len(states') >= Len(states)
      /\ buffers' \in Seq(Seq(Op)) /\ Len(buffers') >= Len(buffers)
      /\ namespaces' \in 0 .. Len(states') /\ batchers' \in 0 .. Len(buffers')
  BY ServerTypes
<1>3. mapLock' \in Queue(Tasks) /\ MapQueue'
  BY MapQueueStep
<1>4. /\ stateLocks' \in Seq(Queue(Tasks)) /\ Len(stateLocks') = Len(states')
      /\ StateQueues'
  BY StateQueuesStep
<1>5. mapLock' \in Queue(Live') /\ stateLocks' \in Seq(Queue(Live'))
  BY <1>3, <1>4, LocksOfTheLive
<1>6. /\ IsFiniteSet(DOMAIN wal') /\ DOMAIN wal' \subseteq Nat \ {0}
      /\ \A s \in DOMAIN wal' : wal'[s] \in Seq(Op)
  <2>1. CASE wal' = wal
    BY <2>1 DEF NsTypeOK
  <2>2. CASE At(n, "write", "flush") /\ NextSeq(n) \notin DOMAIN wal /\ Store(n)
    BY <2>2, StoreProps DEF At
  <2> QED BY <2>1, <2>2, LogSteps
<1>7. \A m \in Live' : mine'[m].batcher <= Len(buffers') /\ mine'[m].state <= Len(states')
  <2>1. Len(states) \in Nat /\ Len(buffers) \in Nat
    BY TypeFacts
  <2>2. Len(states') \in Nat /\ Len(buffers') \in Nat
    BY <1>2
  <2>3. \A m \in Live' : mine'[m] \in Finding
    BY <1>1 DEF OthersKept, Live
  <2>4. \A m \in Live' : mine'[m].batcher \in Nat /\ mine'[m].state \in Nat
    BY <2>3 DEF Finding
  <2> QED BY <1>2, <2>1, <2>2, <2>4, FoundRemains
<1>8. /\ up' \in BOOLEAN /\ meta' \in BOOLEAN
      /\ overlapped' \in BOOLEAN /\ parted' \in BOOLEAN
  BY Booleans
<1>9. crashes' \in 0 .. MaxCrashes
  <2>1. crashes' = crashes
    BY CrashesKept
  <2> QED BY <2>1 DEF NsTypeOK
<1>10. late' \subseteq Tasks
  BY LateStep
<1> QED BY <1>1, <1>2, <1>4, <1>5, <1>6, <1>7, <1>8, <1>9, <1>10
        DEF NsTypeOK, OthersKept, Generation
-----------------------------------------------------------------------------
(***************************************************************************)
(* The states and the log.                                                 *)
(***************************************************************************)

\* What a step of n may do to the states and the log: nothing, make a new
\* state, put an entry, or apply it.
ReplayMove(n) ==
    \/ wal' = wal /\ states' = states /\ pc'[n] \notin LoggedPoints
    \/ wal' = wal /\ states' = Append(states, FreshState) /\ pc'[n] \notin LoggedPoints
    \/ pc[n] = "flush" /\ NextSeq(n) \notin DOMAIN wal /\ Store(n)
    \/ pc[n] = "apply" /\ Apply(n)

LEMMA ReplayMoved ==
  ASSUME NsTypeOK, TaskShape, StateQueues, LogShape, ReplayShape, NEW n \in Tasks,
         OthersKept(n), ReplayMove(n)
  PROVE  LogShape' /\ ReplayShape'
<1>1. /\ states \in Seq(NamespaceState) /\ Len(states) \in Nat
      /\ DOMAIN states = 1 .. Len(states)
      /\ pc \in [Tasks -> Points]
  BY TypeFacts DEF NsTypeOK
<1>2. \A g \in DOMAIN states : OfTheLog(states[g]) /\ states[g] \in NamespaceState
  BY <1>1, TypeFacts DEF ReplayShape
<1>3. \A m \in Tasks :
        /\ pc[m] = "apply" => /\ mine[m].state \in DOMAIN states
                              /\ NextSeq(m) \in DOMAIN wal /\ wal[NextSeq(m)] = mine[m].ops
        /\ pc[m] \in LoggedPoints => \E s \in DOMAIN wal : wal[s] = mine[m].ops
  BY <1>1, StateFound DEF ReplayShape, StatePoints
<1>4. \A m \in Tasks \ {n} : pc'[m] = pc[m] /\ mine'[m] = mine[m]
  BY DEF OthersKept
<1>5. CASE wal' = wal /\ states' = states /\ pc'[n] \notin LoggedPoints
  <2>1. \A m \in Tasks : pc'[m] \in LoggedPoints => m # n
    BY <1>5
  <2>2. ASSUME NEW m \in Tasks
        PROVE  /\ pc'[m] = "apply" => /\ NextSeq(m)' \in DOMAIN wal'
                                      /\ wal'[NextSeq(m)'] = mine'[m].ops
               /\ pc'[m] \in LoggedPoints => \E s \in DOMAIN wal' : wal'[s] = mine'[m].ops
    BY <1>3, <1>4, <1>5, <2>1 DEF NextSeq, LoggedPoints
  <2>3. \A g \in DOMAIN states' : OfTheLog(states[g])'
    BY <1>2, <1>5 DEF OfTheLog
  <2> QED BY <1>5, <2>2, <2>3 DEF ReplayShape, LogShape
<1>6. CASE wal' = wal /\ states' = Append(states, FreshState) /\ pc'[n] \notin LoggedPoints
  <2>1. \A m \in Tasks : pc'[m] \in LoggedPoints => m # n
    BY <1>6
  <2>2. /\ DOMAIN states' = 1 .. Len(states) + 1 /\ states'[Len(states) + 1] = FreshState
        /\ \A g \in DOMAIN states : g \in DOMAIN states' /\ states'[g] = states[g]
        /\ \A g \in DOMAIN states' : g \in DOMAIN states \/ states'[g] = FreshState
    <3>1. FreshState \in NamespaceState
      BY FreshReplay
    <3> QED BY <1>1, <1>6, <3>1
  <2>3. ASSUME NEW m \in Tasks
        PROVE  /\ pc'[m] = "apply" => /\ NextSeq(m)' \in DOMAIN wal'
                                      /\ wal'[NextSeq(m)'] = mine'[m].ops
               /\ pc'[m] \in LoggedPoints => \E s \in DOMAIN wal' : wal'[s] = mine'[m].ops
    BY <1>3, <1>4, <1>6, <2>1, <2>2 DEF NextSeq, LoggedPoints
  <2>4. ASSUME NEW g \in DOMAIN states'
        PROVE  OfTheLog(states[g])'
    <3>1. CASE g \in DOMAIN states
      BY <1>2, <1>6, <2>2, <3>1 DEF OfTheLog
    <3>2. CASE states'[g] = FreshState
      BY <1>6, <3>2, FreshReplay DEF OfTheLog
    <3> QED BY <2>2, <3>1, <3>2
  <2> QED BY <1>6, <2>3, <2>4 DEF ReplayShape, LogShape
<1>7. CASE pc[n] = "flush" /\ NextSeq(n) \notin DOMAIN wal /\ Store(n)
  <2>1. /\ states' = states /\ mine' = mine /\ pc' = [pc EXCEPT ![n] = "apply"]
    BY <1>7 DEF Store, serverVars, Goto
  <2>2. /\ DOMAIN wal' = DOMAIN wal \cup {NextSeq(n)} /\ wal'[NextSeq(n)] = mine[n].ops
        /\ \A s \in DOMAIN wal : wal'[s] = wal[s]
        /\ LogShape'
    BY <1>7, StoreProps
  <2>3. \A m \in Tasks : NextSeq(m)' = NextSeq(m)
    BY <2>1 DEF NextSeq
  <2>4. ASSUME NEW m \in Tasks
        PROVE  /\ pc'[m] = "apply" => /\ NextSeq(m)' \in DOMAIN wal'
                                      /\ wal'[NextSeq(m)'] = mine'[m].ops
               /\ pc'[m] \in LoggedPoints => \E s \in DOMAIN wal' : wal'[s] = mine'[m].ops
    <3>1. CASE m = n
      BY <2>1, <2>2, <2>3, <3>1
    <3>2. CASE m # n
      BY <1>3, <1>4, <2>1, <2>2, <2>3, <3>2
    <3> QED BY <3>1, <3>2
  <2>5. ASSUME NEW g \in DOMAIN states'
        PROVE  OfTheLog(states[g])'
    <3> DEFINE x == states[g]
    <3>1. OfTheLog(x) /\ x.walSeq \in Nat /\ states'[g] = x
      BY <1>2, <2>1 DEF NamespaceState
    <3>2. 1 .. x.walSeq \subseteq DOMAIN wal /\ ReplayOf(wal, x.walSeq, x.docs, x.seqs)
      BY <3>1 DEF OfTheLog
    <3>3. \A s \in 1 .. x.walSeq : wal'[s] = wal[s]
      BY <2>2, <3>2
    <3>4. 1 .. x.walSeq \subseteq DOMAIN wal' /\ ReplayOf(wal', x.walSeq, x.docs, x.seqs)
      BY <2>2, <3>1, <3>2, <3>3, ReplayFrame
    <3> QED BY <3>1, <3>4 DEF OfTheLog
  <2> QED BY <2>2, <2>4, <2>5 DEF ReplayShape
<1>8. CASE pc[n] = "apply" /\ Apply(n)
  <2> DEFINE h == mine[n].state
  <2>1. /\ wal' = wal /\ mine' = mine /\ pc' = [pc EXCEPT ![n] = "meta"]
    BY <1>8 DEF Apply, storeVars, Goto
  <2>2. /\ h \in 1 .. Len(states) /\ Len(states') = Len(states)
        /\ states' \in Seq(NamespaceState)
        /\ \A g \in 1 .. Len(states) :
              states'[g] = IF g = h THEN Applied(states[g], NextSeq(n), mine[n].ops)
                           ELSE states[g]
    BY <1>8, ApplyProps
  <2>3. DOMAIN states' = DOMAIN states
    BY <1>1, <2>2
  <2>4. /\ NextSeq(n) \in DOMAIN wal /\ wal[NextSeq(n)] = mine[n].ops
        /\ NextSeq(n) = states[h].walSeq + 1
    BY <1>3, <1>8 DEF NextSeq
\* No other batch waits to be applied to the same state.
  <2>5. \A m \in Tasks \ {n} : pc[m] = "apply" => mine[m].state # h
    <3>1. \A m \in Tasks : pc[m] = "apply" => stateLocks[mine[m].state][1].by = m
      BY DEF StateQueues, StatePoints, LoggedPoints
    <3> QED BY <1>8, <3>1
  <2>6. ASSUME NEW m \in Tasks
        PROVE  /\ pc'[m] = "apply" => /\ NextSeq(m)' \in DOMAIN wal'
                                      /\ wal'[NextSeq(m)'] = mine'[m].ops
               /\ pc'[m] \in LoggedPoints => \E s \in DOMAIN wal' : wal'[s] = mine'[m].ops
    <3>1. CASE m = n
      BY <1>1, <1>3, <1>8, <2>1, <3>1 DEF LoggedPoints
    <3>2. ASSUME m # n, pc'[m] = "apply"
          PROVE  NextSeq(m)' = NextSeq(m)
      <4>1. mine'[m].state = mine[m].state /\ mine[m].state \in 1 .. Len(states)
        BY <1>1, <1>3, <1>4, <3>2
      <4>2. mine[m].state # h
        BY <1>4, <2>5, <3>2
      <4>3. states'[mine'[m].state] = states[mine[m].state]
        BY <2>2, <4>1, <4>2
      <4> QED BY <4>3 DEF NextSeq
    <3>3. CASE m # n
      BY <1>3, <1>4, <2>1, <3>2, <3>3
    <3> QED BY <3>1, <3>3
  <2>7. ASSUME NEW g \in DOMAIN states'
        PROVE  OfTheLog(states[g])'
    <3>1. CASE g = h
      <4> DEFINE x == states[h]
                 y == Applied(x, x.walSeq + 1, mine[n].ops)
      <4>1. x \in NamespaceState /\ OfTheLog(x) /\ mine[n].ops \in Seq(Op)
        BY <1>1, <1>2, <2>2, TypeFacts
      <4>2. OfTheLog(y)
        <5> HIDE DEF x
        <5>1. x.walSeq + 1 \in DOMAIN wal /\ wal[x.walSeq + 1] = mine[n].ops
          BY <2>4 DEF x
        <5> QED BY <4>1, <5>1, AppliedReplay
      <4>3. states'[g] = y
        BY <2>2, <2>4, <3>1
      <4> HIDE DEF y
      <4> QED BY <2>1, <4>2, <4>3 DEF OfTheLog
    <3>2. CASE g # h
      <4>1. states'[g] = states[g] /\ OfTheLog(states[g])
        BY <1>1, <1>2, <2>2, <2>3, <3>2
      <4> QED BY <2>1, <4>1 DEF OfTheLog
    <3> QED BY <3>1, <3>2
  <2> HIDE DEF h
  <2> QED BY <2>1, <2>6, <2>7 DEF ReplayShape, LogShape
<1> QED BY <1>5, <1>6, <1>7, <1>8 DEF ReplayMove

\* States stay replays of prefixes of the log, and the log grows without a hole.
LEMMA ReplayStepOfTask ==
  ASSUME NsTypeOK, TaskShape, StateQueues, LogShape, ReplayShape, NEW n \in Tasks,
         Move(n)
  PROVE  LogShape' /\ ReplayShape'
<1> USE DEF At, Goto, Reply, storeVars, serverVars, LoggedPoints
<1>1. OthersKept(n)
  BY OthersAreKept
<1>2. pc \in [Tasks -> Points]
  BY DEF NsTypeOK
<1> SUFFICES ReplayMove(n)
  BY <1>1, ReplayMoved
<1> USE DEF ReplayMove
<1>3. CASE \E kind \in Jobs : Arrive(n, kind)
  BY <1>2, <1>3 DEF Arrive, First, Jobs, Lifecycle
<1>4. CASE Check(n)
  BY <1>2, <1>4 DEF Check
<1>5. CASE PutNewMeta(n)
  BY <1>2, <1>5 DEF PutNewMeta, Lost
<1>6. CASE InsertState(n)
  BY <1>2, <1>6 DEF InsertState
<1>7. CASE InsertBatcher(n)
  BY <1>2, <1>7 DEF InsertBatcher
<1>8. CASE Erase(n)
  BY <1>2, <1>8 DEF Erase, EraseListed, EraseMeta, EraseFails, Lost
<1>9. CASE RemoveState(n)
  BY <1>2, <1>9 DEF RemoveState
<1>10. CASE RemoveBatcher(n)
  BY <1>2, <1>10 DEF RemoveBatcher
<1>11. CASE WriteNothing(n)
  BY <1>2, <1>11 DEF WriteNothing
<1>12. CASE LookupBatcher(n)
  BY <1>2, <1>12 DEF LookupBatcher
<1>13. CASE \E w \in Writes : Submit(n, w)
  BY <1>2, <1>13 DEF Submit
<1>14. CASE TakeBatch(n)
  BY <1>2, <1>14 DEF TakeBatch
<1>15. CASE FindState(n)
  BY <1>2, <1>15 DEF FindState
<1>16. CASE PutWal(n)
  <2>1. CASE NextSeq(n) \notin DOMAIN wal /\ Store(n)
    BY <1>16, <2>1 DEF PutWal
  <2>2. CASE Reply(n, StorageError) /\ UNCHANGED <<serverVars, storeVars>>
    BY <1>2, <2>2
  <2> QED BY <1>16, <2>1, <2>2 DEF PutWal
<1>17. CASE ApplyEntry(n)
  <2>1. pc[n] = "apply" /\ Apply(n)
    BY <1>17 DEF ApplyEntry, Apply
  <2> QED BY <2>1
<1>18. CASE PutMeta(n)
  BY <1>2, <1>18 DEF PutMeta, Lost
<1>19. CASE Enter(n)
  BY <1>2, <1>19 DEF Enter
<1>20. CASE Read(n)
  BY <1>2, <1>20 DEF Read
<1>21. CASE ReadEtag(n)
  BY <1>2, <1>21 DEF ReadEtag
<1>22. CASE EnterAgain(n)
  BY <1>2, <1>22 DEF EnterAgain
<1>23. CASE Swap(n)
  BY <1>2, <1>23 DEF Swap
<1>24. CASE Cancel(n)
  BY <1>2, <1>24 DEF Cancel, Live
<1> QED BY <1>3, <1>4, <1>5, <1>6, <1>7, <1>8, <1>9, <1>10, <1>11, <1>12, <1>13, <1>14,
           <1>15, <1>16, <1>17, <1>18, <1>19, <1>20, <1>21, <1>22, <1>23, <1>24
      DEF Move, Step, Create, Delete, WriteDocs, Flush, Visit
-----------------------------------------------------------------------------
(***************************************************************************)
(* Where the operation of an acknowledged write is.                        *)
(***************************************************************************)

\* No entry is changed or removed.
LEMMA LogGrows ==
  ASSUME NsTypeOK, TaskShape, LogShape, ReplayShape, NEW n \in Tasks,
         Move(n)
  PROVE  \A s \in DOMAIN wal : s \in DOMAIN wal' /\ wal'[s] = wal[s]
<1>1. CASE wal' = wal
  BY <1>1
<1>2. CASE At(n, "write", "flush") /\ NextSeq(n) \notin DOMAIN wal /\ Store(n)
  BY <1>2, StoreProps DEF At
<1> QED BY <1>1, <1>2, LogSteps

\* A batch a task still has is dropped only when it is in the log or when its
\* caller is told that it is not.
BatchKept(n) ==
    \/ mine[n].ops = <<>>
    \/ pc[n] \in LoggedPoints
    \/ mine'[n].ops = mine[n].ops /\ answer'[n] # Ok

LEMMA BatchIsKept ==
  ASSUME NsTypeOK, TaskShape, NEW n \in Tasks,
         Move(n)
  PROVE  BatchKept(n)
<1> USE DEF BatchKept, At, Goto, Reply, Live, NothingFound, BatchPoints, LoggedPoints,
            Ok, NotFound, StorageError, Unanswered
<1>1. answer \in [Tasks -> Answers] /\ mine \in [Tasks -> Finding]
  BY DEF NsTypeOK
<1>2. /\ n \in Live => answer[n] = Unanswered
      /\ pc[n] = "idle" => mine[n] = NothingFound
      /\ pc[n] \notin BatchPoints \cup {"answered"} => mine[n].ops = <<>>
  BY DEF TaskShape, TaskOK
<1>3. CASE \E kind \in Jobs : Arrive(n, kind)
  BY <1>2, <1>3 DEF Arrive
<1>4. CASE Check(n)
  BY <1>2, <1>4 DEF Check
<1>5. CASE PutNewMeta(n)
  BY <1>2, <1>5 DEF PutNewMeta, Lost
<1>6. CASE InsertState(n)
  BY <1>2, <1>6 DEF InsertState
<1>7. CASE InsertBatcher(n)
  BY <1>2, <1>7 DEF InsertBatcher
<1>8. CASE Erase(n)
  BY <1>2, <1>8 DEF Erase, EraseListed, EraseMeta, EraseFails, Lost
<1>9. CASE RemoveState(n)
  BY <1>2, <1>9 DEF RemoveState
<1>10. CASE RemoveBatcher(n)
  BY <1>2, <1>10 DEF RemoveBatcher
<1>11. CASE WriteNothing(n)
  BY <1>2, <1>11 DEF WriteNothing
<1>12. CASE LookupBatcher(n)
  BY <1>2, <1>12 DEF LookupBatcher
<1>13. CASE \E w \in Writes : Submit(n, w)
  BY <1>2, <1>13 DEF Submit
<1>14. CASE TakeBatch(n)
  BY <1>2, <1>14 DEF TakeBatch
<1>15. CASE FindState(n)
  <2>1. mine' = mine \/ mine' = [mine EXCEPT ![n].state = namespaces]
    BY <1>15 DEF FindState
  <2>2. mine'[n].ops = mine[n].ops
    BY <2>1, StateSet
  <2>3. answer' = answer \/ answer' = [answer EXCEPT ![n] = NotFound]
    BY <1>15 DEF FindState
  <2> QED BY <1>1, <1>2, <2>2, <2>3, <1>15 DEF FindState
<1>16. CASE PutWal(n)
  <2>1. mine'[n].ops = mine[n].ops
    <3>1. mine' = mine \/ Forget(n)
      BY <1>16 DEF PutWal, Store
    <3> QED BY <3>1, ForgetProps
  <2>2. answer' = answer \/ answer' = [answer EXCEPT ![n] = StorageError]
    BY <1>16 DEF PutWal, Store
  <2> QED BY <1>1, <1>2, <2>1, <2>2, <1>16 DEF PutWal
<1>17. CASE ApplyEntry(n)
  BY <1>2, <1>17 DEF ApplyEntry, Apply
<1>18. CASE PutMeta(n)
  BY <1>2, <1>18 DEF PutMeta, Lost
<1>19. CASE Enter(n)
  BY <1>2, <1>19 DEF Enter
<1>20. CASE Read(n)
  BY <1>2, <1>20 DEF Read
<1>21. CASE ReadEtag(n)
  BY <1>2, <1>21 DEF ReadEtag
<1>22. CASE EnterAgain(n)
  BY <1>2, <1>22 DEF EnterAgain
<1>23. CASE Swap(n)
  BY <1>2, <1>23 DEF Swap
<1>24. CASE Cancel(n)
  BY <1>1, <1>2, ForgetProps, <1>24 DEF Cancel
<1> QED BY <1>3, <1>4, <1>5, <1>6, <1>7, <1>8, <1>9, <1>10, <1>11, <1>12, <1>13, <1>14,
           <1>15, <1>16, <1>17, <1>18, <1>19, <1>20, <1>21, <1>22, <1>23, <1>24
      DEF Move, Step, Create, Delete, WriteDocs, Flush, Visit

\* What is in the log, or in a batch whose task has not been told Ok, remains so.
LEMMA SomewhereKept ==
  ASSUME NsTypeOK, TaskShape, LogShape, ReplayShape, NEW n \in Tasks,
         Move(n),
         NEW k \in Tasks, Somewhere(k)
  PROVE  Somewhere(k)'
<1>1. OthersKept(n)
  BY OthersAreKept
<1>2. CASE Logged(k)
  <2>1. Logged(k)'
    BY <1>2, LogGrows DEF Logged
  <2> QED BY <2>1 DEF Somewhere
<1>3. CASE \E m \in Tasks : InBatch(k, m) /\ answer[m] # Ok
  <2>1. PICK m \in Tasks : InBatch(k, m) /\ answer[m] # Ok
    BY <1>3
  <2>2. CASE m # n
    <3>1. mine'[m] = mine[m] /\ answer'[m] = answer[m]
      BY <1>1, <2>2 DEF OthersKept
    <3>2. InBatch(k, m)' /\ answer'[m] # Ok
      BY <2>1, <3>1 DEF InBatch
    <3> QED BY <3>2 DEF Somewhere
  <2>3. CASE m = n
    <3>1. mine[n].ops # <<>>
      BY <2>1, <2>3 DEF InBatch
    <3>2. CASE pc[n] \in LoggedPoints
      <4>1. PICK s \in DOMAIN wal : wal[s] = mine[n].ops
        BY <3>2 DEF ReplayShape
      <4>2. Logged(k)
        BY <2>1, <2>3, <4>1 DEF InBatch, Logged
      <4> QED BY <1>2, <4>2
    <3>3. CASE mine'[n].ops = mine[n].ops /\ answer'[n] # Ok
      <4>1. InBatch(k, n)' /\ answer'[n] # Ok
        BY <2>1, <2>3, <3>3 DEF InBatch
      <4> QED BY <4>1 DEF Somewhere
    <3> QED BY <3>1, <3>2, <3>3, BatchIsKept DEF BatchKept
  <2> QED BY <2>2, <2>3
<1> QED BY <1>2, <1>3 DEF Somewhere

\* BatchWriter::submit adds the operation to what waits in the batcher.
LEMMA SubmitProps ==
  ASSUME NsTypeOK, TaskShape, NEW n \in Tasks, NEW w \in Writes, Submit(n, w)
  PROVE  /\ mine' = mine
         /\ \A b \in 1 .. Len(buffers) : \A i \in DOMAIN buffers[b] :
               i \in DOMAIN buffers'[b] /\ buffers'[b][i] = buffers[b][i]
         /\ \E i \in DOMAIN buffers'[mine[n].batcher] :
               buffers'[mine[n].batcher][i].req = n
<1> DEFINE b == mine[n].batcher
           op == [req |-> n, ids |-> w.ids, doc |-> w.doc]
           new == Append(buffers[b], op)
<1>1. b \in 1 .. Len(buffers) /\ DOMAIN buffers = 1 .. Len(buffers) /\ buffers[b] \in Seq(Op)
  BY BatcherFound, TypeFacts DEF Submit, At
<1>2. op \in Op /\ op.req = n
  BY WritesAssumption, ReqsAssumption DEF Write, Op, Tasks
<1>3. buffers' = [buffers EXCEPT ![b] = new] /\ mine' = mine
  BY DEF Submit
<1> HIDE DEF op
<1>4. /\ DOMAIN buffers[b] = 1 .. Len(buffers[b]) /\ Len(buffers[b]) \in Nat
      /\ DOMAIN new = 1 .. Len(buffers[b]) + 1 /\ new[Len(buffers[b]) + 1] = op
      /\ \A i \in 1 .. Len(buffers[b]) : new[i] = buffers[b][i]
  BY <1>1, <1>2
<1> HIDE DEF b, new
<1>5. buffers'[b] = new /\ \A c \in 1 .. Len(buffers) : c # b => buffers'[c] = buffers[c]
  BY <1>1, <1>3
<1>6. ASSUME NEW c \in 1 .. Len(buffers), NEW i \in DOMAIN buffers[c]
      PROVE  i \in DOMAIN buffers'[c] /\ buffers'[c][i] = buffers[c][i]
  BY <1>4, <1>5
<1>7. Len(buffers[b]) + 1 \in DOMAIN buffers'[b] /\ buffers'[b][Len(buffers[b]) + 1].req = n
  BY <1>2, <1>4, <1>5
<1> QED BY <1>3, <1>6, <1>7 DEF b

\* The end of a window takes all that waits, and asks for the map if that is
\* something.
LEMMA TakeProps ==
  ASSUME NsTypeOK, TaskShape, NEW n \in Tasks, TakeBatch(n)
  PROVE  LET b == mine[n].batcher IN
         /\ b \in 1 .. Len(buffers)
         /\ mine'[n].ops = buffers[b] /\ mine'[n].batcher = b
         /\ \A c \in 1 .. Len(buffers) : c # b => buffers'[c] = buffers[c]
         /\ buffers[b] # <<>> => answer'[n] = Unanswered
         /\ buffers[b] = <<>> => pc'[n] = "answered"
<1> DEFINE b == mine[n].batcher
<1>1. /\ b \in 1 .. Len(buffers) /\ DOMAIN buffers = 1 .. Len(buffers)
      /\ buffers[b] \in Seq(Op) /\ pc \in [Tasks -> Points]
  BY BatcherFound, TypeFacts DEF TakeBatch, At, NsTypeOK
<1>2. mine'[n].ops = buffers[b] /\ mine'[n].batcher = b
  <2>1. mine' = [mine EXCEPT ![n].ops = buffers[b]]
    BY DEF TakeBatch
  <2> QED BY <1>1, <2>1, OpsSet
<1>3. \A c \in 1 .. Len(buffers) : c # b => buffers'[c] = buffers[c]
  BY <1>1 DEF TakeBatch
<1>4. answer[n] = Unanswered
  BY DEF TakeBatch, At, TaskShape, TaskOK, Live
<1>5. buffers[b] # <<>> => answer'[n] = Unanswered
  BY <1>4 DEF TakeBatch
<1>6. buffers[b] = <<>> => pc'[n] = "answered"
  BY <1>1 DEF TakeBatch, Reply
<1> QED BY <1>1, <1>2, <1>3, <1>5, <1>6

\* An operation that waits in a batcher goes on waiting or is taken by a flush.
LEMMA WaitingKept ==
  ASSUME NsTypeOK, TaskShape, NEW n \in Tasks,
         Move(n),
         NEW k \in Tasks \ {n}, pc[k] = "window", Waiting(k)
  PROVE  Waiting(k)' \/ Somewhere(k)'
<1> DEFINE b == mine[k].batcher
<1> USE DEF serverVars
<1>1. b \in 1 .. Len(buffers) /\ mine'[k] = mine[k]
  BY BatcherFound, OthersAreKept DEF OthersKept
<1>2. PICK i \in DOMAIN buffers[b] : buffers[b][i].req = k
  BY DEF Waiting
<1> HIDE DEF b
<1> SUFFICES ASSUME ~ Somewhere(k)'
             PROVE  i \in DOMAIN buffers'[b] /\ buffers'[b][i] = buffers[b][i]
  <2>1. mine'[k].batcher = b
    BY <1>1 DEF b
  <2> QED BY <1>2, <2>1 DEF Waiting
<1>3. CASE \E kind \in Jobs : Arrive(n, kind)
  BY <1>2, <1>3 DEF Arrive
<1>4. CASE Check(n)
  BY <1>2, <1>4 DEF Check
<1>5. CASE PutNewMeta(n)
  BY <1>2, <1>5 DEF PutNewMeta, Lost
<1>6. CASE InsertState(n)
  BY <1>2, <1>6 DEF InsertState
<1>7. CASE InsertBatcher(n)
  <2> DEFINE T == Seq(Op)
  <2>1. <<>> \in T
    OBVIOUS
  <2> HIDE DEF T
  <2>2. buffers \in Seq(T)
    BY DEF NsTypeOK, T
  <2>3. buffers' = Append(buffers, <<>>)
    BY <1>7 DEF InsertBatcher
  <2>4. buffers'[b] = buffers[b]
    BY <1>1, <2>1, <2>2, <2>3
  <2> QED BY <1>2, <2>4
<1>8. CASE Erase(n)
  BY <1>2, <1>8 DEF Erase, EraseListed, EraseMeta, EraseFails, Lost
<1>9. CASE RemoveState(n)
  BY <1>2, <1>9 DEF RemoveState
<1>10. CASE RemoveBatcher(n)
  BY <1>2, <1>10 DEF RemoveBatcher
<1>11. CASE WriteNothing(n)
  BY <1>2, <1>11 DEF WriteNothing
<1>12. CASE LookupBatcher(n)
  BY <1>2, <1>12 DEF LookupBatcher
<1>13. CASE \E w \in Writes : Submit(n, w)
  <2>1. PICK w \in Writes : Submit(n, w)
    BY <1>13
  <2> QED BY <1>1, <1>2, <2>1, SubmitProps
<1>14. CASE TakeBatch(n)
  <2>1. CASE mine[n].batcher = b
    <3>1. mine'[n].ops = buffers[b] /\ buffers[b] # <<>>
      BY <1>2, <2>1, <1>14, TakeProps
    <3>2. answer'[n] # Ok
      BY <2>1, <3>1, <1>14, TakeProps DEF Unanswered, Ok
    <3>3. InBatch(k, n)'
      BY <1>2, <3>1 DEF InBatch
    <3> QED BY <3>2, <3>3 DEF Somewhere
  <2>2. CASE mine[n].batcher # b
    BY <1>1, <1>2, <2>2, <1>14, TakeProps
  <2> QED BY <2>1, <2>2
<1>15. CASE FindState(n)
  BY <1>2, <1>15 DEF FindState
<1>16. CASE PutWal(n)
  BY <1>2, <1>16 DEF PutWal, Store
<1>17. CASE ApplyEntry(n)
  BY <1>2, <1>17 DEF ApplyEntry, Apply
<1>18. CASE PutMeta(n)
  BY <1>2, <1>18 DEF PutMeta, Lost
<1>19. CASE Enter(n)
  BY <1>2, <1>19 DEF Enter
<1>20. CASE Read(n)
  BY <1>2, <1>20 DEF Read
<1>21. CASE ReadEtag(n)
  BY <1>2, <1>21 DEF ReadEtag
<1>22. CASE EnterAgain(n)
  BY <1>2, <1>22 DEF EnterAgain
<1>23. CASE Swap(n)
  BY <1>2, <1>23 DEF Swap
<1>24. CASE Cancel(n)
  BY <1>2, <1>24 DEF Cancel
<1> QED BY <1>3, <1>4, <1>5, <1>6, <1>7, <1>8, <1>9, <1>10, <1>11, <1>12, <1>13, <1>14,
           <1>15, <1>16, <1>17, <1>18, <1>19, <1>20, <1>21, <1>22, <1>23, <1>24
      DEF Move, Step, Create, Delete, WriteDocs, Flush, Visit

\* What a step of n makes of its own operation.
AckMove(n) ==
    /\ pc'[n] = "window" => Waiting(n)'
    /\ pc'[n] \in BatchPoints => pc[n] \in BatchPoints \/ TakeBatch(n)
    /\ job'[n] = "write" /\ answer'[n] = Ok /\ mine'[n].batcher # 0 =>
          pc[n] \in BatchPoints \/ TakeBatch(n)

LEMMA AckMoves ==
  ASSUME NsTypeOK, TaskShape, NEW n \in Tasks,
         Move(n)
  PROVE  AckMove(n)
<1> USE DEF AckMove, At, Goto, Reply, Live, NothingFound, BatchPoints, LoggedPoints,
            WritePoints, Ok, Created, NoContent, NotFound, AlreadyExists, StorageError,
            Unanswered
<1>1. /\ pc \in [Tasks -> Points] /\ job \in [Tasks -> Jobs]
      /\ answer \in [Tasks -> Answers] /\ mine \in [Tasks -> Finding]
  BY DEF NsTypeOK
<1>2. /\ n \in Live => answer[n] = Unanswered /\ (job[n] = "write" => pc[n] \in WritePoints)
      /\ pc[n] = "idle" => answer[n] = Unanswered
      /\ pc[n] = "lookup" => mine[n] = NothingFound
  BY DEF TaskShape, TaskOK
<1>3. CASE \E kind \in Jobs : Arrive(n, kind)
  BY <1>1, <1>2, <1>3 DEF Arrive, First, Jobs, Lifecycle
<1>4. CASE Check(n)
  BY <1>1, <1>2, <1>4 DEF Check
<1>5. CASE PutNewMeta(n)
  BY <1>1, <1>2, <1>5 DEF PutNewMeta, Lost
<1>6. CASE InsertState(n)
  BY <1>1, <1>2, <1>6 DEF InsertState
<1>7. CASE InsertBatcher(n)
  BY <1>1, <1>2, <1>7 DEF InsertBatcher
<1>8. CASE Erase(n)
  BY <1>1, <1>2, <1>8 DEF Erase, EraseListed, EraseMeta, EraseFails, Lost
<1>9. CASE RemoveState(n)
  BY <1>1, <1>2, <1>9 DEF RemoveState
<1>10. CASE RemoveBatcher(n)
  BY <1>1, <1>2, <1>10 DEF RemoveBatcher
<1>11. CASE WriteNothing(n)
  BY <1>1, <1>2, <1>11 DEF WriteNothing
<1>12. CASE LookupBatcher(n)
  BY <1>1, <1>2, <1>12 DEF LookupBatcher
<1>13. CASE \E w \in Writes : Submit(n, w)
  <2>1. PICK w \in Writes : Submit(n, w)
    BY <1>13
  <2>2. Waiting(n)'
    BY <2>1, SubmitProps DEF Waiting
  <2> QED BY <1>1, <1>2, <2>1, <2>2 DEF Submit
<1>14. CASE TakeBatch(n)
  BY <1>1, <1>2, <1>14 DEF TakeBatch
<1>15. CASE FindState(n)
  BY <1>1, <1>2, <1>15 DEF FindState
<1>16. CASE PutWal(n)
  BY <1>1, <1>2, <1>16 DEF PutWal, Store
<1>17. CASE ApplyEntry(n)
  BY <1>1, <1>2, <1>17 DEF ApplyEntry, Apply
<1>18. CASE PutMeta(n)
  BY <1>1, <1>2, <1>18 DEF PutMeta, Lost
<1>19. CASE Enter(n)
  BY <1>1, <1>2, <1>19 DEF Enter
<1>20. CASE Read(n)
  BY <1>1, <1>2, <1>20 DEF Read
<1>21. CASE ReadEtag(n)
  BY <1>1, <1>2, <1>21 DEF ReadEtag
<1>22. CASE EnterAgain(n)
  BY <1>1, <1>2, <1>22 DEF EnterAgain
<1>23. CASE Swap(n)
  BY <1>1, <1>2, <1>23 DEF Swap
<1>24. CASE Cancel(n)
  BY <1>1, <1>2, <1>24 DEF Cancel
<1> QED BY <1>3, <1>4, <1>5, <1>6, <1>7, <1>8, <1>9, <1>10, <1>11, <1>12, <1>13, <1>14,
           <1>15, <1>16, <1>17, <1>18, <1>19, <1>20, <1>21, <1>22, <1>23, <1>24
      DEF Move, Step, Create, Delete, WriteDocs, Flush, Visit

\* An acknowledged write stays accounted for.
LEMMA AckShapeStep ==
  ASSUME NsTypeOK, TaskShape, LogShape, ReplayShape, AckShape, NEW n \in Tasks,
         Move(n)
  PROVE  AckShape'
<1>1. OthersKept(n) /\ AckMove(n)
  BY OthersAreKept, AckMoves
<1>2. \A k \in Tasks : Somewhere(k) => Somewhere(k)'
  BY SomewhereKept
\* What n has taken itself is in its batch.
<1>3. ASSUME TakeBatch(n)
      PROVE  Somewhere(n)'
  <2>1. Waiting(n) \/ Somewhere(n)
    BY <1>3 DEF AckShape, TakeBatch, At
  <2>2. ASSUME Waiting(n)
        PROVE  Somewhere(n)'
    <3>1. PICK i \in DOMAIN buffers[mine[n].batcher] : buffers[mine[n].batcher][i].req = n
      BY <2>2 DEF Waiting
    <3>2. mine'[n].ops = buffers[mine[n].batcher] /\ answer'[n] # Ok
      BY <1>3, <3>1, TakeProps DEF Unanswered, Ok
    <3>3. InBatch(n, n)'
      BY <3>1, <3>2 DEF InBatch
    <3> QED BY <3>2, <3>3 DEF Somewhere
  <2> QED BY <1>2, <2>1, <2>2
<1>4. ASSUME NEW k \in Tasks
      PROVE  /\ pc'[k] = "window" => Waiting(k)' \/ Somewhere(k)'
             /\ pc'[k] \in BatchPoints => Somewhere(k)'
             /\ job'[k] = "write" /\ answer'[k] = Ok /\ mine'[k].batcher # 0 => Somewhere(k)'
  <2>1. /\ pc[k] = "window" => Waiting(k) \/ Somewhere(k)
        /\ pc[k] \in BatchPoints => Somewhere(k)
        /\ job[k] = "write" /\ answer[k] = Ok /\ mine[k].batcher # 0 => Somewhere(k)
    BY DEF AckShape
  <2>2. CASE k # n
    <3>1. /\ job'[k] = job[k] /\ pc'[k] = pc[k] /\ answer'[k] = answer[k]
          /\ mine'[k] = mine[k]
      BY <1>1, <2>2 DEF OthersKept
    <3>2. pc[k] = "window" /\ Waiting(k) => Waiting(k)' \/ Somewhere(k)'
      BY <2>2, WaitingKept
    <3> QED BY <1>2, <2>1, <3>1, <3>2
  <2>3. CASE k = n
    BY <1>1, <1>2, <1>3, <2>1, <2>3 DEF AckMove
  <2> QED BY <2>2, <2>3
<1> QED BY <1>4 DEF AckShape
-----------------------------------------------------------------------------
(***************************************************************************)
(* Creations and deletions.                                                *)
(***************************************************************************)

\* A step of a task that leaves the maps alone: of one that neither creates nor
\* deletes, of one on its way to the maps, an arrival, or a client that goes away.
Calm(n) ==
    /\ namespaces' = namespaces /\ batchers' = batchers
    /\ ~overlapped' => ~overlapped
    /\ parted' \/ (parted' = parted /\ pc[n] \notin Between)
    /\ Restartable => Restartable'
    /\ pc'[n] \notin Between /\ (pc'[n] = "insert" => Restartable')
    /\ ~overlapped' /\ n \in Changers' => \A m \in Changers \ {n} : job[m] = job'[n]

\* A creation puts the namespace into the maps.
Creating(n) ==
    /\ n \in Changers /\ job[n] = "create" /\ overlapped' = overlapped
    /\ ~overlapped => namespaces' # 0 /\ Restartable'
    /\ pc'[n] = "batcher" \/ (batchers' # 0 /\ n \notin Changers')

\* A deletion takes it out of them, or finds that it is not there.
Deleting(n) ==
    /\ n \in Changers /\ job[n] = "delete" /\ overlapped' = overlapped
    /\ ~overlapped => namespaces' = 0
    /\ \/ pc'[n] = "unbatch"
       \/ n \notin Changers' /\ batchers' = 0
       \/ /\ n \notin Changers' /\ namespaces' = namespaces /\ batchers' = batchers
          /\ parted' = parted /\ pc[n] \notin Between

LEMMA LifeMoved ==
  ASSUME NsTypeOK, TaskShape, LifeShape, NEW n \in Tasks, OthersKept(n),
         Calm(n) \/ Creating(n) \/ Deleting(n),
         n \in Changers => job'[n] = job[n]
  PROVE  LifeShape'
<1> SUFFICES ASSUME ~overlapped'
             PROVE  /\ \A m, k \in Changers' : job'[m] = job'[k]
                    /\ \A m \in Changers' : Stage(m)'
                    /\ MapsAgree'
  BY DEF LifeShape
<1>1. /\ ~overlapped
      /\ \A m, k \in Changers : job[m] = job[k]
      /\ \A m \in Changers : Stage(m)
      /\ MapsAgree
  BY DEF LifeShape, Calm, Creating, Deleting
<1>2. \A m \in Tasks \ {n} : pc'[m] = pc[m] /\ job'[m] = job[m]
  BY DEF OthersKept
<1>3. /\ \A m \in Tasks \ {n} : m \in Changers' <=> m \in Changers
      /\ Changers \subseteq Tasks /\ Changers' \subseteq Tasks
  BY <1>2 DEF Changers, Live
<1>4. \A m \in Tasks : /\ pc[m] \in {"insert", "batcher"} => m \in Changers /\ job[m] = "create"
                       /\ pc[m] = "unbatch" => m \in Changers /\ job[m] = "delete"
  <2>1. \A m \in Tasks : pc[m] \in {"insert", "batcher", "unbatch"} => m \in Live
    BY DEF Live
  <2>2. \A m \in Tasks : job[m] \in Jobs /\ TaskOK(m)
    BY DEF NsTypeOK, TaskShape
  <2> QED BY <2>1, <2>2 DEF TaskOK, Changers, Jobs, Lifecycle, CreatePoints, DeletePoints,
                            WritePoints
<1>5. Restartable <=> (meta \/ Unsettled # {})
  BY DEF Restartable
<1>6. Restartable' <=> (meta' \/ Unsettled' # {})
  BY DEF Restartable
<1>7. CASE Calm(n)
  <2>1. ASSUME NEW m \in Changers', NEW k \in Changers'
        PROVE  job'[m] = job'[k]
    BY <1>1, <1>2, <1>3, <1>7 DEF Calm
  <2>2. ASSUME NEW m \in Changers'
        PROVE  Stage(m)'
    <3>1. CASE m = n
      BY <1>7, <3>1 DEF Calm, Stage, Between
    <3>2. CASE m # n
      <4>1. Stage(m) /\ pc'[m] = pc[m]
        BY <1>1, <1>2, <1>3, <3>2
      <4> QED BY <1>7, <4>1 DEF Calm, Stage
    <3> QED BY <3>1, <3>2
  <2>3. ASSUME ~parted', \A m \in Tasks : pc'[m] \notin Between
        PROVE  (namespaces' = 0) = (batchers' = 0)
    <3>1. ~parted /\ \A m \in Tasks : pc[m] \notin Between
      BY <1>2, <1>7, <2>3 DEF Calm
    <3> QED BY <1>1, <1>7, <3>1 DEF Calm, MapsAgree
  <2>4. namespaces' # 0 => Restartable'
    BY <1>1, <1>5, <1>7 DEF Calm, MapsAgree
  <2> QED BY <1>6, <2>1, <2>2, <2>3, <2>4 DEF MapsAgree
<1>8. CASE Creating(n)
  <2>1. \A m \in Changers : job[m] = "create"
    BY <1>1, <1>8 DEF Creating
  <2>2. ASSUME NEW m \in Changers', NEW k \in Changers'
        PROVE  job'[m] = job'[k]
    BY <1>2, <1>3, <1>8, <2>1 DEF Creating
  <2>3. namespaces' # 0 /\ Restartable'
    BY <1>1, <1>8 DEF Creating
  <2>4. ASSUME NEW m \in Changers'
        PROVE  pc'[m] # "unbatch"
    BY <1>2, <1>3, <1>4, <1>8, <2>1 DEF Creating
  <2>5. \A m \in Changers' : Stage(m)'
    BY <2>3, <2>4 DEF Stage
  <2>6. pc'[n] \in Between \/ batchers' # 0
    BY <1>8 DEF Creating, Between
  <2> QED BY <1>6, <2>2, <2>3, <2>5, <2>6 DEF MapsAgree
<1>9. CASE Deleting(n)
  <2>1. \A m \in Changers : job[m] = "delete"
    BY <1>1, <1>9 DEF Deleting
  <2>2. ASSUME NEW m \in Changers', NEW k \in Changers'
        PROVE  job'[m] = job'[k]
    BY <1>2, <1>3, <1>9, <2>1 DEF Deleting
  <2>3. namespaces' = 0
    BY <1>1, <1>9 DEF Deleting
  <2>4. ASSUME NEW m \in Changers'
        PROVE  pc'[m] \notin {"insert", "batcher"}
    BY <1>2, <1>3, <1>4, <1>9, <2>1 DEF Deleting
  <2>5. \A m \in Changers' : Stage(m)'
    BY <2>3, <2>4 DEF Stage
  <2>6. ASSUME ~parted', \A m \in Tasks : pc'[m] \notin Between
        PROVE  batchers' = 0
    <3>1. CASE batchers' = 0
      BY <3>1
    <3>2. CASE /\ namespaces' = namespaces /\ batchers' = batchers
               /\ parted' = parted /\ pc[n] \notin Between
      <4>1. ~parted /\ \A m \in Tasks : pc[m] \notin Between
        BY <1>2, <2>6, <3>2
      <4> QED BY <1>1, <2>3, <3>2, <4>1 DEF MapsAgree
    <3> QED BY <1>9, <2>6, <3>1, <3>2 DEF Deleting, Between
  <2> QED BY <2>2, <2>3, <2>5, <2>6 DEF MapsAgree
<1> QED BY <1>7, <1>8, <1>9

\* A namespace that survives a restart or is asked to be deleted goes on being
\* so, unless a deletion succeeds.
LEMMA RestartableKept ==
  ASSUME TaskShape, NEW n \in Tasks, OthersKept(n),
         (meta => meta') \/ n \in Unsettled',
         n \in Unsettled => n \in Unsettled'
  PROVE  Restartable => Restartable'
<1>1. \A m \in Tasks \ {n} : m \in Unsettled => m \in Unsettled'
  BY DEF OthersKept, Unsettled
<1>2. Unsettled \subseteq Tasks
  BY DEF Unsettled
<1> QED BY <1>1, <1>2 DEF Restartable

\* Without overlaps the maps and the store follow the tasks that change them.
LEMMA LifeShapeStep ==
  ASSUME NsTypeOK, TaskShape, LifeShape, NEW n \in Tasks, Move(n)
  PROVE  LifeShape'
<1> USE DEF At, Goto, Reply, serverVars, maps, storeVars, history, Changers, Live, Lifecycle,
            Between
<1>1. OthersKept(n)
  BY OthersAreKept
<1>2. /\ pc \in [Tasks -> Points] /\ job \in [Tasks -> Jobs] /\ answer \in [Tasks -> Answers]
      /\ overlapped \in BOOLEAN /\ parted \in BOOLEAN
      /\ Len(states) \in Nat /\ Len(buffers) \in Nat
  BY TypeFacts DEF NsTypeOK
<1>3. /\ n \in Live => /\ job[n] = "create" => pc[n] \in CreatePoints
                       /\ job[n] = "delete" => pc[n] \in DeletePoints
                       /\ job[n] = "write" => pc[n] \in WritePoints
                       /\ job[n] = "read" => pc[n] \in {"enter", "read"}
                       /\ answer[n] = Unanswered
      /\ pc[n] = "idle" => answer[n] = Unanswered /\ job[n] = "read"
  BY DEF TaskShape, TaskOK
<1>4. ~overlapped => /\ MapsAgree
                     /\ n \in Changers => Stage(n) /\ \A m \in Changers : job[m] = job[n]
  BY DEF LifeShape
<1>5. n \in Unsettled <=> job[n] = "delete" /\ answer[n] \in {Unanswered, StorageError}
  BY DEF Unsettled
<1>6. n \in Unsettled' <=> job'[n] = "delete" /\ answer'[n] \in {Unanswered, StorageError}
  BY DEF Unsettled
<1>7. (n \in Unsettled => n \in Unsettled') /\ ((meta => meta') \/ n \in Unsettled') =>
        (Restartable => Restartable')
  BY <1>1, RestartableKept
<1>8. meta' => Restartable'
  BY DEF Restartable
<1>9. n \in Changers => job'[n] = job[n]
  BY DEF Move, Step, Create, Delete, WriteDocs, Flush, Visit, Cancel, Arrive, Check, PutNewMeta,
     InsertState, InsertBatcher, Erase, EraseListed, EraseMeta, RemoveState, RemoveBatcher,
     WriteNothing, LookupBatcher, Submit, TakeBatch, FindState, PutWal, Store, ApplyEntry, Apply,
     PutMeta, Enter, Read, ReadEtag, EnterAgain, Swap
<1> SUFFICES Calm(n) \/ Creating(n) \/ Deleting(n)
  BY <1>1, <1>9, LifeMoved
<1>10. CASE \E kind \in Jobs : Arrive(n, kind)
  <2>1. PICK kind \in Jobs : Arrive(n, kind)
    BY <1>10
  <2>2. /\ job'[n] = kind /\ pc'[n] = First(kind) /\ answer' = answer /\ meta' = meta
        /\ namespaces' = namespaces /\ batchers' = batchers /\ parted' = parted
        /\ pc[n] = "idle"
    BY <1>2, <2>1 DEF Arrive
  <2>3. overlapped' = (overlapped \/ (kind \in Lifecycle /\ \E m \in Live : Opposed(job[m], kind)))
    BY <2>1 DEF Arrive
  <2>4. ~overlapped' => ~overlapped
    BY <2>3, Zenon
  <2>5. ASSUME ~overlapped', n \in Changers', NEW m \in Changers \ {n}
        PROVE  job[m] = job'[n]
    <3>1. m \in Live /\ job[m] \in Lifecycle /\ kind \in Lifecycle
      BY <2>2, <2>5
    <3>2. ~ Opposed(job[m], kind)
      BY <2>3, <2>5, <3>1
    <3>3. kind # job[m] => Opposed(job[m], kind)
      BY <3>1 DEF Opposed
    <3> QED BY <2>2, <3>2, <3>3
  <2>6. Restartable => Restartable'
    BY <1>3, <1>5, <1>7, <2>2
  <2>7. pc'[n] \notin Between /\ pc'[n] # "insert" /\ pc[n] \notin Between
    BY <2>2 DEF First
  <2> HIDE DEF Between, Changers
  <2> QED BY <2>2, <2>4, <2>5, <2>6, <2>7 DEF Calm
<1>11. CASE Check(n)
  <2>1. CASE job[n] = "delete" /\ namespaces = 0
    BY <1>2, <1>11, <2>1 DEF Check, Deleting
  <2>2. CASE ~ (job[n] = "delete" /\ namespaces = 0)
    <3>1. Restartable => Restartable'
      BY <1>2, <1>3, <1>5, <1>6, <1>7, <1>11, <2>2 DEF Check
    <3> QED BY <1>2, <1>4, <1>11, <2>2, <3>1 DEF Check, Calm
  <2> QED BY <2>1, <2>2
<1>12. CASE PutNewMeta(n)
  <2>1. CASE meta' = TRUE /\ Goto(n, "insert")
    BY <1>2, <1>4, <1>8, <1>12, <2>1 DEF PutNewMeta, Calm
  <2>2. CASE Lost(n) /\ Reply(n, StorageError)
    <3>1. Restartable => Restartable'
      BY <1>2, <1>5, <1>6, <1>7, <1>12, <2>2 DEF PutNewMeta, Lost
    <3> QED BY <1>2, <1>12, <2>2, <3>1 DEF PutNewMeta, Calm
  <2> QED BY <1>12, <2>1, <2>2 DEF PutNewMeta
<1>13. CASE InsertState(n)
  <2>1. namespaces' # 0 /\ meta' = meta /\ answer' = answer /\ job' = job
    <3>1. Len(Append(states, FreshState)) = Len(states) + 1
      BY FreshReplay DEF NsTypeOK
    <3> QED BY <1>2, <3>1, <1>13 DEF InsertState
  <2>2. ~overlapped => Restartable'
    <3>1. n \in Changers /\ pc[n] = "insert"
      BY <1>13 DEF InsertState
    <3> QED BY <1>4, <1>5, <1>6, <1>7, <2>1, <3>1 DEF Stage
  <2> QED BY <1>2, <2>1, <2>2, <1>13 DEF InsertState, Creating
<1>14. CASE InsertBatcher(n)
  <2>1. batchers' # 0 /\ namespaces' = namespaces /\ meta' = meta /\ job' = job
    <3> DEFINE T == Seq(Op)
    <3>1. <<>> \in T
      OBVIOUS
    <3> HIDE DEF T
    <3>2. buffers \in Seq(T)
      BY DEF NsTypeOK, T
    <3>3. Len(Append(buffers, <<>>)) = Len(buffers) + 1
      BY <3>1, <3>2
    <3> QED BY <1>2, <3>3, <1>14 DEF InsertBatcher
  <2>2. ~overlapped => namespaces # 0 /\ Restartable
    <3>1. n \in Changers /\ pc[n] = "batcher"
      BY <1>14 DEF InsertBatcher
    <3> QED BY <1>4, <3>1 DEF Stage, MapsAgree, Restartable
  <2>3. n \notin Unsettled /\ job[n] = "create"
    BY <1>5, <1>14 DEF InsertBatcher
  <2>4. ~overlapped => Restartable'
    BY <1>7, <2>1, <2>2, <2>3
  <2> QED BY <1>2, <2>1, <2>2, <2>3, <2>4, <1>14 DEF InsertBatcher, Creating
<1>15. CASE Erase(n)
  <2>1. n \in Unsettled' /\ job[n] = "delete"
    BY <1>2, <1>3, <1>6, <1>15
       DEF Erase, EraseListed, EraseMeta, EraseFails, Lost
  <2>2. Restartable => Restartable'
    BY <1>7, <2>1
  <2> QED BY <1>2, <1>4, <2>1, <2>2, <1>15
          DEF Erase, EraseListed, EraseMeta, EraseFails, Lost, Calm
<1>16. CASE RemoveState(n)
  BY <1>2, <1>16 DEF RemoveState, Deleting
<1>17. CASE RemoveBatcher(n)
  <2>1. n \in Changers /\ pc[n] = "unbatch" /\ job[n] = "delete"
    BY <1>17 DEF RemoveBatcher
  <2>2. ~overlapped => namespaces = 0
    BY <1>4, <2>1 DEF Stage
  <2> QED BY <1>2, <2>1, <2>2, <1>17 DEF RemoveBatcher, Deleting
<1>18. CASE Cancel(n)
  <2>1. /\ pc'[n] = "answered" /\ job' = job /\ answer' = answer /\ meta' = meta
        /\ namespaces' = namespaces /\ batchers' = batchers /\ overlapped' = overlapped
        /\ parted' = (parted \/ pc[n] \in Between)
    BY <1>2, <1>18 DEF Cancel
  <2>2. Restartable => Restartable'
    BY <1>5, <1>6, <1>7, <2>1
  <2>3. n \notin Changers'
    BY <2>1
  <2>4. parted' \/ (parted' = parted /\ pc[n] \notin Between)
    BY <1>2, <2>1
  <2>5. pc'[n] \notin Between /\ pc'[n] # "insert"
    BY <2>1
  <2> HIDE DEF Between, Changers
  <2> QED BY <2>1, <2>2, <2>3, <2>4, <2>5 DEF Calm
\* The other tasks neither create nor delete.
<1> USE DEF CreatePoints, DeletePoints, WritePoints
<1>19. CASE WriteNothing(n)
  <2>1. Restartable => Restartable'
    BY <1>2, <1>3, <1>5, <1>6, <1>7, <1>19 DEF WriteNothing
  <2> QED BY <1>2, <1>3, <1>19, <2>1 DEF WriteNothing, Calm
<1>20. CASE LookupBatcher(n)
  <2>1. Restartable => Restartable'
    BY <1>2, <1>3, <1>5, <1>6, <1>7, <1>20 DEF LookupBatcher
  <2> QED BY <1>2, <1>3, <1>20, <2>1 DEF LookupBatcher, Calm
<1>21. CASE \E w \in Writes : Submit(n, w)
  <2>1. Restartable => Restartable'
    BY <1>2, <1>3, <1>5, <1>6, <1>7, <1>21 DEF Submit
  <2> QED BY <1>2, <1>3, <1>21, <2>1 DEF Submit, Calm
<1>22. CASE TakeBatch(n)
  <2>1. Restartable => Restartable'
    BY <1>2, <1>3, <1>5, <1>6, <1>7, <1>22 DEF TakeBatch
  <2> QED BY <1>2, <1>3, <1>22, <2>1 DEF TakeBatch, Calm
<1>23. CASE FindState(n)
  <2>1. Restartable => Restartable'
    BY <1>2, <1>3, <1>5, <1>6, <1>7, <1>23 DEF FindState
  <2> QED BY <1>2, <1>3, <1>23, <2>1 DEF FindState, Calm
<1>24. CASE PutWal(n)
  <2>1. Restartable => Restartable'
    BY <1>2, <1>3, <1>5, <1>6, <1>7, <1>24 DEF PutWal, Store
  <2> QED BY <1>2, <1>3, <1>24, <2>1 DEF PutWal, Store, Calm
<1>25. CASE ApplyEntry(n)
  <2>1. Restartable => Restartable'
    BY <1>2, <1>3, <1>5, <1>6, <1>7, <1>25 DEF ApplyEntry, Apply
  <2> QED BY <1>2, <1>3, <1>25, <2>1 DEF ApplyEntry, Apply, Calm
<1>26. CASE PutMeta(n)
  <2>1. Restartable => Restartable'
    BY <1>2, <1>3, <1>5, <1>6, <1>7, <1>26 DEF PutMeta, Lost
  <2> QED BY <1>2, <1>3, <1>26, <2>1 DEF PutMeta, Lost, Calm
<1>27. CASE Enter(n)
  <2>1. Restartable => Restartable'
    BY <1>2, <1>3, <1>5, <1>6, <1>7, <1>27 DEF Enter
  <2> QED BY <1>2, <1>3, <1>27, <2>1 DEF Enter, Calm
<1>28. CASE Read(n)
  <2>1. Restartable => Restartable'
    BY <1>2, <1>3, <1>5, <1>6, <1>7, <1>28 DEF Read
  <2> QED BY <1>2, <1>3, <1>28, <2>1 DEF Read, Calm
<1>29. CASE ReadEtag(n)
  <2>1. Restartable => Restartable'
    BY <1>2, <1>3, <1>5, <1>6, <1>7, <1>29 DEF ReadEtag
  <2> QED BY <1>2, <1>3, <1>29, <2>1 DEF ReadEtag, Calm
<1>30. CASE EnterAgain(n)
  <2>1. Restartable => Restartable'
    BY <1>2, <1>3, <1>5, <1>6, <1>7, <1>30 DEF EnterAgain
  <2> QED BY <1>2, <1>3, <1>30, <2>1 DEF EnterAgain, Calm
<1>31. CASE Swap(n)
  <2>1. Restartable => Restartable'
    BY <1>2, <1>3, <1>5, <1>6, <1>7, <1>31 DEF Swap
  <2> QED BY <1>2, <1>3, <1>31, <2>1 DEF Swap, Calm
<1> QED BY <1>10, <1>11, <1>12, <1>13, <1>14, <1>15, <1>16, <1>17, <1>18, <1>19, <1>20,
           <1>21, <1>22, <1>23, <1>24, <1>25, <1>26, <1>27, <1>28, <1>29, <1>30, <1>31
      DEF Move, Step, Create, Delete, WriteDocs, Flush, Visit
-----------------------------------------------------------------------------
(***************************************************************************)
(* The server starts and crashes.                                          *)
(***************************************************************************)

\* A lock nobody asked for.
LEMMA FreeProps ==
  ASSUME NEW T
  PROVE  Free \in Queue(T) /\ Once(Free) /\ By(Free) = {} /\ Range(Free) = {}
BY DEF Free, Queue, Once, By, Range

\* NamespaceManager::init makes one generation of what the log holds, or none.
LEMMA AtStartProps ==
  ASSUME IsFiniteSet(DOMAIN wal), LogShape, \A s \in DOMAIN wal : wal[s] \in Seq(Op)
  PROVE  /\ AtStart \in Seq(NamespaceState) /\ Len(AtStart) \in Nat
         /\ DOMAIN AtStart = 1 .. Len(AtStart)
         /\ \A g \in DOMAIN AtStart : OfTheLog(AtStart[g])
         /\ (meta => Len(AtStart) = 1) /\ (~meta => Len(AtStart) = 0)
<1>1. Loaded \in NamespaceState /\ OfTheLog(Loaded)
  BY LoadedProps
<1>2. CASE meta
  <2> DEFINE l == Loaded
  <2>1. AtStart = <<l>>
    BY <1>2 DEF AtStart
  <2>2. l \in NamespaceState /\ OfTheLog(l)
    BY <1>1
  <2> HIDE DEF l
  <2>3. /\ AtStart \in Seq(NamespaceState) /\ Len(AtStart) = 1 /\ DOMAIN AtStart = 1 .. 1
        /\ AtStart[1] = l
    BY <2>1, <2>2
  <2>4. \A g \in DOMAIN AtStart : g = 1
    BY <2>3
  <2>5. \A g \in DOMAIN AtStart : OfTheLog(AtStart[g])
    BY <2>2, <2>3, <2>4
  <2> QED BY <1>2, <2>3, <2>5
<1>3. CASE ~meta
  <2>1. AtStart = <<>>
    BY <1>3 DEF AtStart
  <2> QED BY <1>3, <2>1
<1> QED BY <1>2, <1>3

\* The log of a store that a server starts on for the first time.
LEMMA InitLog ==
  ASSUME Init
  PROVE  /\ IsFiniteSet(DOMAIN wal) /\ DOMAIN wal \subseteq Nat \ {0}
         /\ \A s \in DOMAIN wal : wal[s] \in Seq(Op)
         /\ LogShape
<1>1. CASE wal = [s \in {} |-> <<>>]
  <2>1. DOMAIN wal = {}
    BY <1>1
  <2>2. Cardinality({}) = 0 /\ IsFiniteSet({}) /\ 1 .. 0 = {}
    BY FS_EmptySet
  <2>3. LogShape
    BY <2>1, <2>2 DEF LogShape
  <2> QED BY <2>1, <2>2, <2>3
<1>2. CASE \E w \in Writes : wal = [s \in {1} |-> <<[req |-> 0, ids |-> w.ids, doc |-> w.doc]>>]
  <2>1. PICK w \in Writes :
          wal = [s \in {1} |-> <<[req |-> 0, ids |-> w.ids, doc |-> w.doc]>>]
    BY <1>2
  <2> DEFINE op == [req |-> 0, ids |-> w.ids, doc |-> w.doc]
  <2>2. op \in Op
    BY WritesAssumption, ReqsAssumption DEF Write, Op
  <2> HIDE DEF op
  <2>3. DOMAIN wal = {1} /\ wal[1] = <<op>>
    BY <2>1 DEF op
  <2>4. Cardinality({1}) = 1 /\ IsFiniteSet({1}) /\ 1 .. 1 = {1}
    <3>1. Cardinality(1 .. 1) = 1 /\ IsFiniteSet(1 .. 1)
      <4>1. /\ IsFiniteSet(1 .. 1)
            /\ Cardinality(1 .. 1) = IF 1 > 1 THEN 0 ELSE 1 - 1 + 1
        <5>1. 1 \in Int
          OBVIOUS
        <5> QED BY <5>1, FS_Interval, Zenon
      <4>2. (IF 1 > 1 THEN 0 ELSE 1 - 1 + 1) = 1
        OBVIOUS
      <4> QED BY <4>1, <4>2
    <3>2. 1 .. 1 = {1}
      OBVIOUS
    <3> QED BY <3>1, <3>2
  <2>5. LogShape
    BY <2>3, <2>4 DEF LogShape
  <2>6. <<op>> \in Seq(Op)
    BY <2>2
  <2>7. \A s \in DOMAIN wal : wal[s] \in Seq(Op)
    <3> DEFINE T == Seq(Op)
    <3> HIDE DEF T
    <3> SUFFICES \A s \in DOMAIN wal : wal[s] \in T
      BY DEF T
    <3>1. wal[1] \in T
      BY <2>3, <2>6 DEF T
    <3> QED BY <2>3, <3>1
  <2> QED BY <2>3, <2>4, <2>5, <2>7
<1> QED BY <1>1, <1>2 DEF Init

\* Where nothing runs.
Resting == \A n \in Tasks : pc[n] \in {"idle", "answered"}

\* Then nobody creates, deletes, waits for a lock or has a batch.
LEMMA RestingProps ==
  ASSUME Resting
  PROVE  /\ Live = {} /\ Changers = {}
         /\ \A n \in Tasks : /\ pc[n] \notin MapPoints /\ pc[n] \notin StatePoints
                             /\ pc[n] \notin LoggedPoints /\ pc[n] \notin BatchPoints
                             /\ pc[n] # "window" /\ pc[n] # "apply"
BY DEF Resting, Live, Changers, MapPoints, StatePoints, LoggedPoints, BatchPoints

\* New generations, one for each element of seq, with nothing in them.
LEMMA NewGenerations ==
  ASSUME NEW seq \in Seq(NamespaceState), NEW T
  PROVE  /\ [g \in DOMAIN seq |-> <<>>] \in Seq(Seq(Op))
         /\ Len([g \in DOMAIN seq |-> <<>>]) = Len(seq)
         /\ [g \in DOMAIN seq |-> Free] \in Seq(Queue(T))
         /\ Len([g \in DOMAIN seq |-> Free]) = Len(seq)
<1>1. DOMAIN seq = 1 .. Len(seq) /\ Len(seq) \in Nat
  OBVIOUS
<1> DEFINE U == Seq(Op)
           Q == Queue(T)
           b == [g \in DOMAIN seq |-> <<>>]
           l == [g \in DOMAIN seq |-> Free]
<1>2. <<>> \in U /\ Free \in Q
  BY FreeProps
<1> HIDE DEF U, Q
<1>3. b \in Seq(U) /\ Len(b) = Len(seq)
  BY <1>1, <1>2
<1>4. l \in Seq(Q) /\ Len(l) = Len(seq)
  <2> DEFINE f == Free
  <2>1. f \in Q
    BY <1>2
  <2> HIDE DEF f
  <2>2. [g \in DOMAIN seq |-> f] \in Seq(Q) /\ Len([g \in DOMAIN seq |-> f]) = Len(seq)
    BY <1>1, <2>1
  <2> QED BY <2>2 DEF f
<1> QED BY <1>3, <1>4 DEF U, Q

\* The invariant holds when the server starts for the first time.
LEMMA InitNsInv ==
  ASSUME Init
  PROVE  NsInv
<1>1. /\ IsFiniteSet(DOMAIN wal) /\ DOMAIN wal \subseteq Nat \ {0}
      /\ \A s \in DOMAIN wal : wal[s] \in Seq(Op)
      /\ LogShape
  BY InitLog
<1>2. /\ states \in Seq(NamespaceState) /\ Len(states) \in Nat
      /\ DOMAIN states = 1 .. Len(states)
      /\ \A g \in DOMAIN states : OfTheLog(states[g])
      /\ (meta => Len(states) = 1) /\ (~meta => Len(states) = 0)
  <2>1. states = AtStart
    BY DEF Init
  <2> QED BY <1>1, <2>1, AtStartProps
<1>3. /\ pc = [n \in Tasks |-> "idle"] /\ job = [n \in Tasks |-> "read"]
      /\ mine = [n \in Tasks |-> NothingFound] /\ answer = [n \in Tasks |-> Unanswered]
      /\ namespaces = Len(states) /\ batchers = Len(states)
      /\ mapLock = Free /\ crashes = 0 /\ late = {}
  BY DEF Init
<1>4. Resting
  BY <1>3 DEF Resting
<1>5. /\ buffers \in Seq(Seq(Op)) /\ Len(buffers) = Len(states)
      /\ stateLocks \in Seq(Queue(Live)) /\ Len(stateLocks) = Len(states)
  <2>1. buffers = [g \in DOMAIN states |-> <<>>] /\ stateLocks = [g \in DOMAIN states |-> Free]
    BY DEF Init
  <2> QED BY <1>2, <2>1, NewGenerations
<1>6. NsTypeOK
  <2>1. /\ up \in BOOLEAN /\ meta \in BOOLEAN
        /\ overlapped \in BOOLEAN /\ parted \in BOOLEAN
    BY DEF Init
  <2>2. namespaces \in Generation(states) /\ batchers \in Generation(buffers)
    BY <1>2, <1>3, <1>5 DEF Generation
  <2>3. mapLock \in Queue(Live)
    BY <1>3, FreeProps
  <2>4. job \in [Tasks -> Jobs] /\ pc \in [Tasks -> Points] /\ answer \in [Tasks -> Answers]
    BY <1>3 DEF Jobs, Points, Answers
  <2>5. mine \in [Tasks -> Finding]
    BY <1>3 DEF NothingFound, Finding
  <2>6. Live = {}
    BY <1>4, RestingProps
  <2>7. crashes \in 0 .. MaxCrashes
    BY <1>3, BoundsAssumption
  <2>8. late \subseteq Tasks
    BY <1>3
  <2> QED BY <1>1, <1>2, <1>5, <2>1, <2>2, <2>3, <2>4, <2>5, <2>6, <2>7, <2>8 DEF NsTypeOK
<1>7. TaskShape
  BY <1>3 DEF TaskShape, TaskOK, Live, NothingFound, BatchPoints
<1>8. MapQueue
  BY <1>3, <1>4, FreeProps, RestingProps DEF MapQueue
<1>9. StateQueues
  <2>1. \A g \in DOMAIN stateLocks : stateLocks[g] = Free
    BY DEF Init
  <2> QED BY <1>4, <2>1, FreeProps, RestingProps DEF StateQueues
<1>10. ReplayShape
  BY <1>2, <1>4, RestingProps DEF ReplayShape
<1>11. AckShape
  BY <1>3, <1>4, RestingProps DEF AckShape, Unanswered, Ok
<1>12. LateShape
  BY <1>3 DEF LateShape
<1>13. LifeShape
  <2>1. (namespaces = 0) = (batchers = 0) /\ (namespaces # 0 => meta)
    <3>1. CASE meta
      BY <1>2, <1>3, <3>1
    <3>2. CASE ~meta
      BY <1>2, <1>3, <3>2
    <3> QED BY <3>1, <3>2
  <2>2. MapsAgree
    BY <2>1 DEF MapsAgree
  <2> QED BY <1>4, <2>2, RestingProps DEF LifeShape
<1> QED BY <1>1, <1>6, <1>7, <1>8, <1>9, <1>10, <1>11, <1>12, <1>13 DEF NsInv

\* After a crash nothing runs, and the store is what it was.
LEMMA CrashNsInv ==
  ASSUME NsInv, Crash
  PROVE  NsInv'
<1> USE DEF NsInv
<1>1. /\ up' = FALSE /\ states' = <<>> /\ buffers' = <<>> /\ stateLocks' = <<>>
      /\ namespaces' = 0 /\ batchers' = 0 /\ mapLock' = Free
      /\ pc' = [n \in Tasks |-> IF n \in Live THEN "answered" ELSE pc[n]]
      /\ crashes' = crashes + 1 /\ crashes < MaxCrashes
      /\ job' = job /\ mine' = mine /\ answer' = answer
      /\ wal' = wal /\ meta' = meta /\ overlapped' = overlapped /\ parted' = parted
      /\ late' = late \cup {n \in Live : pc[n] \in Requesting}
  BY DEF Crash, history
<1> HIDE DEF Crash
<1>2. pc \in [Tasks -> Points] /\ \A n \in Tasks : n \in Live \/ pc[n] \in {"idle", "answered"}
  BY DEF NsTypeOK, Live
<1>3. \A n \in Tasks : pc'[n] \in {"idle", "answered"} /\ (pc'[n] = "idle" => pc[n] = "idle")
  BY <1>1, <1>2
<1>4. /\ Live' = {} /\ Changers' = {}
      /\ \A n \in Tasks : /\ pc'[n] \notin MapPoints /\ pc'[n] \notin StatePoints
                          /\ pc'[n] \notin LoggedPoints /\ pc'[n] \notin BatchPoints
                          /\ pc'[n] # "window" /\ pc'[n] # "apply"
  BY <1>3 DEF Live, Changers, MapPoints, StatePoints, LoggedPoints, BatchPoints
<1>5. NsTypeOK'
  <2>1. /\ up' \in BOOLEAN /\ meta' \in BOOLEAN
        /\ overlapped' \in BOOLEAN /\ parted' \in BOOLEAN
    <3>1. meta \in BOOLEAN /\ overlapped \in BOOLEAN /\ parted \in BOOLEAN
      BY DEF NsTypeOK
    <3> QED BY <1>1, <3>1, Zenon
  <2>2. states' \in Seq(NamespaceState) /\ Len(states') = 0
    BY <1>1
  <2>3. buffers' \in Seq(Seq(Op)) /\ Len(buffers') = 0
    BY <1>1
  <2>4. mapLock' \in Queue(Live')
    BY <1>1, FreeProps
  <2>5. stateLocks' \in Seq(Queue(Live')) /\ Len(stateLocks') = 0
    BY <1>1
  <2>6. pc' \in [Tasks -> Points]
    BY <1>1, <1>2 DEF Points
  <2>7. /\ job' \in [Tasks -> Jobs] /\ answer' \in [Tasks -> Answers]
        /\ mine' \in [Tasks -> Finding]
    BY <1>1 DEF NsTypeOK
  <2>8. IsFiniteSet(DOMAIN wal') /\ DOMAIN wal' \subseteq Nat \ {0}
    BY <1>1 DEF NsTypeOK
  <2>9. \A s \in DOMAIN wal' : wal'[s] \in Seq(Op)
    BY <1>1 DEF NsTypeOK
  <2>10. crashes' \in 0 .. MaxCrashes
    <3>1. crashes \in 0 .. MaxCrashes
      BY DEF NsTypeOK
    <3> QED BY <1>1, <3>1, BoundsAssumption
  <2>11. namespaces' \in Generation(states)' /\ batchers' \in Generation(buffers)'
    BY <1>1, <2>2, <2>3 DEF Generation
  <2>12. late' \subseteq Tasks
    <3>1. late \subseteq Tasks
      BY DEF NsTypeOK
    <3> QED BY <1>1, <3>1 DEF Live
  <2> QED BY <1>4, <2>1, <2>2, <2>3, <2>4, <2>5, <2>6, <2>7, <2>8, <2>9, <2>10, <2>11, <2>12
          DEF NsTypeOK
<1>6. TaskShape'
  <2>1. ASSUME NEW n \in Tasks
        PROVE  TaskOK(n)'
    <3>1. TaskOK(n)
      BY DEF TaskShape
    <3>2. /\ n \notin Live' /\ answer'[n] = answer[n] /\ mine'[n] = mine[n] /\ job'[n] = job[n]
          /\ pc'[n] \in {"idle", "answered"} /\ (pc'[n] = "idle" => pc[n] = "idle")
      BY <1>1, <1>3, <1>4
    <3> QED BY <3>1, <3>2 DEF TaskOK, BatchPoints, NothingFound
  <2> QED BY <2>1 DEF TaskShape
<1>7. MapQueue'
  BY <1>1, <1>4, FreeProps DEF MapQueue
<1>8. StateQueues'
  BY <1>1, <1>4 DEF StateQueues
<1>9. LogShape' /\ ReplayShape'
  BY <1>1, <1>4 DEF LogShape, ReplayShape
<1>10. AckShape'
  <2>1. \A n \in Tasks : Somewhere(n)' <=> Somewhere(n)
    BY <1>1 DEF Somewhere, Logged, InBatch
  <2> QED BY <1>1, <1>4, <2>1 DEF AckShape
<1>11. LateShape'
  <2>1. Unsettled' = Unsettled
    BY <1>1 DEF Unsettled
  <2>2. ASSUME NEW n \in late'
        PROVE  pc'[n] = "answered" /\ (job'[n] = "delete" => n \in Unsettled)
    <3>1. CASE n \in late
      <4>1. n \in Tasks /\ pc[n] = "answered" /\ (job[n] = "delete" => n \in Unsettled)
        BY <3>1 DEF NsTypeOK, LateShape
      <4> QED BY <1>1, <4>1
    <3>2. CASE n \in Live
      <4>1. n \in Tasks /\ answer[n] = Unanswered
        BY <3>2 DEF Live, TaskShape, TaskOK
      <4> QED BY <1>1, <3>2, <4>1 DEF Unsettled
    <3> QED BY <1>1, <3>1, <3>2
  <2> QED BY <2>1, <2>2 DEF LateShape
<1>12. LifeShape'
  BY <1>1, <1>4 DEF LifeShape, MapsAgree
<1> QED BY <1>5, <1>6, <1>7, <1>8, <1>9, <1>10, <1>11, <1>12

\* Start-up makes the state of a namespace anew from the whole log.
LEMMA StartNsInv ==
  ASSUME NsInv, Start
  PROVE  NsInv'
<1> USE DEF NsInv
<1>1. /\ ~up /\ up' = TRUE /\ states' = AtStart
      /\ buffers' = [g \in DOMAIN AtStart |-> <<>>]
      /\ stateLocks' = [g \in DOMAIN AtStart |-> Free]
      /\ namespaces' = Len(AtStart) /\ batchers' = Len(AtStart)
      /\ mapLock' = mapLock /\ pc' = pc /\ job' = job /\ mine' = mine /\ answer' = answer
      /\ wal' = wal /\ meta' = meta /\ late' = late /\ crashes' = crashes
      /\ overlapped' = FALSE /\ parted' = FALSE
  BY DEF Start, storeVars, taskVars
<1> HIDE DEF Start
<1>2. /\ IsFiniteSet(DOMAIN wal) /\ LogShape /\ \A s \in DOMAIN wal : wal[s] \in Seq(Op)
  BY DEF NsTypeOK
<1>3. /\ AtStart \in Seq(NamespaceState) /\ Len(AtStart) \in Nat
      /\ DOMAIN AtStart = 1 .. Len(AtStart)
      /\ \A g \in DOMAIN AtStart : OfTheLog(AtStart[g])
      /\ (meta => Len(AtStart) = 1) /\ (~meta => Len(AtStart) = 0)
  BY <1>2, AtStartProps
<1>4. Resting
  BY <1>1 DEF TaskShape, TaskOK, Resting, Live
<1>5. /\ Live' = {} /\ Changers' = {} /\ Live = {}
      /\ \A n \in Tasks : /\ pc'[n] \notin MapPoints /\ pc'[n] \notin StatePoints
                          /\ pc'[n] \notin LoggedPoints /\ pc'[n] \notin BatchPoints
                          /\ pc'[n] # "window" /\ pc'[n] # "apply"
  <2>1. Live' = Live /\ Changers' = Changers
    BY <1>1 DEF Live, Changers
  <2> QED BY <1>1, <1>4, <2>1, RestingProps
<1>6. /\ buffers' \in Seq(Seq(Op)) /\ Len(buffers') = Len(AtStart)
      /\ stateLocks' \in Seq(Queue(Live')) /\ Len(stateLocks') = Len(AtStart)
  BY <1>1, <1>3, NewGenerations
<1>7. NsTypeOK'
  <2>1. /\ up' \in BOOLEAN /\ meta' \in BOOLEAN
        /\ overlapped' \in BOOLEAN /\ parted' \in BOOLEAN
    <3>1. meta \in BOOLEAN
      BY DEF NsTypeOK
    <3> QED BY <1>1, <3>1, Zenon
  <2>2. namespaces' \in Generation(states)' /\ batchers' \in Generation(buffers)'
    BY <1>1, <1>3, <1>6 DEF Generation
  <2>3. mapLock' \in Queue(Live')
    <3>1. mapLock \in Queue(Live)
      BY DEF NsTypeOK
    <3> QED BY <1>1, <1>5, <3>1
  <2>4. states' \in Seq(NamespaceState) /\ Len(stateLocks') = Len(states')
    BY <1>1, <1>3, <1>6
  <2>5. /\ job' \in [Tasks -> Jobs] /\ pc' \in [Tasks -> Points]
        /\ answer' \in [Tasks -> Answers] /\ mine' \in [Tasks -> Finding]
    BY <1>1 DEF NsTypeOK
  <2>6. IsFiniteSet(DOMAIN wal') /\ DOMAIN wal' \subseteq Nat \ {0}
    BY <1>1 DEF NsTypeOK
  <2>7. \A s \in DOMAIN wal' : wal'[s] \in Seq(Op)
    BY <1>1 DEF NsTypeOK
  <2>8. crashes' \in 0 .. MaxCrashes
    BY <1>1 DEF NsTypeOK
  <2>9. late' \subseteq Tasks
    BY <1>1 DEF NsTypeOK
  <2> QED BY <1>5, <1>6, <2>1, <2>2, <2>3, <2>4, <2>5, <2>6, <2>7, <2>8, <2>9 DEF NsTypeOK
<1>8. TaskShape'
  <2>1. ASSUME NEW n \in Tasks
        PROVE  TaskOK(n)'
    <3>1. TaskOK(n)
      BY DEF TaskShape
    <3>2. /\ n \notin Live' /\ answer'[n] = answer[n] /\ mine'[n] = mine[n]
          /\ pc'[n] = pc[n] /\ job'[n] = job[n]
      BY <1>1, <1>5
    <3> QED BY <3>1, <3>2 DEF TaskOK
  <2> QED BY <2>1 DEF TaskShape
<1>9. MapQueue'
  BY <1>1 DEF MapQueue
<1>10. StateQueues'
  <2>1. \A g \in DOMAIN stateLocks' : stateLocks'[g] = Free
    BY <1>1
  <2> QED BY <1>5, <2>1, FreeProps DEF StateQueues
<1>11. LogShape' /\ ReplayShape'
  <2>1. LogShape'
    BY <1>1 DEF LogShape
  <2>2. ASSUME NEW g \in DOMAIN states'
        PROVE  OfTheLog(states[g])'
    <3>1. g \in DOMAIN AtStart /\ states'[g] = AtStart[g] /\ OfTheLog(AtStart[g])
      BY <1>1, <1>3
    <3> QED BY <1>1, <3>1 DEF OfTheLog
  <2> QED BY <1>5, <2>1, <2>2 DEF ReplayShape
<1>12. AckShape'
  <2>1. \A n \in Tasks : Somewhere(n)' <=> Somewhere(n)
    BY <1>1 DEF Somewhere, Logged, InBatch
  <2> QED BY <1>1, <1>5, <2>1 DEF AckShape
<1>13. LateShape'
  BY <1>1 DEF LateShape, Unsettled
<1>14. LifeShape'
  <2>1. (namespaces' = 0) = (batchers' = 0) /\ (namespaces' # 0 => meta')
    BY <1>1, <1>3
  <2>2. MapsAgree'
    BY <2>1 DEF MapsAgree
  <2> QED BY <1>5, <2>2 DEF LifeShape
<1> QED BY <1>7, <1>8, <1>9, <1>10, <1>11, <1>12, <1>13, <1>14

\* A request that reaches meta.bin late changes what a restart makes of the
\* name, and nothing of what runs.
LEMMA LandNsInv ==
  ASSUME NsInv, NEW n \in Tasks, Land(n)
  PROVE  NsInv'
<1> USE DEF NsInv
<1>1. /\ up' = up /\ states' = states /\ buffers' = buffers
      /\ namespaces' = namespaces /\ batchers' = batchers
      /\ mapLock' = mapLock /\ stateLocks' = stateLocks
      /\ job' = job /\ pc' = pc /\ mine' = mine /\ answer' = answer
      /\ wal' = wal /\ crashes' = crashes /\ overlapped' = overlapped /\ parted' = parted
      /\ n \in late /\ late' = late \ {n} /\ meta' = (job[n] # "delete")
  BY DEF Land, serverVars, maps, locks, taskVars, history
<1> HIDE DEF Land
<1>2. Live' = Live /\ Changers' = Changers /\ Unsettled' = Unsettled
  BY <1>1 DEF Live, Changers, Unsettled
<1>3. meta' \in BOOLEAN /\ (meta' \/ n \in Unsettled)
  BY <1>1 DEF LateShape
<1>4. NsTypeOK'
  BY <1>1, <1>2, <1>3 DEF NsTypeOK, Generation
<1>5. TaskShape' /\ MapQueue'
  BY <1>1, <1>2 DEF TaskShape, TaskOK, MapQueue
<1>6. StateQueues'
  BY <1>1 DEF StateQueues, InStateQueue
<1>7. LogShape' /\ ReplayShape'
  BY <1>1 DEF LogShape, ReplayShape, OfTheLog, NextSeq
<1>8. AckShape'
  BY <1>1 DEF AckShape, Waiting, Somewhere, Logged, InBatch
<1>9. LateShape'
  BY <1>1, <1>2 DEF LateShape
<1>10. LifeShape'
  <2>1. Restartable'
    BY <1>2, <1>3 DEF Restartable
  <2>2. \A m \in Changers : Stage(m) => Stage(m)'
    BY <1>1, <2>1 DEF Stage
  <2>3. MapsAgree => MapsAgree'
    BY <1>1, <2>1 DEF MapsAgree, Restartable
  <2> QED BY <1>1, <1>2, <2>2, <2>3 DEF LifeShape
<1> QED BY <1>4, <1>5, <1>6, <1>7, <1>8, <1>9, <1>10
-----------------------------------------------------------------------------
(***************************************************************************)
(* The invariant is inductive, and what follows from it.                   *)
(***************************************************************************)

\* A step is a task's, a late request's, a crash, a start, or changes nothing.
LEMMA NextSteps ==
  ASSUME [Next]_vars
  PROVE  \/ \E n \in Tasks : Move(n) \/ Land(n)
         \/ Crash \/ Start \/ UNCHANGED vars
BY DEF Next, Health, Move

\* A step that changes nothing, such as that of GET /health.
LEMMA StutterNsInv ==
  ASSUME NsInv, UNCHANGED vars
  PROVE  NsInv'
<1>1. /\ up' = up /\ states' = states /\ buffers' = buffers
      /\ namespaces' = namespaces /\ batchers' = batchers
      /\ mapLock' = mapLock /\ stateLocks' = stateLocks
      /\ job' = job /\ pc' = pc /\ mine' = mine /\ answer' = answer
      /\ wal' = wal /\ meta' = meta /\ late' = late /\ crashes' = crashes
      /\ overlapped' = overlapped /\ parted' = parted
  BY DEF vars, serverVars, maps, locks, taskVars, storeVars, history
<1>2. Live' = Live /\ Changers' = Changers /\ Unsettled' = Unsettled
  BY <1>1 DEF Live, Changers, Unsettled
<1>3. NsTypeOK'
  BY <1>1, <1>2 DEF NsInv, NsTypeOK, Generation
<1>4. TaskShape' /\ MapQueue'
  BY <1>1, <1>2 DEF NsInv, TaskShape, TaskOK, MapQueue
<1>5. StateQueues'
  BY <1>1 DEF NsInv, StateQueues, InStateQueue
<1>6. LogShape' /\ ReplayShape'
  BY <1>1 DEF NsInv, LogShape, ReplayShape, OfTheLog, NextSeq
<1>7. AckShape'
  BY <1>1 DEF NsInv, AckShape, Waiting, Somewhere, Logged, InBatch
<1>8. LateShape' /\ LifeShape'
  BY <1>1, <1>2 DEF NsInv, LateShape, LifeShape, Stage, MapsAgree, Restartable
<1> QED BY <1>3, <1>4, <1>5, <1>6, <1>7, <1>8 DEF NsInv

\* The induction step.
LEMMA NextNsInv ==
  ASSUME NsInv, [Next]_vars
  PROVE  NsInv'
<1>1. CASE \E n \in Tasks : Move(n)
  <2>1. PICK n \in Tasks : Move(n)
    BY <1>1
  <2>2. /\ NsTypeOK /\ TaskShape /\ MapQueue /\ StateQueues
        /\ LogShape /\ ReplayShape /\ AckShape /\ LateShape /\ LifeShape
    BY DEF NsInv
  <2>3. NsTypeOK'
    BY <2>1, <2>2, NsTypeStep
  <2>4. TaskShape'
    BY <2>1, <2>2, TaskShapeStep
  <2>5. MapQueue' /\ StateQueues'
    BY <2>1, <2>2, MapQueueStep, StateQueuesStep
  <2>6. LogShape' /\ ReplayShape'
    BY <2>1, <2>2, ReplayStepOfTask
  <2>7. AckShape'
    BY <2>1, <2>2, AckShapeStep
  <2>8. LateShape' /\ LifeShape'
    BY <2>1, <2>2, LateStep, LifeShapeStep
  <2> QED BY <2>3, <2>4, <2>5, <2>6, <2>7, <2>8 DEF NsInv
<1>2. CASE \E n \in Tasks : Land(n)
  BY <1>2, LandNsInv
<1>3. CASE Crash
  BY <1>3, CrashNsInv
<1>4. CASE Start
  BY <1>4, StartNsInv
<1>5. CASE UNCHANGED vars
  BY <1>5, StutterNsInv
<1> QED BY <1>1, <1>2, <1>3, <1>4, <1>5, NextSteps

\* Every request, the reload task, a client that goes away, a request to
\* meta.bin that fails or arrives late, a crash and the start after it keep the
\* invariant, whatever awaits, locks or the store has at that moment.
THEOREM NsInductive == Spec => []NsInv
<1>1. Init => NsInv
  BY InitNsInv
<1>2. NsInv /\ [Next]_vars => NsInv'
  BY NextNsInv
<1> QED BY <1>1, <1>2, PTL DEF Spec

\* Handlers, locks, maps and store hold what their types say: a task never
\* indexes a NamespaceState or a WriteBatcher that does not exist.
THEOREM NsTypeCorrect == Spec => []NsTypeOK
<1>1. NsInv => NsTypeOK
  BY DEF NsInv
<1> QED BY <1>1, NsInductive, PTL

\* flush_batcher and load_namespace: every generation that requests are served
\* from, or that a flush still writes to, is the replay of a prefix of the log,
\* although all generations put their entries under the same keys.
THEOREM StatesAreReplays == Spec => []StateIsReplay
<1>1. NsInv => StateIsReplay
  BY DEF NsInv, ReplayShape, OfTheLog, StateIsReplay, Reachable
<1> QED BY <1>1, NsInductive, PTL

\* put_wal's create-only PUT: no generation changes or removes an entry of another.
THEOREM OverwriteNever == Spec => LogNeverOverwritten
<1>1. NsInv /\ [Next]_vars =>
        [\A s \in DOMAIN wal : s \in DOMAIN wal' /\ wal'[s] = wal[s]]_wal
  <2> SUFFICES ASSUME NsInv, [Next]_vars, wal' # wal
               PROVE  \A s \in DOMAIN wal : s \in DOMAIN wal' /\ wal'[s] = wal[s]
    OBVIOUS
  <2>1. ~ (Crash \/ Start \/ UNCHANGED vars) /\ \A n \in Tasks : ~ Land(n)
    BY DEF Crash, Start, Land, vars, storeVars
  <2>2. PICK n \in Tasks : Move(n)
    BY <2>1, NextSteps
  <2> QED BY <2>2, LogGrows DEF NsInv
<1> QED BY <1>1, NsInductive, PTL DEF Spec, LogNeverOverwritten

\* submit and flush_batcher: a write answered with Ok is in the log, or in the
\* batch of another task that has not been told Ok, through any deletion,
\* second creation, crash and start.
THEOREM AllAccounted == Spec => []AcknowledgedAccounted
<1>1. NsInv => AcknowledgedAccounted
  <2> SUFFICES ASSUME NsInv, NEW n \in Tasks, job[n] = "write", answer[n] = Ok,
                      mine[n].batcher # 0
               PROVE  \/ Logged(n)
                      \/ \E m \in Tasks \ {n} : InBatch(n, m) /\ answer[m] # Ok
    BY DEF AcknowledgedAccounted
  <2>1. Somewhere(n)
    BY DEF NsInv, AckShape
  <2> QED BY <2>1 DEF Somewhere
<1> QED BY <1>1, NsInductive, PTL

\* create_namespace and delete_namespace, whatever fails or is dropped in them:
\* as long as no creation meets a deletion, only a handler that is dropped
\* between its changes of the maps parts them, and only a deletion that did not
\* succeed can leave a namespace they name without meta.bin.
THEOREM MapsAgreed == Spec => []MapsAgree
<1>1. NsInv => MapsAgree
  BY DEF NsInv, LifeShape, MapsAgree
<1> QED BY <1>1, NsInductive, PTL
=============================================================================

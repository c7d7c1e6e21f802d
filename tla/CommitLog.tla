------------------------------ MODULE CommitLog ------------------------------
(***************************************************************************)
(* What the write path of one namespace promises, without batchers, locks, *)
(* PUTs or tasks: an append-only log of batches and a view of it.          *)
(*                                                                         *)
(*   - A batch is appended whole; a request is in at most one batch, and   *)
(*     in none once it was rejected.                                       *)
(*   - While the namespace is served, readers see the replay of a prefix   *)
(*     of the log, which grows by one batch at a time.                     *)
(*   - Service may stop at any time; when it resumes, readers see at least *)
(*     the prefix they saw before.                                         *)
(*                                                                         *)
(* The log may hold a batch that readers do not see yet: a PUT whose       *)
(* outcome the server does not know.                                       *)
(***************************************************************************)
EXTENDS WalReplay

VARIABLES log,        \* sequence of batches, each a sequence of operations
          rejected,   \* requests told that their write did not happen
          serving,    \* the namespace is served
          view,       \* number of batches readers see, or last saw
          docs, seqs  \* what readers see

clVars == <<log, rejected, serving, view, docs, seqs>>

ReqsOf(ops) == {ops[i].req : i \in DOMAIN ops}
LoggedReqs == UNION {ReqsOf(log[s]) : s \in DOMAIN log}

CLInit ==
    /\ log = <<>>
    /\ rejected = {}
    /\ serving = TRUE
    /\ view = 0
    /\ docs = NoDocs /\ seqs = NoSeqs

\* The commit point of a batch: the log alone changes.
Commit ==
    /\ Len(log') = Len(log) + 1
    /\ \A s \in DOMAIN log : log'[s] = log[s]
    /\ LET ops == log'[Len(log) + 1] IN
         /\ ReqsOf(ops) # {}
         /\ ReqsOf(ops) \cap (LoggedReqs \cup rejected) = {}
         /\ \A i, j \in DOMAIN ops : ops[i].req = ops[j].req => i = j
    /\ UNCHANGED <<rejected, serving, view, docs, seqs>>

\* The next batch becomes visible.
Show ==
    /\ serving
    /\ view < Len(log)
    /\ view' = view + 1
    /\ docs' = ApplyDocs(docs, log[view'])
    /\ seqs' = ApplySeqs(seqs, log[view'], view')
    /\ UNCHANGED <<log, rejected, serving>>

\* A batch is refused for good.
RejectSome ==
    /\ \E S \in SUBSET (Reqs \ LoggedReqs) : rejected' = rejected \cup S
    /\ UNCHANGED <<log, serving, view, docs, seqs>>

Stop ==
    /\ serving
    /\ serving' = FALSE
    /\ docs' = NoDocs /\ seqs' = NoSeqs
    /\ UNCHANGED <<log, rejected, view>>

Resume ==
    /\ ~serving
    /\ serving' = TRUE
    /\ view' \in view .. Len(log)
    /\ ReplayOf(log, view', docs', seqs')
    /\ UNCHANGED <<log, rejected>>

CLNext == Commit \/ Show \/ RejectSome \/ Stop \/ Resume

CLSpec == CLInit /\ [][CLNext]_clVars
=============================================================================

---------------------------- MODULE StateSyncProofs ----------------------------
(***************************************************************************)
(* Proofs about StateSync, for any contents, limits and bounds.  The       *)
(* inductive invariant is the conjunction of the three invariants: that a  *)
(* snapshot is waited for only while it is there needs that every field    *)
(* has its type, and the bounds on the requests are kept by counting them. *)
(***************************************************************************)
EXTENDS StateSync, FiniteSetTheorems, TLAPS

SyncInv == TypeOK /\ PhaseHasWork /\ RequestsBounded

\* There are finitely many requests of either kind, so they can be counted.
LEMMA PendingFinite ==
    /\ IsFiniteSet(PendingSnapshots)
    /\ IsFiniteSet(PendingTransactions)
<1>1. IsFiniteSet(Id)
  BY LimitAssumption, FS_Interval DEF Id
<1> QED
  BY <1>1, SequenceAssumption, FS_Subset DEF PendingSnapshots, PendingTransactions

\* A set that loses elements, or gains one below the limit, stays within it.
LEMMA StaysWithin ==
    ASSUME NEW S, NEW T, NEW x, NEW limit \in Nat,
           IsFiniteSet(S), Cardinality(S) <= limit,
           T \subseteq S \/ (T \subseteq S \cup {x} /\ Cardinality(S) < limit)
    PROVE  Cardinality(T) <= limit
<1>1. Cardinality(S) \in Nat
  BY FS_CardinalityType
<1>2. CASE T \subseteq S
  BY <1>1, <1>2, FS_Subset, FS_CardinalityType
<1>3. CASE T \subseteq S \cup {x} /\ Cardinality(S) < limit
  <2>1. /\ IsFiniteSet(S \cup {x})
        /\ Cardinality(S \cup {x}) \in {Cardinality(S), Cardinality(S) + 1}
    BY FS_AddElement
  <2>2. /\ IsFiniteSet(T)
        /\ Cardinality(T) <= Cardinality(S \cup {x})
        /\ Cardinality(T) \in Nat
    BY <1>3, <2>1, FS_Subset, FS_CardinalityType
  <2> QED
    BY <1>1, <1>3, <2>1, <2>2
<1> QED
  BY <1>2, <1>3

\* The states of each phase are SyncStates when their numbers are sequence
\* numbers.
LEMMA PhaseType ==
    /\ Idle \in SyncState /\ Idle.phase = "idle"
    /\ Phase("applying", None, None) \in SyncState
    /\ Phase("applying", None, None).phase = "applying"
    /\ \A n \in Sequence : \A phase \in {"snapshot", "verifying", "synced"} :
          /\ Phase(phase, n, None) \in SyncState
          /\ Phase(phase, n, None).phase = phase
          /\ Phase(phase, n, None).from = n
    /\ \A n, m \in Sequence :
          /\ Phase("transactions", n, m) \in SyncState
          /\ Phase("transactions", n, m).phase = "transactions"
BY DEF Idle, Phase, SyncState

\* A download of transactions has the range that its download is counted by.
LEMMA TransactionsHaveRange ==
    state \in SyncState /\ state.phase = "transactions"
        => state.from \in Sequence /\ state.to \in Sequence
BY DEF SyncState

\* Nothing is pending at the start.
LEMMA InitInv == Init => SyncInv
<1> SUFFICES ASSUME Init PROVE SyncInv
  OBVIOUS
<1>1. TypeOK
  BY PhaseType, LimitAssumption DEF Init, TypeOK
<1>2. PhaseHasWork
  BY PhaseType DEF Init, PhaseHasWork
<1>3. PendingSnapshots = {} /\ PendingTransactions = {}
  BY DEF Init, PendingSnapshots, PendingTransactions
<1>4. RequestsBounded
  BY <1>3, FS_EmptySet, LimitAssumption DEF RequestsBounded
<1> QED
  BY <1>1, <1>2, <1>4 DEF SyncInv

\* Starting the download of a snapshot takes at most one request, below the
\* limit.
LEMMA StartSnapshotInv ==
    ASSUME SyncInv, NEW n \in Sequence, StartSnapshotDownload(n)
    PROVE  SyncInv'
<1> USE DEF SyncInv
<1>1. state' \in SyncState /\ state'.phase = "snapshot"
  BY PhaseType DEF StartSnapshotDownload
<1>2. snapshotRequests' \in [Sequence -> (0 .. RetryLimit) \cup {None}]
  BY LimitAssumption DEF StartSnapshotDownload, TypeOK
<1>3. TypeOK'
  BY <1>1, <1>2 DEF StartSnapshotDownload, TypeOK
<1>4. PhaseHasWork'
  BY <1>1 DEF PhaseHasWork
<1>5. PendingTransactions' = PendingTransactions
  BY DEF StartSnapshotDownload, PendingTransactions
<1>6. \/ PendingSnapshots' \subseteq PendingSnapshots
      \/ /\ PendingSnapshots' \subseteq PendingSnapshots \cup {n}
         /\ ~(Cardinality(PendingSnapshots) >= MaxRequests)
  BY DEF StartSnapshotDownload, PendingSnapshots, TypeOK
<1>7. Cardinality(PendingSnapshots) \in Nat
  BY PendingFinite, FS_CardinalityType
<1>8. Cardinality(PendingSnapshots') <= MaxRequests
  <2> DEFINE S == PendingSnapshots
             T == PendingSnapshots'
  <2>1. T \subseteq S \/ (T \subseteq S \cup {n} /\ Cardinality(S) < MaxRequests)
    BY <1>6, <1>7, LimitAssumption
  <2>2. IsFiniteSet(S) /\ Cardinality(S) <= MaxRequests /\ MaxRequests \in Nat
    BY PendingFinite, LimitAssumption DEF RequestsBounded
  <2> HIDE DEF S, T
  <2>3. Cardinality(T) <= MaxRequests
    BY <2>1, <2>2, StaysWithin
  <2> QED
    BY <2>3 DEF T
<1> QED
  BY <1>3, <1>4, <1>5, <1>8 DEF RequestsBounded

\* A snapshot that arrives is stored for the verification it is handed to.
LEMMA HandleSnapshotInv ==
    ASSUME SyncInv, NEW n \in Sequence, NEW c \in Content, HandleSnapshot(n, c)
    PROVE  SyncInv'
<1> USE DEF SyncInv
<1> DEFINE v == [sequence |-> n, content |-> c, id |-> answers]
<1>1. state' \in SyncState /\ state'.phase = "verifying" /\ state'.from = n
  BY PhaseType DEF HandleSnapshot
<1>2. /\ snapshotRequests' \in [Sequence -> (0 .. RetryLimit) \cup {None}]
      /\ snapshots' \in [Sequence -> Content \cup {None}]
      /\ snapshots'[n] = c
  BY DEF HandleSnapshot, TypeOK
<1>3. verifying' = verifying \cup {v} /\ answers' \in 0 .. MaxAnswers
  BY LimitAssumption DEF HandleSnapshot, TypeOK
<1>4. v \in [sequence : Sequence, content : Content, id : Nat] /\ v.sequence = n
  BY LimitAssumption DEF TypeOK
<1> HIDE DEF v
<1>5. TypeOK'
  BY <1>1, <1>2, <1>3, <1>4 DEF HandleSnapshot, TypeOK
<1>6. PhaseHasWork'
  BY <1>1, <1>2, <1>3, <1>4, NoneAssumption DEF PhaseHasWork
<1>7. /\ PendingTransactions' = PendingTransactions
      /\ PendingSnapshots' \subseteq PendingSnapshots
  BY DEF HandleSnapshot, PendingSnapshots, PendingTransactions, TypeOK
<1>8. Cardinality(PendingSnapshots') <= MaxRequests
  BY <1>7, PendingFinite, StaysWithin, LimitAssumption DEF RequestsBounded
<1> QED
  BY <1>5, <1>6, <1>7, <1>8 DEF RequestsBounded

\* A verdict takes away the snapshot it is about, and leaves the state as it
\* is only when there was none: then another snapshot is being verified.
LEMMA VerificationInv ==
    ASSUME SyncInv, NEW v \in verifying, CompleteSnapshotVerification(v)
    PROVE  SyncInv'
<1> USE DEF SyncInv
<1> DEFINE n == v.sequence
           c == snapshots[n]
<1>1. n \in Sequence /\ v.content \in Content /\ c \in Content \cup {None}
  BY DEF TypeOK
<1>2. snapshots' = [snapshots EXCEPT ![n] = None] /\ verifying' = verifying \ {v}
  BY DEF CompleteSnapshotVerification
<1>3. \/ state' = Idle
      \/ state' = state /\ c = None
      \/ state' = Phase("synced", n, None)
      \/ state' = Phase("transactions", n, n)
  BY Zenon DEF CompleteSnapshotVerification
<1>4. /\ state' \in SyncState
      /\ state'.phase = "verifying" => state' = state /\ c = None
      /\ state'.phase = "applying" => state' = state /\ c = None
  BY <1>1, <1>3, PhaseType DEF TypeOK
<1>6. snapshots' \in [Sequence -> Content \cup {None}]
  BY <1>1, <1>2 DEF TypeOK
<1>7. UNCHANGED <<snapshotRequests, transactionRequests, next_request_id,
                  downloaded, applying, answers>>
  BY DEF CompleteSnapshotVerification, requestVars
<1>8. TypeOK'
  BY <1>2, <1>4, <1>6, <1>7 DEF TypeOK
<1>9. PhaseHasWork'
  <2>1. CASE state'.phase = "verifying"
    <3>1. state' = state /\ snapshots[n] = None
      BY <1>4, <2>1
    <3>2. PICK w \in verifying : w.sequence = state.from
      BY <2>1, <3>1 DEF PhaseHasWork
    <3>3. state.from # n /\ w # v
      BY <2>1, <3>1, <3>2 DEF PhaseHasWork
    <3>4. state.from \in Sequence
      BY <3>2 DEF TypeOK
    <3>5. snapshots'[state.from] = snapshots[state.from]
      BY <1>1, <1>2, <3>3, <3>4 DEF TypeOK
    <3> QED
      BY <1>2, <2>1, <3>1, <3>2, <3>3, <3>5 DEF PhaseHasWork
  <2>2. CASE state'.phase = "applying"
    BY <1>4, <1>7, <2>2 DEF PhaseHasWork
  <2> QED
    BY <2>1, <2>2 DEF PhaseHasWork
<1>10. /\ PendingTransactions' = PendingTransactions
       /\ PendingSnapshots' = PendingSnapshots
  BY <1>7 DEF PendingSnapshots, PendingTransactions
<1> QED
  BY <1>8, <1>9, <1>10 DEF RequestsBounded

\* Asking for transactions takes at most one request, below the limit.
LEMMA StartTransactionsInv ==
    ASSUME SyncInv, NEW from \in Sequence, NEW to \in Sequence,
           StartTransactionDownload(from, to)
    PROVE  SyncInv'
<1> USE DEF SyncInv
<1> DEFINE r == [from |-> from, to |-> to, retries |-> 0]
           x == next_request_id
           S == PendingTransactions
           T == PendingTransactions'
<1>1. state' \in SyncState /\ state'.phase = "transactions"
  BY PhaseType DEF StartTransactionDownload
<1>2. r \in TransactionRequest
  BY LimitAssumption DEF TransactionRequest
<1>3. x \in Id /\ x + 1 \in 0 .. MaxId
  BY LimitAssumption DEF StartTransactionDownload, TypeOK, Id
<1>4. \/ UNCHANGED <<transactionRequests, next_request_id>>
      \/ /\ ~(Cardinality(S) >= MaxRequests)
         /\ transactionRequests' = [transactionRequests EXCEPT ![x] = r]
         /\ next_request_id' = x + 1
  BY DEF StartTransactionDownload
<1> HIDE DEF r, x
<1>5. /\ transactionRequests' \in [Id -> TransactionRequest \cup {None}]
      /\ next_request_id' \in 0 .. MaxId
  BY <1>2, <1>3, <1>4 DEF TypeOK
<1>6. TypeOK'
  BY <1>1, <1>5 DEF StartTransactionDownload, TypeOK
<1>7. PhaseHasWork'
  BY <1>1 DEF PhaseHasWork
<1>8. PendingSnapshots' = PendingSnapshots
  BY DEF StartTransactionDownload, PendingSnapshots
<1>9. Cardinality(S) \in Nat /\ MaxRequests \in Nat
  BY PendingFinite, FS_CardinalityType, LimitAssumption
<1>10. T \subseteq S \/ (T \subseteq S \cup {x} /\ Cardinality(S) < MaxRequests)
  <2>1. CASE UNCHANGED <<transactionRequests, next_request_id>>
    BY <2>1 DEF PendingTransactions
  <2>2. CASE /\ ~(Cardinality(S) >= MaxRequests)
             /\ transactionRequests' = [transactionRequests EXCEPT ![x] = r]
    <3>1. T \subseteq S \cup {x}
      BY <2>2 DEF PendingTransactions, TypeOK
    <3> QED
      BY <1>9, <2>2, <3>1
  <2> QED
    BY <1>4, <2>1, <2>2
<1>11. IsFiniteSet(S) /\ Cardinality(S) <= MaxRequests
  BY PendingFinite DEF RequestsBounded
<1> HIDE DEF S, T
<1>12. Cardinality(T) <= MaxRequests
  BY <1>9, <1>10, <1>11, StaysWithin
<1> QED
  BY <1>6, <1>7, <1>8, <1>12 DEF RequestsBounded, T

\* Transactions that arrive are kept, or handed out to be applied.
LEMMA HandleTransactionsInv ==
    ASSUME SyncInv, NEW ts \in SUBSET Transaction, HandleTransactions(ts)
    PROVE  SyncInv'
<1> USE DEF SyncInv
<1> DEFINE all == downloaded \cup ts
           a == [to |-> state.to, txs |-> all]
<1>1. \/ /\ state.phase = "transactions"
         /\ Cardinality(all) >= state.to - state.from + 1
         /\ state' = Phase("applying", None, None)
         /\ downloaded' = {}
         /\ applying' = applying \cup {a}
      \/ downloaded' = all /\ UNCHANGED <<state, applying>>
  BY Zenon DEF HandleTransactions
<1>2. all \in SUBSET Transaction
  BY DEF TypeOK
<1>3. answers' \in 0 .. MaxAnswers
  BY LimitAssumption DEF HandleTransactions, TypeOK
<1>4. UNCHANGED <<snapshotRequests, transactionRequests, next_request_id,
                  snapshots, verifying>>
  BY DEF HandleTransactions, requestVars
<1> HIDE DEF all
<1>5. CASE downloaded' = all /\ UNCHANGED <<state, applying>>
  <2>1. TypeOK'
    BY <1>2, <1>3, <1>4, <1>5 DEF TypeOK
  <2>2. PhaseHasWork'
    BY <1>4, <1>5 DEF PhaseHasWork
  <2> QED
    BY <1>4, <2>1, <2>2 DEF RequestsBounded, PendingSnapshots, PendingTransactions
<1>6. CASE /\ state.phase = "transactions"
           /\ state' = Phase("applying", None, None)
           /\ downloaded' = {}
           /\ applying' = applying \cup {a}
  <2>1. state' \in SyncState /\ state'.phase = "applying"
    BY <1>6, PhaseType
  <2>2. state.to \in Sequence
    BY <1>6, TransactionsHaveRange DEF TypeOK
  <2>3. a \in [to : Sequence, txs : SUBSET Transaction]
    BY <1>2, <2>2
  <2> HIDE DEF a
  <2>4. TypeOK'
    BY <1>3, <1>4, <1>6, <2>1, <2>3 DEF TypeOK
  <2>5. PhaseHasWork'
    BY <1>6, <2>1 DEF PhaseHasWork
  <2> QED
    BY <1>4, <2>4, <2>5 DEF RequestsBounded, PendingSnapshots, PendingTransactions
<1> QED
  BY <1>1, <1>5, <1>6

\* Once the transactions of a download are applied the node is synced.
LEMMA ApplicationInv ==
    ASSUME SyncInv, NEW a \in applying, CompleteTransactionApplication(a)
    PROVE  SyncInv'
<1> USE DEF SyncInv
<1>1. a.to \in Sequence
  BY DEF TypeOK
<1>2. state' \in SyncState /\ state'.phase = "synced"
  BY <1>1, PhaseType DEF CompleteTransactionApplication
<1>3. TypeOK'
  BY <1>2 DEF CompleteTransactionApplication, requestVars, TypeOK
<1>4. PhaseHasWork'
  BY <1>2 DEF PhaseHasWork
<1>5. UNCHANGED <<snapshotRequests, transactionRequests>>
  BY DEF CompleteTransactionApplication, requestVars
<1> QED
  BY <1>3, <1>4, <1>5 DEF RequestsBounded, PendingSnapshots, PendingTransactions

\* A reset forgets every request.
LEMMA ResetInv ==
    ASSUME SyncInv, Reset
    PROVE  SyncInv'
<1> USE DEF SyncInv
<1>1. TypeOK'
  BY PhaseType DEF Reset, TypeOK
<1>2. PhaseHasWork'
  BY PhaseType DEF Reset, PhaseHasWork
<1>3. PendingSnapshots' = {} /\ PendingTransactions' = {}
  BY DEF Reset, PendingSnapshots, PendingTransactions
<1> QED
  BY <1>1, <1>2, <1>3, FS_EmptySet, LimitAssumption DEF RequestsBounded

\* A poll counts a retry of each late request or drops it: it adds none, and
\* a request that reached the limit is not retried.
LEMMA TimeoutsInv ==
    ASSUME SyncInv, NEW ns \in SUBSET PendingSnapshots,
           NEW is \in SUBSET PendingTransactions, HandleTimeouts(ns, is)
    PROVE  SyncInv'
<1> USE DEF SyncInv
<1> DEFINE lost == {n \in ns : snapshotRequests[n] >= RetryLimit}
           gone == {i \in is : transactionRequests[i].retries >= RetryLimit}
<1>1. snapshotRequests' =
         [n \in Sequence |->
            IF n \in lost THEN None
            ELSE IF n \in ns THEN snapshotRequests[n] + 1
            ELSE snapshotRequests[n]]
  BY DEF HandleTimeouts
<1>2. transactionRequests' =
         [i \in Id |->
            IF i \in gone THEN None
            ELSE IF i \in is
              THEN [transactionRequests[i] EXCEPT !.retries = @ + 1]
            ELSE transactionRequests[i]]
  BY DEF HandleTimeouts
<1>3. state' = state \/ state' = Idle
  BY DEF HandleTimeouts
<1>4. UNCHANGED <<next_request_id, snapshots, downloaded, verifying,
                  applying, answers>>
  BY DEF HandleTimeouts
<1>5. ASSUME NEW n \in ns \ lost
      PROVE  snapshotRequests[n] + 1 \in 0 .. RetryLimit
  <2>1. n \in Sequence /\ snapshotRequests[n] # None
    BY DEF PendingSnapshots
  <2>2. snapshotRequests[n] \in 0 .. RetryLimit
    BY <2>1 DEF TypeOK
  <2> QED
    BY <2>2, LimitAssumption
<1>6. snapshotRequests' \in [Sequence -> (0 .. RetryLimit) \cup {None}]
  <2> HIDE DEF lost
  <2> QED
    BY <1>1, <1>5 DEF TypeOK
<1>7. ASSUME NEW i \in is \ gone
      PROVE  [transactionRequests[i] EXCEPT !.retries = @ + 1]
                \in TransactionRequest
  <2>1. i \in Id /\ transactionRequests[i] # None
    BY DEF PendingTransactions
  <2>2. transactionRequests[i] \in TransactionRequest
    BY <2>1 DEF TypeOK
  <2>3. transactionRequests[i].retries < RetryLimit
    BY <2>2, LimitAssumption DEF TransactionRequest
  <2> QED
    BY <2>2, <2>3, LimitAssumption DEF TransactionRequest
<1>8. transactionRequests' \in [Id -> TransactionRequest \cup {None}]
  <2> HIDE DEF gone
  <2> QED
    BY <1>2, <1>7 DEF TypeOK
<1>9. TypeOK'
  BY <1>3, <1>4, <1>6, <1>8, PhaseType DEF TypeOK
<1>10. PhaseHasWork'
  BY <1>3, <1>4, PhaseType DEF PhaseHasWork
<1>11. PendingSnapshots' \subseteq PendingSnapshots
  BY <1>1 DEF PendingSnapshots
<1>12. PendingTransactions' \subseteq PendingTransactions
  BY <1>2 DEF PendingTransactions
<1>13. Cardinality(PendingSnapshots') <= MaxRequests
  BY <1>11, PendingFinite, StaysWithin, LimitAssumption DEF RequestsBounded
<1>14. Cardinality(PendingTransactions') <= MaxRequests
  BY <1>12, PendingFinite, StaysWithin, LimitAssumption DEF RequestsBounded
<1> QED
  BY <1>9, <1>10, <1>13, <1>14 DEF RequestsBounded

\* Every step of StateSync, and every stutter, keeps the invariant.
LEMMA StepInv == SyncInv /\ [Next]_vars => SyncInv'
<1> SUFFICES ASSUME SyncInv, [Next]_vars PROVE SyncInv'
  OBVIOUS
<1>1. ASSUME NEW n \in Sequence, StartSnapshotDownload(n) PROVE SyncInv'
  BY <1>1, StartSnapshotInv
<1>2. ASSUME NEW n \in Sequence, NEW c \in Content, HandleSnapshot(n, c)
      PROVE  SyncInv'
  BY <1>2, HandleSnapshotInv
<1>3. ASSUME NEW n \in Sequence, NEW m \in Sequence,
             StartTransactionDownload(n, m)
      PROVE  SyncInv'
  BY <1>3, StartTransactionsInv
<1>4. ASSUME NEW n \in Sequence, SnapshotLate(n) PROVE SyncInv'
  BY <1>4, TimeoutsInv DEF SnapshotLate
<1>5. ASSUME NEW v \in verifying, CompleteSnapshotVerification(v) PROVE SyncInv'
  BY <1>5, VerificationInv
<1>6. ASSUME NEW ts \in SUBSET Transaction, HandleTransactions(ts) PROVE SyncInv'
  BY <1>6, HandleTransactionsInv
<1>7. ASSUME NEW i \in Id, TransactionsLate(i) PROVE SyncInv'
  BY <1>7, TimeoutsInv DEF TransactionsLate
<1>8. ASSUME NEW a \in applying, CompleteTransactionApplication(a)
      PROVE  SyncInv'
  BY <1>8, ApplicationInv
<1>9. CASE Reset
  BY <1>9, ResetInv
<1>10. CASE UNCHANGED vars
  BY <1>10 DEF vars, SyncInv, TypeOK, PhaseHasWork, RequestsBounded,
               PendingSnapshots, PendingTransactions
<1> QED
  BY <1>1, <1>2, <1>3, <1>4, <1>5, <1>6, <1>7, <1>8, <1>9, <1>10 DEF Next

-----------------------------------------------------------------------------
\* The invariant holds in every state StateSync can reach.
THEOREM SyncInvariant == Safe => []SyncInv
<1>1. Init => SyncInv
  BY InitInv
<1>2. SyncInv /\ [Next]_vars => SyncInv'
  BY StepInv
<1> QED
  BY <1>1, <1>2, PTL DEF Safe

\* Every field keeps its type; no request is retried more than RetryLimit
\* times.
THEOREM SyncTypes == Safe => []TypeOK
<1>1. SyncInv => TypeOK
  BY DEF SyncInv
<1> QED
  BY <1>1, SyncInvariant, PTL

\* StateSync says that it verifies or applies only while its caller has that
\* work to report and the snapshot to verify is there.
THEOREM SyncWaitsForWork == Safe => []PhaseHasWork
<1>1. SyncInv => PhaseHasWork
  BY DEF SyncInv
<1> QED
  BY <1>1, SyncInvariant, PTL

\* There are never more requests of a kind pending than
\* max_concurrent_requests.
THEOREM SyncRequestsBounded == Safe => []RequestsBounded
<1>1. SyncInv => RequestsBounded
  BY DEF SyncInv
<1> QED
  BY <1>1, SyncInvariant, PTL
=============================================================================

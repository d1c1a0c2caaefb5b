------------------------------- MODULE StateSync -------------------------------
(***************************************************************************)
(* StateSync: a node catches up by downloading a snapshot, having it       *)
(* verified, and downloading and applying the transactions it lists.       *)
(*                                                                         *)
(* StateSync does no input or output.  Its caller sends the requests it    *)
(* records, feeds it the answers and the time, and carries out the         *)
(* SyncActions it returns.  `verifying` and `applying` are the actions the *)
(* caller has not reported back yet.  Answers are not held against         *)
(* requests: they come late, more than once, never, or to a request that   *)
(* nobody made.                                                            *)
(***************************************************************************)
EXTENDS Naturals, FiniteSets

CONSTANTS
    Sequence,        \* sequence numbers of snapshots and transactions
    Content,         \* what peers answer for a snapshot of one sequence
    Valid,           \* the contents that pass the caller's verification
    Transaction,     \* transactions, by digest
    Listed,          \* the transactions a content lists
    None,
    MaxRequests,     \* max_concurrent_requests (10)
    RetryLimit,      \* retries before a request is given up (3)
    MaxId,           \* bound: transaction requests ever made
    MaxAnswers       \* bound: answers that ever arrive

ASSUME SequenceAssumption ==
          Sequence \in SUBSET Nat /\ IsFiniteSet(Sequence)
ASSUME ContentAssumption ==
          Valid \subseteq Content /\ Listed \in [Content -> SUBSET Transaction]
ASSUME LimitAssumption ==
          /\ MaxRequests \in Nat \ {0} /\ RetryLimit \in Nat
          /\ MaxId \in Nat /\ MaxAnswers \in Nat

VARIABLES
    state,                 \* SyncState
    snapshotRequests,      \* pending_snapshot_requests: retries, or None
    transactionRequests,   \* pending_transaction_requests by id, or None
    next_request_id,
    snapshots,             \* pending_snapshots: the content, or None
    downloaded,            \* downloaded_transactions
    verifying,             \* VerifySnapshot actions not reported back
    applying,              \* ApplyTransactions actions not reported back
    answers                \* answers that have arrived

vars == <<state, snapshotRequests, transactionRequests, next_request_id,
          snapshots, downloaded, verifying, applying, answers>>

requestVars == <<snapshotRequests, transactionRequests, next_request_id>>

Id == 0 .. (MaxId - 1)

\* The fields of a state that its phase does not use are left at None.
SyncState ==
    [phase : {"idle", "applying"}, from : {None}, to : {None}]
    \cup [phase : {"snapshot", "verifying", "synced"}, from : Sequence, to : {None}]
    \cup [phase : {"transactions"}, from : Sequence, to : Sequence]

Phase(phase, from, to) == [phase |-> phase, from |-> from, to |-> to]

Idle == Phase("idle", None, None)

IsSyncing == state.phase \notin {"idle", "synced"}

TransactionRequest ==
    [from : Sequence, to : Sequence, retries : 0 .. RetryLimit]

ASSUME NoneAssumption == None \notin Content \cup Nat \cup TransactionRequest

PendingSnapshots == {n \in Sequence : snapshotRequests[n] # None}

PendingTransactions == {i \in Id : transactionRequests[i] # None}

Init ==
    /\ state = Idle
    /\ snapshotRequests = [n \in Sequence |-> None]
    /\ transactionRequests = [i \in Id |-> None]
    /\ next_request_id = 0
    /\ snapshots = [n \in Sequence |-> None]
    /\ downloaded = {}
    /\ verifying = {}
    /\ applying = {}
    /\ answers = 0

-----------------------------------------------------------------------------
\* The state is set first; a refused request leaves it set.
StartSnapshotDownload(n) ==
    /\ ~IsSyncing
    /\ state' = Phase("snapshot", n, None)
    /\ IF Cardinality(PendingSnapshots) >= MaxRequests
         THEN UNCHANGED snapshotRequests
         ELSE snapshotRequests' = [snapshotRequests EXCEPT ![n] = 0]
    /\ UNCHANGED <<transactionRequests, next_request_id, snapshots, downloaded,
                   verifying, applying, answers>>

\* Whether or not a request for it is pending or was ever made, and whatever the
\* state is.
HandleSnapshot(n, c) ==
    /\ answers < MaxAnswers
    /\ answers' = answers + 1
    /\ snapshotRequests' = [snapshotRequests EXCEPT ![n] = None]
    /\ snapshots' = [snapshots EXCEPT ![n] = c]
    /\ state' = Phase("verifying", n, None)
    /\ verifying' = verifying \cup
                     {[sequence |-> n, content |-> c, id |-> answers]}
    /\ UNCHANGED <<transactionRequests, next_request_id, downloaded, applying>>

\* Variant: a snapshot that fails verification leaves the state alone.
VerificationIgnored(v) ==
    LET n == v.sequence
        c == snapshots[n]
    IN  /\ v \in verifying
        /\ verifying' = verifying \ {v}
        /\ snapshots' = [snapshots EXCEPT ![n] = None]
        /\ state' = IF v.content \in Valid /\ c # None
                      THEN IF Listed[c] \subseteq downloaded
                             THEN Phase("synced", n, None)
                             ELSE Phase("transactions", n, n)
                      ELSE state
        /\ UNCHANGED <<requestVars, downloaded, applying, answers>>

\* The caller reports the verification of one snapshot.
CompleteSnapshotVerification(v) ==
    LET n == v.sequence
        c == snapshots[n]
    IN  /\ v \in verifying
        /\ verifying' = verifying \ {v}
        /\ snapshots' = [snapshots EXCEPT ![n] = None]
        /\ state' = CASE v.content \notin Valid -> Idle
                      [] v.content \in Valid /\ c = None -> state
                      [] v.content \in Valid /\ c # None ->
                           IF Listed[c] \subseteq downloaded
                             THEN Phase("synced", n, None)
                             ELSE Phase("transactions", n, n)
        /\ UNCHANGED <<requestVars, downloaded, applying, answers>>

\* Variant: one request more than the limit allows.
StartOneTooMany(from, to) ==
    /\ from <= to
    /\ next_request_id < MaxId
    /\ Cardinality(PendingTransactions) <= MaxRequests
    /\ state' = Phase("transactions", from, to)
    /\ transactionRequests' = [transactionRequests EXCEPT ![next_request_id] =
                                 [from |-> from, to |-> to, retries |-> 0]]
    /\ next_request_id' = next_request_id + 1
    /\ UNCHANGED <<snapshotRequests, snapshots, downloaded, verifying,
                   applying, answers>>

\* From any state; the state is set first here too.
StartTransactionDownload(from, to) ==
    /\ from <= to
    /\ next_request_id < MaxId
    /\ state' = Phase("transactions", from, to)
    /\ IF Cardinality(PendingTransactions) >= MaxRequests
         THEN UNCHANGED <<transactionRequests, next_request_id>>
         ELSE /\ transactionRequests' =
                    [transactionRequests EXCEPT ![next_request_id] =
                       [from |-> from, to |-> to, retries |-> 0]]
              /\ next_request_id' = next_request_id + 1
    /\ UNCHANGED <<snapshotRequests, snapshots, downloaded, verifying,
                   applying, answers>>

\* A peer sends the transactions ts, asked or not.  Requests stay pending; enough
\* transactions, whichever they are, end the download.
HandleTransactions(ts) ==
    LET all == downloaded \cup ts
        enough == /\ state.phase = "transactions"
                  /\ Cardinality(all) >= state.to - state.from + 1
    IN  /\ answers < MaxAnswers
        /\ answers' = answers + 1
        /\ IF enough
             THEN /\ state' = Phase("applying", None, None)
                  /\ downloaded' = {}
                  /\ applying' = applying \cup {[to |-> state.to, txs |-> all]}
             ELSE /\ downloaded' = all
                  /\ UNCHANGED <<state, applying>>
        /\ UNCHANGED <<requestVars, snapshots, verifying>>

\* The caller has applied the transactions of one download.
CompleteTransactionApplication(a) ==
    /\ a \in applying
    /\ applying' = applying \ {a}
    /\ state' = Phase("synced", a.to, None)
    /\ UNCHANGED <<requestVars, snapshots, downloaded, verifying, answers>>

Reset ==
    /\ state' = Idle
    /\ snapshotRequests' = [n \in Sequence |-> None]
    /\ transactionRequests' = [i \in Id |-> None]
    /\ snapshots' = [n \in Sequence |-> None]
    /\ downloaded' = {}
    /\ UNCHANGED <<next_request_id, verifying, applying, answers>>

\* Variant: one retry more than RetryLimit.
RetryOnceMore(ns, is) ==
    /\ ns \subseteq PendingSnapshots
    /\ is \subseteq PendingTransactions
    /\ ns # {} \/ is # {}
    /\ snapshotRequests' =
          [n \in Sequence |->
             IF n \notin ns THEN snapshotRequests[n]
             ELSE IF snapshotRequests[n] > RetryLimit THEN None
             ELSE snapshotRequests[n] + 1]
    /\ UNCHANGED <<state, transactionRequests, next_request_id, snapshots,
                   downloaded, verifying, applying, answers>>

\* Variant: a retried request is put back without counting the retry.
RetryUncounted(ns, is) ==
    /\ ns \subseteq PendingSnapshots
    /\ is \subseteq PendingTransactions
    /\ ns # {} \/ is # {}
    /\ UNCHANGED vars

\* handle_timeouts finds the requests of `ns` and `is` late.
HandleTimeouts(ns, is) ==
    LET lost == {n \in ns : snapshotRequests[n] >= RetryLimit}
        gone == {i \in is : transactionRequests[i].retries >= RetryLimit}
    IN  /\ ns \subseteq PendingSnapshots
        /\ is \subseteq PendingTransactions
        /\ ns # {} \/ is # {}
        /\ snapshotRequests' =
              [n \in Sequence |->
                 IF n \in lost THEN None
                 ELSE IF n \in ns THEN snapshotRequests[n] + 1
                 ELSE snapshotRequests[n]]
        /\ transactionRequests' =
              [i \in Id |->
                 IF i \in gone THEN None
                 ELSE IF i \in is
                   THEN [transactionRequests[i] EXCEPT !.retries = @ + 1]
                 ELSE transactionRequests[i]]
        /\ state' = IF lost \cup gone = {} THEN state ELSE Idle
        /\ UNCHANGED <<next_request_id, snapshots, downloaded, verifying,
                       applying, answers>>

\* A poll that finds the request for snapshot n late, perhaps with others.
SnapshotLate(n) ==
    \E ns \in SUBSET PendingSnapshots, is \in SUBSET PendingTransactions :
       n \in ns /\ HandleTimeouts(ns, is)

TransactionsLate(i) ==
    \E ns \in SUBSET PendingSnapshots, is \in SUBSET PendingTransactions :
       i \in is /\ HandleTimeouts(ns, is)

Next ==
    \/ \E n \in Sequence :
          \/ StartSnapshotDownload(n)
          \/ \E c \in Content : HandleSnapshot(n, c)
          \/ \E m \in Sequence : StartTransactionDownload(n, m)
          \/ SnapshotLate(n)
    \/ \E v \in verifying : CompleteSnapshotVerification(v)
    \/ \E ts \in SUBSET Transaction : HandleTransactions(ts)
    \/ \E i \in Id : TransactionsLate(i)
    \/ \E a \in applying : CompleteTransactionApplication(a)
    \/ Reset

Safe == Init /\ [][Next]_vars

(***************************************************************************)
(* The caller polls handle_timeouts, so a request that stays pending is    *)
(* found late again and again.  Nothing obliges a peer to answer, nor the  *)
(* caller to start another download.                                       *)
(***************************************************************************)
Spec ==
    /\ Safe
    /\ \A n \in Sequence : WF_vars(SnapshotLate(n))
    /\ \A i \in Id : WF_vars(TransactionsLate(i))

-----------------------------------------------------------------------------
TypeOK ==
    /\ state \in SyncState
    /\ snapshotRequests \in [Sequence -> (0 .. RetryLimit) \cup {None}]
    /\ transactionRequests \in [Id -> TransactionRequest \cup {None}]
    /\ next_request_id \in 0 .. MaxId
    /\ snapshots \in [Sequence -> Content \cup {None}]
    /\ downloaded \subseteq Transaction
    /\ verifying \subseteq [sequence : Sequence, content : Content, id : Nat]
    /\ applying \subseteq [to : Sequence, txs : SUBSET Transaction]
    /\ answers \in 0 .. MaxAnswers

\* While it says it verifies or applies, StateSync waits for a report of the
\* caller that can still come, and the snapshot to verify is still there.
PhaseHasWork ==
    /\ state.phase = "verifying" =>
          /\ snapshots[state.from] # None
          /\ \E v \in verifying : v.sequence = state.from
    /\ state.phase = "applying" => applying # {}

\* Starts, retries and late answers together never have more requests
\* pending than max_concurrent_requests.
RequestsBounded ==
    /\ Cardinality(PendingSnapshots) <= MaxRequests
    /\ Cardinality(PendingTransactions) <= MaxRequests

\* Every transaction request ends, given up after its retries if nothing else
\* ends it; a snapshot request does too, unless its download is started over
\* and over, which forgets the retries it has had.
RequestsEnd ==
    /\ \A i \in Id :
          i \in PendingTransactions ~> i \notin PendingTransactions
    /\ \A n \in Sequence :
          \/ n \in PendingSnapshots ~> n \notin PendingSnapshots
          \/ []<><<StartSnapshotDownload(n)>>_vars

-----------------------------------------------------------------------------
(* What the documentation says and the code does not do. *)

\* "Apply a verified snapshot": when the caller reports a snapshot as valid,
\* the one that is handed back to be applied has passed verification.  A second
\* answer for the same sequence replaces the first while it is being verified.
AppliesVerified ==
    [][\A v \in verifying \ verifying' :
          v.content \in Valid => snapshots[v.sequence] \in Valid \cup {None}]_vars
=============================================================================

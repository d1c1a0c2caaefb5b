----------------------------- MODULE ErrorRecovery -----------------------------
(***************************************************************************)
(* ErrorRecoveryManager: how often a peer has failed, and how long to wait *)
(* for it.  Each handler is one critical section of one lock;              *)
(* reset_error_count holds the lock of the counts while it takes the other. *)
(*                                                                         *)
(* The limiter that handle_throttle makes is read by nothing, and the time *)
(* of the last backoff only by is_ready_to_retry, which the manager does   *)
(* not call: both are left out.  Delays are in a unit that makes the       *)
(* jitter of the smallest of them two units wide.                          *)
(***************************************************************************)
EXTENDS Integers

CONSTANTS
    Peer, Thread, None,
    MaxErrorsBeforeBan,
    InitialDelay, MaxDelay     \* 1 s and 5 min

ASSUME DelayAssumption ==
          /\ InitialDelay \in Nat /\ InitialDelay >= 10
          /\ MaxDelay \in Nat /\ MaxDelay >= InitialDelay
ASSUME BanAssumption == MaxErrorsBeforeBan \in Nat
ASSUME NoneAssumption == None \notin Thread

VARIABLES
    attempts,        \* attempt of the peer's ExponentialBackoff
    error_counts,
    countsHeld,      \* the thread that holds error_counts over a step, or None
    lastDelay,       \* history: the delay granted last since the reset, 0 for none
    reconnects       \* history: reconnections granted since the reset

recoveryVars == <<attempts, error_counts, countsHeld, lastDelay, reconnects>>

RecoveryTypeOK ==
    /\ attempts \in [Peer -> Nat]
    /\ error_counts \in [Peer -> Nat]
    /\ countsHeld \in Thread \cup {None}
    /\ lastDelay \in [Peer -> Nat]
    /\ reconnects \in [Peer -> Nat]

RecoveryInit ==
    /\ attempts = [p \in Peer |-> 0]
    /\ error_counts = [p \in Peer |-> 0]
    /\ countsHeld = None
    /\ lastDelay = [p \in Peer |-> 0]
    /\ reconnects = [p \in Peer |-> 0]

\* initial_delay * 2^attempt, at most max_delay.
Delay(attempt) ==
    IF InitialDelay * 2 ^ attempt < MaxDelay THEN InitialDelay * 2 ^ attempt ELSE MaxDelay

\* The delay less half of a tenth, plus the clock modulo that tenth.
Jittered(delay) ==
    LET least == delay - (delay \div 10) \div 2
    IN  {d \in 0 .. MaxDelay + MaxDelay \div 10 : least <= d /\ d < least + delay \div 10}

\* Variant: the attempt is not counted.
HandleBackoffStuck(p, delay) ==
    /\ delay \in Jittered(Delay(attempts[p]))
    /\ lastDelay' = [lastDelay EXCEPT ![p] = delay]
    /\ UNCHANGED <<attempts, error_counts, countsHeld, reconnects>>

HandleExponentialBackoff(p, delay) ==
    /\ delay \in Jittered(Delay(attempts[p]))
    /\ attempts' = [attempts EXCEPT ![p] = @ + 1]
    /\ lastDelay' = [lastDelay EXCEPT ![p] = delay]
    /\ UNCHANGED <<error_counts, countsHeld, reconnects>>

\* Variant: the error that reaches the limit is judged by the count before it.
HandleReconnectLate(p, action) ==
    /\ countsHeld = None
    /\ error_counts' = [error_counts EXCEPT ![p] = @ + 1]
    /\ action = IF error_counts[p] > MaxErrorsBeforeBan THEN "Ban" ELSE "Reconnect"
    /\ reconnects' = [reconnects EXCEPT ![p] = IF action = "Ban" THEN @ ELSE @ + 1]
    /\ UNCHANGED <<attempts, countsHeld, lastDelay>>

HandleReconnect(p, action) ==
    /\ countsHeld = None
    /\ error_counts' = [error_counts EXCEPT ![p] = @ + 1]
    /\ action = IF error_counts'[p] > MaxErrorsBeforeBan THEN "Ban" ELSE "Reconnect"
    /\ reconnects' = [reconnects EXCEPT ![p] = IF action = "Ban" THEN @ ELSE @ + 1]
    /\ UNCHANGED <<attempts, countsHeld, lastDelay>>

\* reset_error_count: the count goes first.
ForgetErrors(t, p) ==
    /\ countsHeld = None
    /\ countsHeld' = t
    /\ error_counts' = [error_counts EXCEPT ![p] = 0]
    /\ reconnects' = [reconnects EXCEPT ![p] = 0]
    /\ UNCHANGED <<attempts, lastDelay>>

\* Variant: the lock of the counts is not given back.
ResetBackoffHolding(p) ==
    /\ attempts' = [attempts EXCEPT ![p] = 0]
    /\ lastDelay' = [lastDelay EXCEPT ![p] = 0]
    /\ UNCHANGED <<error_counts, countsHeld, reconnects>>

ResetBackoff(p) ==
    /\ attempts' = [attempts EXCEPT ![p] = 0]
    /\ lastDelay' = [lastDelay EXCEPT ![p] = 0]
    /\ countsHeld' = None
    /\ UNCHANGED <<error_counts, reconnects>>
=============================================================================

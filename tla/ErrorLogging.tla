------------------------------ MODULE ErrorLogging -----------------------------
(***************************************************************************)
(* ErrorLogger: counters, each an atomic of its own, and the ring of the   *)
(* last entries under a lock.  log_error goes through them one by one.     *)
(***************************************************************************)
EXTENDS Naturals, Sequences, NetworkErrors

CONSTANT MaxHistory  \* max_history_size

ASSUME HistoryAssumption == MaxHistory \in Nat

\* The categories that have a counter.
Counted == {"Connection", "Message", "Peer", "Timeout", "RateLimit", "Critical"}

VARIABLES
    total_errors,
    counters,        \* one for each counted category
    recovered_errors,
    history,
    log,             \* history: every entry there has been
    cleared          \* history: how many there were at the last clear_history

loggingVars == <<total_errors, counters, recovered_errors, history, log, cleared>>

Entry == [error : NetworkError, recovered : BOOLEAN]

LoggingTypeOK ==
    /\ total_errors \in Nat /\ recovered_errors \in Nat
    /\ counters \in [Counted -> Nat]
    /\ history \in Seq(Entry) /\ log \in Seq(Entry) /\ cleared \in Nat

LoggingInit ==
    /\ total_errors = 0 /\ recovered_errors = 0
    /\ counters = [c \in Counted |-> 0]
    /\ history = <<>> /\ log = <<>> /\ cleared = 0

CountTotal ==
    /\ total_errors' = total_errors + 1
    /\ UNCHANGED <<counters, recovered_errors, history, log, cleared>>

\* Variant: an error without a counter is counted with the messages.
CountUnderMessage(e) ==
    /\ counters' = [counters EXCEPT ![IF FromError(e) \in Counted THEN FromError(e)
                                      ELSE "Message"] = @ + 1]
    /\ UNCHANGED <<total_errors, recovered_errors, history, log, cleared>>

CountCategory(e) ==
    /\ counters' = IF FromError(e) \in Counted
                   THEN [counters EXCEPT ![FromError(e)] = @ + 1] ELSE counters
    /\ UNCHANGED <<total_errors, recovered_errors, history, log, cleared>>

CountRecovered(recovered) ==
    /\ recovered_errors' = IF recovered THEN recovered_errors + 1 ELSE recovered_errors
    /\ UNCHANGED <<total_errors, counters, history, log, cleared>>

\* Variant: the ring makes room when it is over its limit, not at it.
PushLate(entry) ==
    /\ history' = Append(IF Len(history) > MaxHistory THEN Tail(history) ELSE history, entry)
    /\ log' = Append(log, entry)
    /\ UNCHANGED <<total_errors, counters, recovered_errors, cleared>>

\* Of an empty ring nothing is dropped, also when the limit is zero.
PushHistory(entry) ==
    /\ history' = Append(IF history # <<>> /\ Len(history) >= MaxHistory
                         THEN Tail(history) ELSE history, entry)
    /\ log' = Append(log, entry)
    /\ UNCHANGED <<total_errors, counters, recovered_errors, cleared>>

ClearHistory ==
    /\ history' = <<>> /\ cleared' = Len(log)
    /\ UNCHANGED <<total_errors, counters, recovered_errors, log>>
=============================================================================

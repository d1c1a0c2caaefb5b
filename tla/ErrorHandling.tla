----------------------------- MODULE ErrorHandling -----------------------------
(***************************************************************************)
(* ComprehensiveErrorHandler: threads that handle errors, with one manager *)
(* and one logger between them.                                            *)
(*                                                                         *)
(* A thread decides on an action, through the manager where the strategy   *)
(* has one, and logs the error with it.  For a critical error with alerts  *)
(* on it logs the error once more before, with what the manager says.      *)
(* The custom handler, which keeps no state here, is left out, and so are  *)
(* the operation and the texts of a context: a context without a peer is   *)
(* that of the peer "unknown".                                             *)
(***************************************************************************)
EXTENDS ErrorRecovery, ErrorLogging, FiniteSets

CONSTANTS
    Errors,          \* the errors that happen
    EnableAlerts,    \* enable_alerts
    MaxErrors        \* bound: errors to handle

ASSUME ErrorsAssumption == Errors \subseteq NetworkError /\ EnableAlerts \in BOOLEAN
ASSUME BoundAssumption == MaxErrors \in Nat
\* A process has so many threads, and no more.
ASSUME ThreadsAssumption == IsFiniteSet(Thread)

VARIABLES
    task,            \* what each thread is doing
    handled          \* errors the threads have begun to handle

vars == <<recoveryVars, loggingVars, task, handled>>

\* alert: the entry being logged is that of send_operator_alert.
Task == [pc : {"idle", "decide", "total", "category", "recovered", "push", "reset"},
         error : NetworkError \cup {None}, peer : Peer \cup {None}, alert : BOOLEAN]

IdleTask == [pc |-> "idle", error |-> None, peer |-> None, alert |-> FALSE]

At(t, pc) == task[t].pc = pc
GoTo(t, pc) == task' = [task EXCEPT ![t].pc = pc]

TypeOK ==
    /\ RecoveryTypeOK /\ LoggingTypeOK
    /\ task \in [Thread -> Task]
    /\ handled \in 0 .. MaxErrors

Init ==
    /\ RecoveryInit /\ LoggingInit
    /\ task = [t \in Thread |-> IdleTask]
    /\ handled = 0

HandleError(t, e, p) ==
    /\ At(t, "idle") /\ handled < MaxErrors
    /\ handled' = handled + 1
    /\ task' = [task EXCEPT ![t] = [pc |-> "decide", error |-> e, peer |-> p, alert |-> FALSE]]
    /\ UNCHANGED <<recoveryVars, loggingVars>>

Strategy(t) == RecoveryStrategy(task[t].error)

\* A strategy that leads to no change of state: Throttle, Retry, WaitAndRetry,
\* FailStartup and Log, and Alert when alerts are off.
DecideAtOnce(t) ==
    /\ At(t, "decide")
    /\ Strategy(t) \notin {"ExponentialBackoff", "Reconnect"}
    /\ ~ (Strategy(t) = "Alert" /\ EnableAlerts)
    /\ GoTo(t, "total")
    /\ UNCHANGED <<recoveryVars, loggingVars, handled>>

\* send_operator_alert, up to its entry in the log.
SendOperatorAlert(t) ==
    /\ At(t, "decide") /\ Strategy(t) = "Alert" /\ EnableAlerts
    /\ task' = [task EXCEPT ![t].pc = "total", ![t].alert = TRUE]
    /\ UNCHANGED <<recoveryVars, loggingVars, handled>>

ScheduleReconnect(t) ==
    /\ At(t, "decide") /\ Strategy(t) = "ExponentialBackoff"
    /\ \E delay \in Jittered(Delay(attempts[task[t].peer])) :
          HandleExponentialBackoff(task[t].peer, delay)
    /\ GoTo(t, "total")
    /\ UNCHANGED <<loggingVars, handled>>

ReconnectOrBan(t) ==
    /\ At(t, "decide") /\ Strategy(t) = "Reconnect"
    /\ \E action \in {"Reconnect", "Ban"} : HandleReconnect(task[t].peer, action)
    /\ GoTo(t, "total")
    /\ UNCHANGED <<loggingVars, handled>>

(***************************************************************************)
(* log_error.                                                              *)
(***************************************************************************)
\* handle_error logs whether the error is recoverable, the alert that it is.
Recovered(t) == task[t].alert \/ IsRecoverable(task[t].error)

LogTotal(t) ==
    /\ At(t, "total") /\ CountTotal
    /\ GoTo(t, "category")
    /\ UNCHANGED <<recoveryVars, handled>>

LogCategory(t) ==
    /\ At(t, "category") /\ CountCategory(task[t].error)
    /\ GoTo(t, "recovered")
    /\ UNCHANGED <<recoveryVars, handled>>

LogRecovered(t) ==
    /\ At(t, "recovered") /\ CountRecovered(Recovered(t))
    /\ GoTo(t, "push")
    /\ UNCHANGED <<recoveryVars, handled>>

\* An alert goes on with the entry of handle_error.
LogEntry(t) ==
    /\ At(t, "push")
    /\ PushHistory([error |-> task[t].error, recovered |-> Recovered(t)])
    /\ task' = [task EXCEPT ![t] = IF @.alert THEN [@ EXCEPT !.pc = "total", !.alert = FALSE]
                                   ELSE IdleTask]
    /\ UNCHANGED <<recoveryVars, handled>>

(***************************************************************************)
(* What callers do beside errors.                                          *)
(***************************************************************************)
ResetErrorCount(t, p) ==
    /\ At(t, "idle") /\ ForgetErrors(t, p)
    /\ task' = [task EXCEPT ![t] = [IdleTask EXCEPT !.pc = "reset", !.peer = p]]
    /\ UNCHANGED <<loggingVars, handled>>

FinishReset(t) ==
    /\ At(t, "reset") /\ ResetBackoff(task[t].peer)
    /\ task' = [task EXCEPT ![t] = IdleTask]
    /\ UNCHANGED <<loggingVars, handled>>

Clear ==
    /\ ClearHistory
    /\ UNCHANGED <<recoveryVars, task, handled>>

Step(t) ==
    \/ DecideAtOnce(t) \/ SendOperatorAlert(t) \/ ScheduleReconnect(t)
    \/ LogTotal(t) \/ LogCategory(t) \/ LogRecovered(t) \/ LogEntry(t)
    \/ FinishReset(t)

Next ==
    \/ \E t \in Thread, e \in Errors, p \in Peer : HandleError(t, e, p)
    \/ \E t \in Thread : Step(t) \/ ReconnectOrBan(t)
    \/ \E t \in Thread, p \in Peer : ResetErrorCount(t, p)
    \/ Clear

\* The scheduler runs every thread.  ReconnectOrBan waits for a lock that others
\* may take again and again: parking_lot hands a lock over to who waits for it
\* (eventual fairness), so a thread that can have it infinitely often gets it.
Fairness ==
    \A t \in Thread : WF_vars(Step(t)) /\ SF_vars(ReconnectOrBan(t))

Spec == Init /\ [][Next]_vars /\ Fairness

(***************************************************************************)
(* Properties.                                                             *)
(***************************************************************************)
Logging(t, pcs) == task[t].pc \in pcs

\* The counters never drift from the entries: each is ahead of the log by the
\* threads between the counter and the log, and by no one else, whatever they
\* interleave with; alerts are counted as the entries they are.
CountersMatchLog ==
    /\ total_errors =
          Len(log) + Cardinality({t \in Thread : Logging(t, {"category", "recovered", "push"})})
    /\ \A c \in Counted :
          counters[c] =
             Cardinality({i \in DOMAIN log : FromError(log[i].error) = c})
             + Cardinality({t \in Thread : Logging(t, {"recovered", "push"})
                                              /\ FromError(task[t].error) = c})
    /\ recovered_errors =
          Cardinality({i \in DOMAIN log : log[i].recovered})
          + Cardinality({t \in Thread : Logging(t, {"push"}) /\ Recovered(t)})

\* The ring holds the newest entries since it was cleared, in order, as many as
\* its limit allows, and one even when the limit is zero.
HistoryIsNewest ==
    LET limit == IF MaxHistory = 0 THEN 1 ELSE MaxHistory
        since == Len(log) - cleared
    IN  /\ Len(history) = IF since < limit THEN since ELSE limit
        /\ history = SubSeq(log, Len(log) - Len(history) + 1, Len(log))

\* Until it is reset, a peer that fails again waits longer than before, until
\* the delays have come to the cap: jitter and resets that take two locks do
\* not turn the order round.
BackoffGrows ==
    [][\A p \in Peer :
          lastDelay[p] # 0 /\ lastDelay'[p] \notin {0, lastDelay[p]} =>
             \/ lastDelay'[p] > lastDelay[p]
             \/ lastDelay[p] + MaxDelay \div 10 > MaxDelay]_vars

\* Between two resets a peer is granted no more reconnections than
\* max_errors_before_ban, from whatever threads its errors come.
ReconnectsBounded == \A p \in Peer : reconnects[p] <= MaxErrorsBeforeBan

\* Every error that a thread begins to handle is handled, and every reset ends,
\* whoever holds the locks in between.
HandleReturns == \A t \in Thread : ~ At(t, "idle") ~> At(t, "idle")
=============================================================================

--------------------------- MODULE ErrorHandlingProofs --------------------------
(***************************************************************************)
(* What holds of ErrorHandling for any peers, threads, limits and errors:  *)
(* its types, the bound on reconnections, the counters and the ring.       *)
(***************************************************************************)
EXTENDS ErrorHandling, SequenceTheorems, FiniteSetTheorems, TLAPS

-----------------------------------------------------------------------------
(***************************************************************************)
(* The parts of the state.                                                 *)
(***************************************************************************)
\* A delay with its jitter is a natural number, whatever the delay was.
LEMMA JitteredType ==
  ASSUME NEW delay
  PROVE  Jittered(delay) \subseteq Nat
<1>1. 0 .. MaxDelay + MaxDelay \div 10 \subseteq Nat
  OBVIOUS
<1>. QED
  BY <1>1 DEF Jittered

LEMMA RecoveryInitType ==
  RecoveryInit => RecoveryTypeOK
BY DEF RecoveryInit, RecoveryTypeOK

LEMMA BackoffType ==
  ASSUME RecoveryTypeOK, NEW p \in Peer,
         NEW delay \in Jittered(Delay(attempts[p])), HandleExponentialBackoff(p, delay)
  PROVE  RecoveryTypeOK'
<1>1. delay \in Nat
  BY JitteredType
<1>2. attempts[p] + 1 \in Nat
  BY DEF RecoveryTypeOK
<1>. QED
  BY <1>1, <1>2 DEF HandleExponentialBackoff, RecoveryTypeOK

LEMMA ReconnectType ==
  ASSUME RecoveryTypeOK, NEW p \in Peer, NEW action, HandleReconnect(p, action)
  PROVE  RecoveryTypeOK'
<1>1. error_counts[p] + 1 \in Nat /\ reconnects[p] + 1 \in Nat
  BY DEF RecoveryTypeOK
<1>2. (IF action = "Ban" THEN reconnects[p] ELSE reconnects[p] + 1) \in Nat
  BY <1>1 DEF RecoveryTypeOK
<1>. QED
  BY <1>1, <1>2 DEF HandleReconnect, RecoveryTypeOK

LEMMA ForgetType ==
  ASSUME RecoveryTypeOK, NEW t \in Thread, NEW p \in Peer, ForgetErrors(t, p)
  PROVE  RecoveryTypeOK'
BY DEF ForgetErrors, RecoveryTypeOK

LEMMA ResetType ==
  ASSUME RecoveryTypeOK, NEW p, ResetBackoff(p)
  PROVE  RecoveryTypeOK'
BY DEF ResetBackoff, RecoveryTypeOK

LEMMA RecoveryKept ==
  ASSUME RecoveryTypeOK, UNCHANGED recoveryVars
  PROVE  RecoveryTypeOK'
BY DEF recoveryVars, RecoveryTypeOK

LEMMA LoggingInitType ==
  LoggingInit => LoggingTypeOK
<1>1. <<>> \in Seq(Entry)
  OBVIOUS
<1>. QED
  BY <1>1 DEF LoggingInit, LoggingTypeOK

LEMMA TotalType ==
  ASSUME LoggingTypeOK, CountTotal
  PROVE  LoggingTypeOK'
BY DEF CountTotal, LoggingTypeOK

LEMMA CategoryType ==
  ASSUME LoggingTypeOK, NEW e, CountCategory(e)
  PROVE  LoggingTypeOK'
<1>1. \A c \in Counted : counters[c] + 1 \in Nat
  BY DEF LoggingTypeOK
<1>2. counters' \in [Counted -> Nat]
  <2>1. CASE FromError(e) \in Counted
    BY <1>1, <2>1 DEF CountCategory, LoggingTypeOK
  <2>2. CASE FromError(e) \notin Counted
    BY <2>2 DEF CountCategory, LoggingTypeOK
  <2>. QED
    BY <2>1, <2>2
<1>. QED
  BY <1>2 DEF CountCategory, LoggingTypeOK

LEMMA RecoveredType ==
  ASSUME LoggingTypeOK, NEW recovered, CountRecovered(recovered)
  PROVE  LoggingTypeOK'
BY DEF CountRecovered, LoggingTypeOK

LEMMA PushType ==
  ASSUME LoggingTypeOK, NEW entry \in Entry, PushHistory(entry)
  PROVE  LoggingTypeOK'
<1>1. history \in Seq(Entry) /\ log \in Seq(Entry)
  BY DEF LoggingTypeOK
<1>2. history # <<>> => Tail(history) \in Seq(Entry)
  BY <1>1
<1>3. \A s \in Seq(Entry) : Append(s, entry) \in Seq(Entry)
  OBVIOUS
<1>4. history' \in Seq(Entry) /\ log' \in Seq(Entry)
  BY <1>1, <1>2, <1>3 DEF PushHistory
<1>. QED
  BY <1>4 DEF PushHistory, LoggingTypeOK

LEMMA ClearType ==
  ASSUME LoggingTypeOK, ClearHistory
  PROVE  LoggingTypeOK'
<1>1. Len(log) \in Nat /\ <<>> \in Seq(Entry)
  BY DEF LoggingTypeOK
<1>. QED
  BY <1>1 DEF ClearHistory, LoggingTypeOK

LEMMA LoggingKept ==
  ASSUME LoggingTypeOK, UNCHANGED loggingVars
  PROVE  LoggingTypeOK'
BY DEF loggingVars, LoggingTypeOK

-----------------------------------------------------------------------------
(***************************************************************************)
(* The inductive invariant.  A thread at work has the peer it works for,   *)
(* and the error unless it resets a count; every reconnection since a      *)
(* reset was counted as an error before it was granted.                    *)
(***************************************************************************)
TasksSound ==
    \A t \in Thread :
       /\ task[t].pc # "idle" => task[t].peer \in Peer
       /\ task[t].pc \notin {"idle", "reset"} => task[t].error \in NetworkError

ReconnectsCounted ==
    \A p \in Peer : reconnects[p] <= error_counts[p] /\ reconnects[p] <= MaxErrorsBeforeBan

TasksType == task \in [Thread -> Task] /\ handled \in 0 .. MaxErrors

IInv == TypeOK /\ TasksSound /\ ReconnectsCounted

\* A thread that gets a sound task keeps the tasks sound.
LEMMA TaskStep ==
  ASSUME TasksType, TasksSound, NEW t \in Thread, NEW new \in Task,
         new.pc # "idle" => new.peer \in Peer,
         new.pc \notin {"idle", "reset"} => new.error \in NetworkError,
         task' = [task EXCEPT ![t] = new], handled' \in 0 .. MaxErrors
  PROVE  TasksType' /\ TasksSound'
<1>1. task' \in [Thread -> Task]
  BY DEF TasksType
<1>2. \A u \in Thread : task'[u] = IF u = t THEN new ELSE task[u]
  BY DEF TasksType
<1>3. TasksSound'
  BY <1>2 DEF TasksSound
<1>. QED
  BY <1>1, <1>3 DEF TasksType

\* A thread that goes on with its task keeps the tasks sound.
LEMMA GoToStep ==
  ASSUME TasksType, TasksSound, NEW t \in Thread,
         NEW pc \in {"total", "category", "recovered", "push"},
         task[t].pc \notin {"idle", "reset"},
         GoTo(t, pc), UNCHANGED handled
  PROVE  TasksType' /\ TasksSound'
<1>. DEFINE new == [task[t] EXCEPT !.pc = pc]
<1>1. task[t] \in Task
  BY DEF TasksType
<1>2. new \in Task /\ new.pc = pc /\ new.peer = task[t].peer /\ new.error = task[t].error
  BY <1>1 DEF Task
<1>3. task' = [task EXCEPT ![t] = new]
  BY DEF GoTo, TasksType
<1>4. task[t].peer \in Peer /\ task[t].error \in NetworkError
  BY DEF TasksSound
<1>5. handled' \in 0 .. MaxErrors
  BY DEF TasksType
<1>. HIDE DEF new
<1>. QED
  BY <1>2, <1>3, <1>4, <1>5, TaskStep

LEMMA IdleTaskType ==
  IdleTask \in Task /\ IdleTask.pc = "idle"
BY DEF IdleTask, Task

LEMMA FinishStep ==
  ASSUME TasksType, TasksSound, NEW t \in Thread,
         task' = [task EXCEPT ![t] = IdleTask], UNCHANGED handled
  PROVE  TasksType' /\ TasksSound'
<1>1. handled' \in 0 .. MaxErrors
  BY DEF TasksType
<1>. QED
  BY <1>1, IdleTaskType, TaskStep

LEMMA CountedKept ==
  ASSUME ReconnectsCounted, UNCHANGED <<error_counts, reconnects>>
  PROVE  ReconnectsCounted'
BY DEF ReconnectsCounted

\* An error is counted before a reconnection is granted, and none is granted
\* beyond the limit.
LEMMA ReconnectCounted ==
  ASSUME RecoveryTypeOK, ReconnectsCounted, NEW p \in Peer, NEW action,
         HandleReconnect(p, action)
  PROVE  ReconnectsCounted'
<1>1. error_counts'[p] = error_counts[p] + 1
  BY DEF HandleReconnect, RecoveryTypeOK
<1>2. reconnects'[p] = IF error_counts[p] + 1 > MaxErrorsBeforeBan
                       THEN reconnects[p] ELSE reconnects[p] + 1
  BY <1>1 DEF HandleReconnect, RecoveryTypeOK
<1>3. reconnects'[p] <= error_counts'[p] /\ reconnects'[p] <= MaxErrorsBeforeBan
  BY <1>1, <1>2, BanAssumption DEF ReconnectsCounted, RecoveryTypeOK
<1>4. \A q \in Peer \ {p} :
         error_counts'[q] = error_counts[q] /\ reconnects'[q] = reconnects[q]
  BY DEF HandleReconnect, RecoveryTypeOK
<1>. QED
  BY <1>3, <1>4 DEF ReconnectsCounted

LEMMA ForgetCounted ==
  ASSUME RecoveryTypeOK, ReconnectsCounted, NEW t \in Thread, NEW p \in Peer,
         ForgetErrors(t, p)
  PROVE  ReconnectsCounted'
<1>1. \A q \in Peer : /\ error_counts'[q] = IF q = p THEN 0 ELSE error_counts[q]
                      /\ reconnects'[q] = IF q = p THEN 0 ELSE reconnects[q]
  BY DEF ForgetErrors, RecoveryTypeOK
<1>. QED
  BY <1>1, BanAssumption DEF ReconnectsCounted

\* What a thread logs is an entry.
LEMMA EntryType ==
  ASSUME TasksType, TasksSound, NEW t \in Thread, At(t, "push")
  PROVE  [error |-> task[t].error, recovered |-> Recovered(t)] \in Entry
<1>1. task[t].error \in NetworkError
  BY DEF TasksSound, At
<1>2. Recovered(t) \in BOOLEAN
  <2>1. CASE Recovered(t)
    BY <2>1, Zenon DEF Recovered
  <2>2. CASE ~ Recovered(t)
    BY <2>2, Zenon DEF Recovered
  <2>. QED
    BY <2>1, <2>2
<1>. HIDE DEF Recovered
<1>. QED
  BY <1>1, <1>2 DEF Entry

-----------------------------------------------------------------------------
LEMMA InitStep ==
  Init => IInv
<1>. SUFFICES ASSUME Init PROVE IInv
  OBVIOUS
<1>1. RecoveryTypeOK /\ LoggingTypeOK
  BY RecoveryInitType, LoggingInitType DEF Init
<1>2. task \in [Thread -> Task] /\ handled \in 0 .. MaxErrors
  BY IdleTaskType, BoundAssumption DEF Init
<1>3. TasksSound
  BY IdleTaskType DEF Init, TasksSound
<1>4. ReconnectsCounted
  <2>1. \A p \in Peer : reconnects[p] = 0 /\ error_counts[p] = 0
    BY DEF Init, RecoveryInit
  <2>2. 0 <= 0 /\ 0 <= MaxErrorsBeforeBan
    BY BanAssumption
  <2>3. ASSUME NEW p \in Peer
        PROVE  reconnects[p] <= error_counts[p] /\ reconnects[p] <= MaxErrorsBeforeBan
    BY <2>1, <2>2
  <2>. QED
    BY <2>3, Zenon DEF ReconnectsCounted
<1>. QED
  BY <1>1, <1>2, <1>3, <1>4 DEF IInv, TypeOK

\* The parts together, as the steps below use them.
LEMMA Parts ==
  IInv <=> RecoveryTypeOK /\ LoggingTypeOK /\ TasksType /\ TasksSound /\ ReconnectsCounted
BY DEF IInv, TypeOK, TasksType

LEMMA PartsNext ==
  IInv' <=> RecoveryTypeOK' /\ LoggingTypeOK' /\ TasksType' /\ TasksSound'
              /\ ReconnectsCounted'
BY DEF IInv, TypeOK, TasksType

LEMMA RecoveryUnchanged ==
  ASSUME RecoveryTypeOK, ReconnectsCounted, UNCHANGED recoveryVars
  PROVE  RecoveryTypeOK' /\ ReconnectsCounted'
<1>1. UNCHANGED <<error_counts, reconnects>>
  BY DEF recoveryVars
<1>. QED
  BY <1>1, RecoveryKept, CountedKept

\* Errors that arrive, decisions, and the steps of log_error.
LEMMA ErrorStep ==
  ASSUME IInv, NEW t \in Thread, NEW e \in Errors, NEW p \in Peer, HandleError(t, e, p)
  PROVE  IInv'
<1>. DEFINE new == [pc |-> "decide", error |-> e, peer |-> p, alert |-> FALSE]
<1>1. e \in NetworkError
  BY ErrorsAssumption
<1>2. new \in Task /\ new.peer \in Peer /\ new.error \in NetworkError
  BY <1>1 DEF Task
<1>3. task' = [task EXCEPT ![t] = new] /\ handled' = handled + 1 /\ handled < MaxErrors
  BY DEF HandleError
<1>4. handled' \in 0 .. MaxErrors
  BY <1>3, BoundAssumption DEF IInv, TypeOK
<1>. HIDE DEF new
<1>5. TasksType' /\ TasksSound'
  BY <1>2, <1>3, <1>4, Parts, TaskStep
<1>6. UNCHANGED recoveryVars /\ UNCHANGED loggingVars
  BY DEF HandleError
<1>. QED
  BY <1>5, <1>6, Parts, PartsNext, RecoveryUnchanged, LoggingKept

LEMMA DecideStep ==
  ASSUME IInv, NEW t \in Thread, DecideAtOnce(t)
  PROVE  IInv'
<1>1. /\ GoTo(t, "total") /\ UNCHANGED handled
      /\ task[t].pc \notin {"idle", "reset"}
      /\ UNCHANGED recoveryVars /\ UNCHANGED loggingVars
  BY DEF DecideAtOnce, At
<1>2. TasksType' /\ TasksSound'
  BY <1>1, Parts, GoToStep
<1>. QED
  BY <1>1, <1>2, Parts, PartsNext, RecoveryUnchanged, LoggingKept

LEMMA AlertStep ==
  ASSUME IInv, NEW t \in Thread, SendOperatorAlert(t)
  PROVE  IInv'
<1>. DEFINE new == [task[t] EXCEPT !.pc = "total", !.alert = TRUE]
<1>1. task[t] \in Task /\ task[t].pc = "decide"
  BY DEF SendOperatorAlert, At, IInv, TypeOK
<1>2. /\ new \in Task /\ new.pc = "total"
      /\ new.peer = task[t].peer /\ new.error = task[t].error
  BY <1>1 DEF Task
<1>3. task[t].peer \in Peer /\ task[t].error \in NetworkError
  BY <1>1 DEF IInv, TasksSound
<1>4. task' = [task EXCEPT ![t] = new]
  BY DEF SendOperatorAlert, IInv, TypeOK
<1>5. handled' \in 0 .. MaxErrors
  BY DEF SendOperatorAlert, IInv, TypeOK
<1>. HIDE DEF new
<1>6. TasksType' /\ TasksSound'
  BY <1>2, <1>3, <1>4, <1>5, Parts, TaskStep
<1>7. UNCHANGED recoveryVars /\ UNCHANGED loggingVars
  BY DEF SendOperatorAlert
<1>. QED
  BY <1>6, <1>7, Parts, PartsNext, RecoveryUnchanged, LoggingKept

LEMMA ScheduleStep ==
  ASSUME IInv, NEW t \in Thread, ScheduleReconnect(t)
  PROVE  IInv'
<1>1. task[t].pc = "decide"
  BY DEF ScheduleReconnect, At
<1>2. task[t].peer \in Peer
  BY <1>1 DEF IInv, TasksSound
<1>3. PICK delay \in Jittered(Delay(attempts[task[t].peer])) :
         HandleExponentialBackoff(task[t].peer, delay)
  BY DEF ScheduleReconnect
<1>4. RecoveryTypeOK'
  BY <1>2, <1>3, Parts, BackoffType
<1>5. ReconnectsCounted'
  BY <1>3, Parts, CountedKept DEF HandleExponentialBackoff
<1>6. GoTo(t, "total") /\ UNCHANGED handled /\ UNCHANGED loggingVars
  BY DEF ScheduleReconnect
<1>7. TasksType' /\ TasksSound'
  BY <1>1, <1>6, Parts, GoToStep
<1>. QED
  BY <1>4, <1>5, <1>6, <1>7, Parts, PartsNext, LoggingKept

LEMMA ReconnectStep ==
  ASSUME IInv, NEW t \in Thread, ReconnectOrBan(t)
  PROVE  IInv'
<1>1. task[t].pc = "decide"
  BY DEF ReconnectOrBan, At
<1>2. task[t].peer \in Peer
  BY <1>1 DEF IInv, TasksSound
<1>3. PICK action \in {"Reconnect", "Ban"} : HandleReconnect(task[t].peer, action)
  BY DEF ReconnectOrBan
<1>4. RecoveryTypeOK' /\ ReconnectsCounted'
  BY <1>2, <1>3, Parts, ReconnectType, ReconnectCounted
<1>5. GoTo(t, "total") /\ UNCHANGED handled /\ UNCHANGED loggingVars
  BY DEF ReconnectOrBan
<1>6. TasksType' /\ TasksSound'
  BY <1>1, <1>5, Parts, GoToStep
<1>. QED
  BY <1>4, <1>5, <1>6, Parts, PartsNext, LoggingKept

LEMMA LogTotalStep ==
  ASSUME IInv, NEW t \in Thread, LogTotal(t)
  PROVE  IInv'
<1>1. /\ task[t].pc \notin {"idle", "reset"} /\ CountTotal /\ GoTo(t, "category")
      /\ UNCHANGED recoveryVars /\ UNCHANGED handled
  BY DEF LogTotal, At
<1>2. TasksType' /\ TasksSound'
  BY <1>1, Parts, GoToStep
<1>. QED
  BY <1>1, <1>2, Parts, PartsNext, RecoveryUnchanged, TotalType

LEMMA LogCategoryStep ==
  ASSUME IInv, NEW t \in Thread, LogCategory(t)
  PROVE  IInv'
<1>1. /\ task[t].pc \notin {"idle", "reset"} /\ CountCategory(task[t].error)
      /\ GoTo(t, "recovered") /\ UNCHANGED recoveryVars /\ UNCHANGED handled
  BY DEF LogCategory, At
<1>2. TasksType' /\ TasksSound'
  BY <1>1, Parts, GoToStep
<1>. QED
  BY <1>1, <1>2, Parts, PartsNext, RecoveryUnchanged, CategoryType

LEMMA LogRecoveredStep ==
  ASSUME IInv, NEW t \in Thread, LogRecovered(t)
  PROVE  IInv'
<1>1. /\ task[t].pc \notin {"idle", "reset"} /\ CountRecovered(Recovered(t))
      /\ GoTo(t, "push") /\ UNCHANGED recoveryVars /\ UNCHANGED handled
  BY DEF LogRecovered, At
<1>2. TasksType' /\ TasksSound'
  BY <1>1, Parts, GoToStep
<1>. QED
  BY <1>1, <1>2, Parts, PartsNext, RecoveryUnchanged, RecoveredType

LEMMA LogEntryStep ==
  ASSUME IInv, NEW t \in Thread, LogEntry(t)
  PROVE  IInv'
<1>1. /\ At(t, "push") /\ UNCHANGED recoveryVars /\ UNCHANGED handled
      /\ PushHistory([error |-> task[t].error, recovered |-> Recovered(t)])
  BY DEF LogEntry
<1>2. LoggingTypeOK'
  BY <1>1, Parts, EntryType, PushType
<1>3. TasksType' /\ TasksSound'
  <2>1. CASE task[t].alert
    <3>. DEFINE new == [task[t] EXCEPT !.pc = "total", !.alert = FALSE]
    <3>1. task[t] \in Task /\ task[t].pc = "push"
      BY <1>1 DEF At, IInv, TypeOK
    <3>2. /\ new \in Task /\ new.pc = "total"
          /\ new.peer = task[t].peer /\ new.error = task[t].error
      BY <3>1 DEF Task
    <3>3. task[t].peer \in Peer /\ task[t].error \in NetworkError
      BY <3>1 DEF IInv, TasksSound
    <3>4. task' = [task EXCEPT ![t] = new]
      BY <2>1 DEF LogEntry, IInv, TypeOK
    <3>5. handled' \in 0 .. MaxErrors
      BY <1>1 DEF IInv, TypeOK
    <3>. HIDE DEF new
    <3>. QED
      BY <3>2, <3>3, <3>4, <3>5, Parts, TaskStep
  <2>2. CASE ~ task[t].alert
    <3>1. task' = [task EXCEPT ![t] = IdleTask]
      BY <2>2 DEF LogEntry, IInv, TypeOK
    <3>. QED
      BY <1>1, <3>1, Parts, FinishStep
  <2>. QED
    BY <2>1, <2>2
<1>. QED
  BY <1>1, <1>2, <1>3, Parts, PartsNext, RecoveryUnchanged

\* Resets, and the history that is cleared.
LEMMA ResetErrorCountStep ==
  ASSUME IInv, NEW t \in Thread, NEW p \in Peer, ResetErrorCount(t, p)
  PROVE  IInv'
<1>. DEFINE new == [IdleTask EXCEPT !.pc = "reset", !.peer = p]
<1>1. new \in Task /\ new.pc = "reset" /\ new.peer \in Peer
  BY DEF IdleTask, Task
<1>2. /\ task' = [task EXCEPT ![t] = new] /\ ForgetErrors(t, p)
      /\ UNCHANGED loggingVars
  BY DEF ResetErrorCount
<1>3. handled' \in 0 .. MaxErrors
  BY DEF ResetErrorCount, IInv, TypeOK
<1>. HIDE DEF new
<1>4. TasksType' /\ TasksSound'
  BY <1>1, <1>2, <1>3, Parts, TaskStep
<1>5. RecoveryTypeOK' /\ ReconnectsCounted'
  BY <1>2, Parts, ForgetType, ForgetCounted
<1>. QED
  BY <1>2, <1>4, <1>5, Parts, PartsNext, LoggingKept

LEMMA FinishResetStep ==
  ASSUME IInv, NEW t \in Thread, FinishReset(t)
  PROVE  IInv'
<1>1. /\ ResetBackoff(task[t].peer) /\ task' = [task EXCEPT ![t] = IdleTask]
      /\ UNCHANGED handled /\ UNCHANGED loggingVars
  BY DEF FinishReset
<1>2. RecoveryTypeOK' /\ ReconnectsCounted'
  BY <1>1, Parts, ResetType, CountedKept DEF ResetBackoff
<1>3. TasksType' /\ TasksSound'
  BY <1>1, Parts, FinishStep
<1>. QED
  BY <1>1, <1>2, <1>3, Parts, PartsNext, LoggingKept

LEMMA TasksKept ==
  ASSUME TasksType, TasksSound, UNCHANGED <<task, handled>>
  PROVE  TasksType' /\ TasksSound'
BY DEF TasksType, TasksSound

LEMMA ClearStep ==
  ASSUME IInv, Clear
  PROVE  IInv'
<1>1. ClearHistory /\ UNCHANGED recoveryVars /\ UNCHANGED <<task, handled>>
  BY DEF Clear
<1>. QED
  BY <1>1, Parts, PartsNext, ClearType, RecoveryUnchanged, TasksKept

LEMMA NextStep ==
  IInv /\ [Next]_vars => IInv'
<1>. SUFFICES ASSUME IInv, [Next]_vars PROVE IInv'
  OBVIOUS
<1>1. ASSUME NEW t \in Thread, NEW e \in Errors, NEW p \in Peer, HandleError(t, e, p)
      PROVE  IInv'
  BY <1>1, ErrorStep
<1>2. ASSUME NEW t \in Thread, Step(t) PROVE IInv'
  BY <1>2, DecideStep, AlertStep, ScheduleStep, LogTotalStep, LogCategoryStep,
     LogRecoveredStep, LogEntryStep, FinishResetStep DEF Step
<1>3. ASSUME NEW t \in Thread, ReconnectOrBan(t) PROVE IInv'
  BY <1>3, ReconnectStep
<1>4. ASSUME NEW t \in Thread, NEW p \in Peer, ResetErrorCount(t, p) PROVE IInv'
  BY <1>4, ResetErrorCountStep
<1>5. CASE Clear
  BY <1>5, ClearStep
<1>6. CASE UNCHANGED vars
  <2>1. /\ UNCHANGED recoveryVars /\ UNCHANGED loggingVars
        /\ UNCHANGED <<task, handled>>
    BY <1>6 DEF vars
  <2>. QED
    BY <2>1, Parts, PartsNext, RecoveryUnchanged, LoggingKept, TasksKept
<1>. QED
  BY <1>1, <1>2, <1>3, <1>4, <1>5, <1>6 DEF Next

-----------------------------------------------------------------------------
(***************************************************************************)
(* The theorems.                                                           *)
(***************************************************************************)
\* Counts, delays, entries and tasks are always of their types, whichever
\* threads handle, reset, log and clear at the same time.
THEOREM TypeCorrect ==
  Spec => []TypeOK
<1>1. IInv => TypeOK
  BY DEF IInv
<1>. QED
  BY InitStep, NextStep, <1>1, PTL DEF Spec

\* handle_reconnect counts and judges an error under one lock: however the errors
\* of a peer are spread over threads, between two resets it is granted at most
\* max_errors_before_ban reconnections.
THEOREM ReconnectionsAreBounded ==
  Spec => []ReconnectsBounded
<1>1. IInv => ReconnectsBounded
  BY DEF IInv, ReconnectsCounted, ReconnectsBounded
<1>. QED
  BY InitStep, NextStep, <1>1, PTL DEF Spec

-----------------------------------------------------------------------------
(***************************************************************************)
(* The counters and the log.  A thread is ahead of the log from the        *)
(* counter it has gone past to the entry it adds; a step moves one thread  *)
(* and one counter together, or one thread and the log.                    *)
(***************************************************************************)
AheadOfTotal == {t \in Thread : Logging(t, {"category", "recovered", "push"})}
AheadOfCategory(c) ==
    {t \in Thread : Logging(t, {"recovered", "push"}) /\ FromError(task[t].error) = c}
AheadOfRecovered == {t \in Thread : Logging(t, {"push"}) /\ Recovered(t)}

LoggedAs(c) == {i \in DOMAIN log : FromError(log[i].error) = c}
LoggedRecovered == {i \in DOMAIN log : log[i].recovered}

LEMMA MatchesBySets ==
  CountersMatchLog <=>
    /\ total_errors = Len(log) + Cardinality(AheadOfTotal)
    /\ \A c \in Counted :
          counters[c] = Cardinality(LoggedAs(c)) + Cardinality(AheadOfCategory(c))
    /\ recovered_errors = Cardinality(LoggedRecovered) + Cardinality(AheadOfRecovered)
BY Zenon DEF CountersMatchLog, AheadOfTotal, AheadOfCategory, AheadOfRecovered, LoggedAs, LoggedRecovered

LEMMA MatchesBySetsNext ==
  CountersMatchLog' <=>
    /\ total_errors' = Len(log') + Cardinality(AheadOfTotal')
    /\ \A c \in Counted :
          counters'[c] = Cardinality(LoggedAs(c)') + Cardinality(AheadOfCategory(c)')
    /\ recovered_errors' = Cardinality(LoggedRecovered') + Cardinality(AheadOfRecovered')
BY Zenon DEF CountersMatchLog, AheadOfTotal, AheadOfCategory, AheadOfRecovered, LoggedAs, LoggedRecovered

\* The sets that are counted are finite.
LEMMA CountsAreNumbers ==
  ASSUME LoggingTypeOK
  PROVE  /\ IsFiniteSet(AheadOfTotal) /\ Cardinality(AheadOfTotal) \in Nat
         /\ IsFiniteSet(AheadOfRecovered) /\ Cardinality(AheadOfRecovered) \in Nat
         /\ IsFiniteSet(LoggedRecovered) /\ Cardinality(LoggedRecovered) \in Nat
         /\ \A c : /\ IsFiniteSet(AheadOfCategory(c)) /\ Cardinality(AheadOfCategory(c)) \in Nat
                   /\ IsFiniteSet(LoggedAs(c)) /\ Cardinality(LoggedAs(c)) \in Nat
<1>1. \A S \in SUBSET Thread : IsFiniteSet(S) /\ Cardinality(S) \in Nat
  BY ThreadsAssumption, FS_Subset, FS_CardinalityType
<1>2. Len(log) \in Nat /\ DOMAIN log = 1 .. Len(log)
  BY LenProperties DEF LoggingTypeOK
<1>3. IsFiniteSet(DOMAIN log)
  BY <1>2, FS_Interval
<1>4. \A S \in SUBSET (DOMAIN log) : IsFiniteSet(S) /\ Cardinality(S) \in Nat
  BY <1>3, FS_Subset, FS_CardinalityType
<1>5. AheadOfTotal \in SUBSET Thread /\ AheadOfRecovered \in SUBSET Thread
  BY DEF AheadOfTotal, AheadOfRecovered
<1>6. LoggedRecovered \in SUBSET (DOMAIN log)
  BY Zenon DEF LoggedRecovered
<1>7. \A c : AheadOfCategory(c) \in SUBSET Thread /\ LoggedAs(c) \in SUBSET (DOMAIN log)
  BY Zenon DEF AheadOfCategory, LoggedAs
<1>. QED
  BY <1>1, <1>4, <1>5, <1>6, <1>7, Zenon

\* What stays the same while the log does.
LEMMA SameLog ==
  ASSUME UNCHANGED log
  PROVE  LoggedRecovered' = LoggedRecovered /\ \A c : LoggedAs(c)' = LoggedAs(c)
BY DEF LoggedRecovered, LoggedAs

\* A thread that is not between a counter and the log, before or after, is
\* ahead of nothing.
LEMMA QuietThread ==
  ASSUME NEW t \in Thread, \A u \in Thread \ {t} : task'[u] = task[u],
         task[t].pc \notin {"category", "recovered", "push"},
         task'[t].pc \notin {"category", "recovered", "push"}
  PROVE  /\ AheadOfTotal' = AheadOfTotal /\ AheadOfRecovered' = AheadOfRecovered
         /\ \A c : AheadOfCategory(c)' = AheadOfCategory(c)
<1>1. \A u \in Thread : u \in AheadOfTotal' <=> u \in AheadOfTotal
  BY DEF AheadOfTotal, Logging
<1>2. \A u \in Thread : u \in AheadOfRecovered' <=> u \in AheadOfRecovered
  <2>1. ASSUME NEW u \in Thread, u # t PROVE u \in AheadOfRecovered' <=> u \in AheadOfRecovered
    BY <2>1, Zenon DEF AheadOfRecovered, Logging, Recovered
  <2>2. t \notin AheadOfRecovered /\ t \notin AheadOfRecovered'
    BY DEF AheadOfRecovered, Logging
  <2>. QED
    BY <2>1, <2>2
<1>3. \A c : \A u \in Thread : u \in AheadOfCategory(c)' <=> u \in AheadOfCategory(c)
  BY DEF AheadOfCategory, Logging
<1>4. /\ AheadOfTotal \subseteq Thread /\ AheadOfTotal' \subseteq Thread
      /\ AheadOfRecovered \subseteq Thread /\ AheadOfRecovered' \subseteq Thread
      /\ \A c : AheadOfCategory(c) \subseteq Thread /\ AheadOfCategory(c)' \subseteq Thread
  BY DEF AheadOfTotal, AheadOfRecovered, AheadOfCategory
<1>. QED
  BY <1>1, <1>2, <1>3, <1>4

LEMMA MatchKept ==
  ASSUME CountersMatchLog, UNCHANGED <<total_errors, counters, recovered_errors, log>>,
         AheadOfTotal' = AheadOfTotal, AheadOfRecovered' = AheadOfRecovered,
         \A c : AheadOfCategory(c)' = AheadOfCategory(c)
  PROVE  CountersMatchLog'
BY MatchesBySets, MatchesBySetsNext, SameLog

LEMMA QuietStep ==
  ASSUME CountersMatchLog, UNCHANGED <<total_errors, counters, recovered_errors, log>>,
         NEW t \in Thread, \A u \in Thread \ {t} : task'[u] = task[u],
         task[t].pc \notin {"category", "recovered", "push"},
         task'[t].pc \notin {"category", "recovered", "push"}
  PROVE  CountersMatchLog'
BY QuietThread, MatchKept

\* A thread away from the entry is not ahead of recovered_errors.
LEMMA RecoveredStay ==
  ASSUME NEW t \in Thread, \A u \in Thread \ {t} : task'[u] = task[u],
         task[t].pc # "push", task'[t].pc # "push"
  PROVE  AheadOfRecovered' = AheadOfRecovered
<1>1. ASSUME NEW u \in Thread, u # t PROVE u \in AheadOfRecovered' <=> u \in AheadOfRecovered
  BY <1>1, Zenon DEF AheadOfRecovered, Logging, Recovered
<1>2. t \notin AheadOfRecovered /\ t \notin AheadOfRecovered'
  BY DEF AheadOfRecovered, Logging
<1>3. AheadOfRecovered' \subseteq Thread /\ AheadOfRecovered \subseteq Thread
  BY DEF AheadOfRecovered
<1>. QED
  BY <1>1, <1>2, <1>3

\* total_errors goes up as a thread goes past it.
LEMMA TotalMatches ==
  ASSUME IInv, CountersMatchLog, NEW t \in Thread, LogTotal(t)
  PROVE  CountersMatchLog'
<1>1. /\ task[t].pc = "total" /\ task'[t] = [task[t] EXCEPT !.pc = "category"]
      /\ \A u \in Thread \ {t} : task'[u] = task[u]
  BY DEF LogTotal, At, GoTo, IInv, TypeOK
<1>2. task[t] \in Task
  BY DEF IInv, TypeOK
<1>3. task'[t].pc = "category"
  BY <1>1, <1>2 DEF Task
<1>4. AheadOfTotal' = AheadOfTotal \cup {t} /\ t \notin AheadOfTotal
  BY <1>1, <1>3 DEF AheadOfTotal, Logging
<1>5. AheadOfRecovered' = AheadOfRecovered
  BY <1>1, <1>3, RecoveredStay
<1>6. \A c : AheadOfCategory(c)' = AheadOfCategory(c)
  BY <1>1, <1>3 DEF AheadOfCategory, Logging
<1>7. /\ total_errors' = total_errors + 1
      /\ UNCHANGED <<counters, recovered_errors, log>>
  BY DEF LogTotal, CountTotal
<1>8. LoggingTypeOK
  BY Parts
<1>9. Cardinality(AheadOfTotal') = Cardinality(AheadOfTotal) + 1
  BY <1>4, <1>8, CountsAreNumbers, FS_AddElement
<1>10. Len(log) \in Nat /\ total_errors \in Nat
  BY <1>8 DEF LoggingTypeOK
<1>11. total_errors' = Len(log') + Cardinality(AheadOfTotal')
  BY <1>7, <1>8, <1>9, <1>10, CountsAreNumbers, MatchesBySets
<1>. QED
  BY <1>5, <1>6, <1>7, <1>11, MatchesBySets, MatchesBySetsNext, SameLog

\* The counter of the category, where it has one, goes up as a thread goes past it.
LEMMA CategoryMatches ==
  ASSUME IInv, CountersMatchLog, NEW t \in Thread, LogCategory(t)
  PROVE  CountersMatchLog'
<1>1. /\ task[t].pc = "category" /\ task'[t] = [task[t] EXCEPT !.pc = "recovered"]
      /\ \A u \in Thread \ {t} : task'[u] = task[u]
  BY DEF LogCategory, At, GoTo, IInv, TypeOK
<1>2. task[t] \in Task
  BY DEF IInv, TypeOK
<1>3. task'[t].pc = "recovered" /\ task'[t].error = task[t].error
  BY <1>1, <1>2 DEF Task
<1>4. AheadOfTotal' = AheadOfTotal
  BY <1>1, <1>3 DEF AheadOfTotal, Logging
<1>5. AheadOfRecovered' = AheadOfRecovered
  BY <1>1, <1>3, RecoveredStay
<1>6. \A c : t \notin AheadOfCategory(c)
  BY <1>1 DEF AheadOfCategory, Logging
<1>7. \A c : AheadOfCategory(c)' = IF c = FromError(task[t].error)
                                    THEN AheadOfCategory(c) \cup {t} ELSE AheadOfCategory(c)
  <2>. SUFFICES ASSUME NEW c
                PROVE  AheadOfCategory(c)' = IF c = FromError(task[t].error)
                          THEN AheadOfCategory(c) \cup {t} ELSE AheadOfCategory(c)
    OBVIOUS
  <2>1. \A u \in Thread : u # t => (u \in AheadOfCategory(c)' <=> u \in AheadOfCategory(c))
    BY <1>1 DEF AheadOfCategory, Logging
  <2>2. t \in AheadOfCategory(c)' <=> c = FromError(task[t].error)
    BY <1>3 DEF AheadOfCategory, Logging
  <2>3. AheadOfCategory(c)' \subseteq Thread /\ AheadOfCategory(c) \subseteq Thread
    BY DEF AheadOfCategory
  <2>. QED
    BY <1>6, <2>1, <2>2, <2>3
<1>8. UNCHANGED <<total_errors, recovered_errors, log>>
  BY DEF LogCategory, CountCategory
<1>9. LoggingTypeOK
  BY Parts
<1>10. ASSUME NEW c \in Counted
       PROVE  counters'[c] = Cardinality(LoggedAs(c)) + Cardinality(AheadOfCategory(c)')
  <2>1. counters'[c] = IF c = FromError(task[t].error) THEN counters[c] + 1 ELSE counters[c]
    BY <1>9 DEF LogCategory, CountCategory, LoggingTypeOK
  <2>2. counters[c] = Cardinality(LoggedAs(c)) + Cardinality(AheadOfCategory(c))
    BY MatchesBySets
  <2>3. /\ IsFiniteSet(AheadOfCategory(c)) /\ Cardinality(AheadOfCategory(c)) \in Nat
        /\ Cardinality(LoggedAs(c)) \in Nat
    BY <1>9, CountsAreNumbers
  <2>4. Cardinality(AheadOfCategory(c) \cup {t}) = Cardinality(AheadOfCategory(c)) + 1
    BY <1>6, <2>3, FS_AddElement
  <2>5. CASE c = FromError(task[t].error)
    <3>1. AheadOfCategory(c)' = AheadOfCategory(c) \cup {t}
      BY <1>7, <2>5
    <3>2. counters'[c] = counters[c] + 1
      BY <2>1, <2>5
    <3>. QED
      BY <2>2, <2>3, <2>4, <3>1, <3>2
  <2>6. CASE c # FromError(task[t].error)
    <3>1. AheadOfCategory(c)' = AheadOfCategory(c)
      BY <1>7, <2>6
    <3>. QED
      BY <2>1, <2>2, <2>6, <3>1
  <2>. QED
    BY <2>5, <2>6
<1>. QED
  BY <1>4, <1>5, <1>8, <1>10, MatchesBySets, MatchesBySetsNext, SameLog

\* recovered_errors goes up for an error that is logged as recovered.
LEMMA RecoveredMatches ==
  ASSUME IInv, CountersMatchLog, NEW t \in Thread, LogRecovered(t)
  PROVE  CountersMatchLog'
<1>1. /\ task[t].pc = "recovered" /\ task'[t] = [task[t] EXCEPT !.pc = "push"]
      /\ \A u \in Thread \ {t} : task'[u] = task[u]
  BY DEF LogRecovered, At, GoTo, IInv, TypeOK
<1>2. task[t] \in Task
  BY DEF IInv, TypeOK
<1>3. /\ task'[t].pc = "push" /\ task'[t].error = task[t].error
      /\ task'[t].alert = task[t].alert
  BY <1>1, <1>2 DEF Task
<1>4. AheadOfTotal' = AheadOfTotal
  BY <1>1, <1>3 DEF AheadOfTotal, Logging
<1>5. \A c : AheadOfCategory(c)' = AheadOfCategory(c)
  BY <1>1, <1>3 DEF AheadOfCategory, Logging
<1>6. Recovered(t)' <=> Recovered(t)
  BY <1>3, Zenon DEF Recovered
<1>7. AheadOfRecovered' = (IF Recovered(t) THEN AheadOfRecovered \cup {t} ELSE AheadOfRecovered)
  <2>1. ASSUME NEW u \in Thread, u # t PROVE u \in AheadOfRecovered' <=> u \in AheadOfRecovered
    BY <1>1, <2>1, Zenon DEF AheadOfRecovered, Logging, Recovered
  <2>2. Logging(t, {"push"})' /\ ~ Logging(t, {"push"})
    BY <1>1, <1>3 DEF Logging
  <2>3. t \notin AheadOfRecovered /\ (t \in AheadOfRecovered' <=> Recovered(t))
    BY <1>6, <2>2, Zenon DEF AheadOfRecovered
  <2>4. AheadOfRecovered' \subseteq Thread /\ AheadOfRecovered \subseteq Thread
    BY DEF AheadOfRecovered
  <2>. HIDE DEF Recovered
  <2>. QED
    BY <2>1, <2>3, <2>4
<1>8. t \notin AheadOfRecovered
  BY <1>1 DEF AheadOfRecovered, Logging
<1>9. /\ UNCHANGED <<total_errors, counters, log>>
      /\ recovered_errors' = IF Recovered(t) THEN recovered_errors + 1 ELSE recovered_errors
  BY DEF LogRecovered, CountRecovered
<1>10. LoggingTypeOK
  BY Parts
<1>11. /\ recovered_errors = Cardinality(LoggedRecovered) + Cardinality(AheadOfRecovered)
       /\ IsFiniteSet(AheadOfRecovered) /\ Cardinality(AheadOfRecovered) \in Nat
       /\ Cardinality(LoggedRecovered) \in Nat
  BY <1>10, CountsAreNumbers, MatchesBySets
<1>12. Cardinality(AheadOfRecovered \cup {t}) = Cardinality(AheadOfRecovered) + 1
  BY <1>8, <1>11, FS_AddElement
<1>13. recovered_errors' = Cardinality(LoggedRecovered) + Cardinality(AheadOfRecovered')
  <2>1. CASE Recovered(t)
    BY <1>7, <1>9, <1>11, <1>12, <2>1
  <2>2. CASE ~ Recovered(t)
    BY <1>7, <1>9, <1>11, <2>2
  <2>. QED
    BY <2>1, <2>2
<1>. QED
  BY <1>4, <1>5, <1>9, <1>13, MatchesBySets, MatchesBySetsNext, SameLog

\* What an entry adds to the log, at the place after its last.
LEMMA LogGrows ==
  ASSUME LoggingTypeOK, NEW entry \in Entry, PushHistory(entry)
  PROVE  /\ Len(log') = Len(log) + 1
         /\ Len(log) + 1 \notin LoggedRecovered
         /\ LoggedRecovered' = IF entry.recovered THEN LoggedRecovered \cup {Len(log) + 1}
                               ELSE LoggedRecovered
         /\ \A c : /\ Len(log) + 1 \notin LoggedAs(c)
                   /\ LoggedAs(c)' = IF FromError(entry.error) = c
                                     THEN LoggedAs(c) \cup {Len(log) + 1} ELSE LoggedAs(c)
<1>1. log \in Seq(Entry) /\ log' = Append(log, entry)
  BY DEF LoggingTypeOK, PushHistory
<1>2. /\ Len(log) \in Nat /\ Len(log') = Len(log) + 1
      /\ DOMAIN log = 1 .. Len(log) /\ DOMAIN log' = 1 .. Len(log) + 1
      /\ log'[Len(log) + 1] = entry
      /\ \A i \in 1 .. Len(log) : log'[i] = log[i]
  BY <1>1, AppendProperties, LenProperties
<1>3. DOMAIN log' = DOMAIN log \cup {Len(log) + 1} /\ Len(log) + 1 \notin DOMAIN log
  BY <1>2
<1>4. log'[Len(log) + 1] = entry /\ \A i \in DOMAIN log : log'[i] = log[i]
  BY <1>2
<1>5. ASSUME NEW n, n = Len(log) + 1
      PROVE  /\ n \notin LoggedRecovered
             /\ LoggedRecovered' = IF entry.recovered THEN LoggedRecovered \cup {n}
                                   ELSE LoggedRecovered
             /\ \A c : /\ n \notin LoggedAs(c)
                       /\ LoggedAs(c)' = IF FromError(entry.error) = c
                                         THEN LoggedAs(c) \cup {n} ELSE LoggedAs(c)
  <2>1. /\ DOMAIN log' = DOMAIN log \cup {n} /\ n \notin DOMAIN log
        /\ log'[n] = entry /\ \A i \in DOMAIN log : log'[i] = log[i]
    BY <1>3, <1>4, <1>5
  <2>2. /\ n \notin LoggedRecovered
        /\ LoggedRecovered' = IF entry.recovered THEN LoggedRecovered \cup {n}
                              ELSE LoggedRecovered
    <3>1. \A i \in DOMAIN log : i \in LoggedRecovered' <=> i \in LoggedRecovered
      BY <2>1, Zenon DEF LoggedRecovered
    <3>2. n \notin LoggedRecovered /\ (n \in LoggedRecovered' <=> entry.recovered)
      BY <2>1, Zenon DEF LoggedRecovered
    <3>3. LoggedRecovered \subseteq DOMAIN log /\ LoggedRecovered' \subseteq DOMAIN log \cup {n}
      BY <2>1 DEF LoggedRecovered
    <3>. QED
      BY <3>1, <3>2, <3>3
  <2>3. ASSUME NEW c
        PROVE  /\ n \notin LoggedAs(c)
               /\ LoggedAs(c)' = IF FromError(entry.error) = c
                                 THEN LoggedAs(c) \cup {n} ELSE LoggedAs(c)
    BY <2>1 DEF LoggedAs
  <2>. QED
    BY <2>2, <2>3
<1>. QED
  BY <1>2, <1>5

\* A thread that adds its entry is ahead of nothing any more, an alert either,
\* which goes on with the entry of handle_error.
LEMMA EntryMatches ==
  ASSUME IInv, CountersMatchLog, NEW t \in Thread, LogEntry(t)
  PROVE  CountersMatchLog'
<1>. DEFINE entry == [error |-> task[t].error, recovered |-> Recovered(t)]
<1>1. /\ task[t].pc = "push" /\ PushHistory(entry)
      /\ \A u \in Thread \ {t} : task'[u] = task[u]
      /\ task'[t] = IF task[t].alert THEN [task[t] EXCEPT !.pc = "total", !.alert = FALSE]
                    ELSE IdleTask
  BY DEF LogEntry, At, IInv, TypeOK
<1>2. task'[t].pc \in {"total", "idle"}
  <2>1. task[t] \in Task
    BY DEF IInv, TypeOK
  <2>. QED
    BY <1>1, <2>1 DEF Task, IdleTask
<1>3. LoggingTypeOK
  BY Parts
<1>4. entry \in Entry
  BY <1>1, Parts, EntryType DEF At
<1>5. entry.error = task[t].error /\ (entry.recovered <=> Recovered(t))
  BY Zenon
<1>. HIDE DEF entry
<1>6. /\ Len(log') = Len(log) + 1
      /\ Len(log) + 1 \notin LoggedRecovered
      /\ LoggedRecovered' = IF entry.recovered THEN LoggedRecovered \cup {Len(log) + 1}
                            ELSE LoggedRecovered
      /\ \A c : /\ Len(log) + 1 \notin LoggedAs(c)
                /\ LoggedAs(c)' = IF FromError(entry.error) = c
                                  THEN LoggedAs(c) \cup {Len(log) + 1} ELSE LoggedAs(c)
  BY <1>1, <1>3, <1>4, LogGrows
<1>7. UNCHANGED <<total_errors, counters, recovered_errors>>
  BY <1>1 DEF PushHistory
<1>8. AheadOfTotal' = AheadOfTotal \ {t} /\ t \in AheadOfTotal
  BY <1>1, <1>2 DEF AheadOfTotal, Logging
<1>9. \A c : /\ AheadOfCategory(c)' = AheadOfCategory(c) \ {t}
             /\ t \in AheadOfCategory(c) <=> entry.error = task[t].error /\ FromError(entry.error) = c
  BY <1>1, <1>2, <1>5 DEF AheadOfCategory, Logging
<1>10. AheadOfRecovered' = AheadOfRecovered \ {t} /\ (t \in AheadOfRecovered <=> entry.recovered)
  <2>1. ASSUME NEW u \in Thread, u # t PROVE u \in AheadOfRecovered' <=> u \in AheadOfRecovered
    BY <1>1, <2>1, Zenon DEF AheadOfRecovered, Logging, Recovered
  <2>2. Logging(t, {"push"}) /\ ~ Logging(t, {"push"})'
    BY <1>1, <1>2 DEF Logging
  <2>3. t \notin AheadOfRecovered' /\ (t \in AheadOfRecovered <=> entry.recovered)
    BY <1>5, <2>2, Zenon DEF AheadOfRecovered
  <2>4. AheadOfRecovered' \subseteq Thread /\ AheadOfRecovered \subseteq Thread
    BY DEF AheadOfRecovered
  <2>. QED
    BY <2>1, <2>3, <2>4
<1>11. /\ total_errors = Len(log) + Cardinality(AheadOfTotal) /\ Len(log) \in Nat
       /\ \A c \in Counted :
             counters[c] = Cardinality(LoggedAs(c)) + Cardinality(AheadOfCategory(c))
       /\ recovered_errors = Cardinality(LoggedRecovered) + Cardinality(AheadOfRecovered)
  BY <1>3, MatchesBySets DEF LoggingTypeOK
<1>12. total_errors' = Len(log') + Cardinality(AheadOfTotal')
  <2>1. Cardinality(AheadOfTotal') = Cardinality(AheadOfTotal) - 1
    BY <1>3, <1>8, CountsAreNumbers, FS_RemoveElement
  <2>. QED
    BY <1>3, <1>6, <1>7, <1>11, <2>1, CountsAreNumbers
<1>13. ASSUME NEW c \in Counted
       PROVE  counters'[c] = Cardinality(LoggedAs(c)') + Cardinality(AheadOfCategory(c)')
  <2>1. /\ IsFiniteSet(AheadOfCategory(c)) /\ Cardinality(AheadOfCategory(c)) \in Nat
        /\ IsFiniteSet(LoggedAs(c)) /\ Cardinality(LoggedAs(c)) \in Nat
    BY <1>3, CountsAreNumbers
  <2>2. counters'[c] = Cardinality(LoggedAs(c)) + Cardinality(AheadOfCategory(c))
    BY <1>7, <1>11
  <2>3. CASE FromError(entry.error) = c
    <3>1. LoggedAs(c)' = LoggedAs(c) \cup {Len(log) + 1} /\ Len(log) + 1 \notin LoggedAs(c)
      BY <1>6, <2>3
    <3>2. Cardinality(LoggedAs(c)') = Cardinality(LoggedAs(c)) + 1
      BY <2>1, <3>1, FS_AddElement
    <3>3. AheadOfCategory(c)' = AheadOfCategory(c) \ {t} /\ t \in AheadOfCategory(c)
      BY <1>5, <1>9, <2>3
    <3>4. Cardinality(AheadOfCategory(c)') = Cardinality(AheadOfCategory(c)) - 1
      BY <2>1, <3>3, FS_RemoveElement
    <3>. QED
      BY <2>1, <2>2, <3>2, <3>4
  <2>4. CASE FromError(entry.error) # c
    <3>1. LoggedAs(c)' = LoggedAs(c)
      BY <1>6, <2>4
    <3>2. AheadOfCategory(c)' = AheadOfCategory(c)
      BY <1>9, <2>4
    <3>. QED
      BY <2>2, <3>1, <3>2
  <2>. QED
    BY <2>3, <2>4
<1>14. recovered_errors' = Cardinality(LoggedRecovered') + Cardinality(AheadOfRecovered')
  <2>1. /\ IsFiniteSet(AheadOfRecovered) /\ Cardinality(AheadOfRecovered) \in Nat
        /\ IsFiniteSet(LoggedRecovered) /\ Cardinality(LoggedRecovered) \in Nat
    BY <1>3, CountsAreNumbers
  <2>2. CASE entry.recovered
    <3>1. LoggedRecovered' = LoggedRecovered \cup {Len(log) + 1}
      BY <1>6, <2>2
    <3>2. Cardinality(LoggedRecovered') = Cardinality(LoggedRecovered) + 1
      BY <1>6, <2>1, <3>1, FS_AddElement
    <3>3. AheadOfRecovered' = AheadOfRecovered \ {t} /\ t \in AheadOfRecovered
      BY <1>10, <2>2
    <3>4. Cardinality(AheadOfRecovered') = Cardinality(AheadOfRecovered) - 1
      BY <2>1, <3>3, FS_RemoveElement
    <3>. QED
      BY <1>7, <1>11, <2>1, <3>2, <3>4
  <2>3. CASE ~ entry.recovered
    <3>1. LoggedRecovered' = LoggedRecovered /\ AheadOfRecovered' = AheadOfRecovered
      BY <1>6, <1>10, <2>3
    <3>. QED
      BY <1>7, <1>11, <3>1
  <2>. QED
    BY <2>2, <2>3
<1>. QED
  BY <1>12, <1>13, <1>14, MatchesBySetsNext

\* Errors that begin, decisions and resets count and log nothing.
LEMMA MatchStep ==
  IInv /\ CountersMatchLog /\ [Next]_vars => CountersMatchLog'
<1>. SUFFICES ASSUME IInv, CountersMatchLog, [Next]_vars PROVE CountersMatchLog'
  OBVIOUS
<1>1. task \in [Thread -> Task]
  BY DEF IInv, TypeOK
<1>2. UNCHANGED loggingVars => UNCHANGED <<total_errors, counters, recovered_errors, log>>
  BY DEF loggingVars
<1>3. ASSUME NEW t \in Thread, GoTo(t, "total"), At(t, "decide"), UNCHANGED loggingVars
      PROVE  CountersMatchLog'
  <2>1. /\ task[t].pc = "decide" /\ task'[t] = [task[t] EXCEPT !.pc = "total"]
        /\ \A u \in Thread \ {t} : task'[u] = task[u]
    BY <1>1, <1>3 DEF GoTo, At
  <2>2. task'[t].pc = "total"
    BY <1>1, <2>1 DEF Task
  <2>. QED
    BY <1>2, <1>3, <2>1, <2>2, QuietStep
<1>4. ASSUME NEW t \in Thread, NEW e \in Errors, NEW p \in Peer, HandleError(t, e, p)
      PROVE  CountersMatchLog'
  <2>1. /\ task[t].pc = "idle" /\ task'[t].pc = "decide"
        /\ \A u \in Thread \ {t} : task'[u] = task[u] /\ UNCHANGED loggingVars
    BY <1>1, <1>4 DEF HandleError, At
  <2>2. UNCHANGED loggingVars
    BY <1>4 DEF HandleError
  <2>. QED
    BY <1>2, <2>1, <2>2, QuietStep
<1>5. ASSUME NEW t \in Thread, SendOperatorAlert(t)
      PROVE  CountersMatchLog'
  <2>1. /\ task[t].pc = "decide" /\ UNCHANGED loggingVars
        /\ task'[t] = [task[t] EXCEPT !.pc = "total", !.alert = TRUE]
        /\ \A u \in Thread \ {t} : task'[u] = task[u]
    BY <1>1, <1>5 DEF SendOperatorAlert, At
  <2>2. task'[t].pc = "total"
    BY <1>1, <2>1 DEF Task
  <2>. QED
    BY <1>2, <2>1, <2>2, QuietStep
<1>6. ASSUME NEW t \in Thread, Step(t)
      PROVE  CountersMatchLog'
  <2>1. CASE DecideAtOnce(t)
    BY <1>3, <2>1 DEF DecideAtOnce
  <2>2. CASE ScheduleReconnect(t)
    BY <1>3, <2>2 DEF ScheduleReconnect
  <2>3. CASE FinishReset(t)
    <3>1. /\ task[t].pc = "reset" /\ task'[t] = IdleTask /\ UNCHANGED loggingVars
          /\ \A u \in Thread \ {t} : task'[u] = task[u]
      BY <1>1, <2>3 DEF FinishReset, At
    <3>. QED
      BY <1>2, <3>1, IdleTaskType, QuietStep
  <2>. QED
    BY <1>5, <1>6, <2>1, <2>2, <2>3, TotalMatches, CategoryMatches, RecoveredMatches,
       EntryMatches DEF Step
<1>7. ASSUME NEW t \in Thread, ReconnectOrBan(t)
      PROVE  CountersMatchLog'
  BY <1>3, <1>7 DEF ReconnectOrBan
<1>8. ASSUME NEW t \in Thread, NEW p \in Peer, ResetErrorCount(t, p)
      PROVE  CountersMatchLog'
  <2>1. /\ task[t].pc = "idle" /\ task'[t] = [IdleTask EXCEPT !.pc = "reset", !.peer = p]
        /\ UNCHANGED loggingVars
        /\ \A u \in Thread \ {t} : task'[u] = task[u]
    BY <1>1, <1>8 DEF ResetErrorCount, At
  <2>2. task'[t].pc = "reset"
    BY <2>1 DEF IdleTask
  <2>. QED
    BY <1>2, <2>1, <2>2, QuietStep
<1>9. ASSUME UNCHANGED task, UNCHANGED <<total_errors, counters, recovered_errors, log>>
      PROVE  CountersMatchLog'
  <2>1. \A t \in Thread : Recovered(t)' <=> Recovered(t)
    BY <1>9, Zenon DEF Recovered
  <2>2. AheadOfRecovered' = AheadOfRecovered
    BY <1>9, Zenon DEF AheadOfRecovered, Logging, Recovered
  <2>3. AheadOfTotal' = AheadOfTotal /\ \A c : AheadOfCategory(c)' = AheadOfCategory(c)
    BY <1>9 DEF AheadOfTotal, AheadOfCategory, Logging
  <2>. QED
    BY <1>9, <2>2, <2>3, MatchKept
<1>10. CASE Clear
  BY <1>9, <1>10 DEF Clear, ClearHistory
<1>11. CASE UNCHANGED vars
  BY <1>9, <1>11 DEF vars, loggingVars
<1>. QED
  BY <1>4, <1>6, <1>7, <1>8, <1>10, <1>11 DEF Next

LEMMA MatchInit ==
  Init => CountersMatchLog
<1>. SUFFICES ASSUME Init PROVE CountersMatchLog
  OBVIOUS
<1>1. /\ total_errors = 0 /\ recovered_errors = 0 /\ log = <<>>
      /\ \A c \in Counted : counters[c] = 0
      /\ \A t \in Thread : task[t].pc = "idle"
  BY DEF Init, LoggingInit, IdleTask
<1>2. AheadOfTotal = {} /\ AheadOfRecovered = {} /\ \A c : AheadOfCategory(c) = {}
  BY <1>1 DEF AheadOfTotal, AheadOfRecovered, AheadOfCategory, Logging
<1>3. DOMAIN log = {} /\ Len(log) = 0
  BY <1>1
<1>4. LoggedRecovered = {} /\ \A c : LoggedAs(c) = {}
  BY <1>3 DEF LoggedRecovered, LoggedAs
<1>5. /\ total_errors = Len(log) + Cardinality(AheadOfTotal)
      /\ recovered_errors = Cardinality(LoggedRecovered) + Cardinality(AheadOfRecovered)
  BY <1>1, <1>2, <1>3, <1>4, FS_EmptySet
<1>6. \A c \in Counted :
         counters[c] = Cardinality(LoggedAs(c)) + Cardinality(AheadOfCategory(c))
  <2>1. ASSUME NEW c \in Counted
        PROVE  Cardinality(LoggedAs(c)) = 0 /\ Cardinality(AheadOfCategory(c)) = 0
    <3>1. LoggedAs(c) = {} /\ AheadOfCategory(c) = {}
      BY <1>2, <1>4, Zenon
    <3>. QED
      BY <3>1, FS_EmptySet
  <2>2. 0 = 0 + 0
    OBVIOUS
  <2>. QED
    BY <1>1, <2>1, <2>2
<1>. QED
  BY <1>5, <1>6, MatchesBySets

\* The counters of the logger are increased one by one, by threads that
\* overlap: at any time each is ahead of the log by exactly the threads that have
\* passed it and not yet added their entries.
THEOREM CountersFollowLog ==
  Spec => []CountersMatchLog
BY InitStep, NextStep, MatchInit, MatchStep, PTL DEF Spec

-----------------------------------------------------------------------------
(***************************************************************************)
(* The ring.  It goes entry by entry: the i-th of k entries in the ring is *)
(* the one of the log that has k - i after it.                             *)
(***************************************************************************)
RingLimit == IF MaxHistory = 0 THEN 1 ELSE MaxHistory
Since == Len(log) - cleared

RingHolds ==
    /\ cleared <= Len(log)
    /\ Len(history) = IF Since < RingLimit THEN Since ELSE RingLimit
    /\ \A i \in 1 .. Len(history) : history[i] = log[Len(log) - Len(history) + i]

LEMMA RingIsNewest ==
  ASSUME LoggingTypeOK, RingHolds
  PROVE  HistoryIsNewest
<1>. DEFINE k == Len(history)  n == Len(log)
<1>1. history \in Seq(Entry) /\ log \in Seq(Entry) /\ k \in Nat /\ n \in Nat /\ cleared \in Nat
  BY DEF LoggingTypeOK
<1>2. k <= n
  BY <1>1, HistoryAssumption DEF RingHolds, Since, RingLimit
<1>3. \A i \in n - k + 1 .. n : log[i] \in Entry
  BY <1>1, <1>2, ElementOfSeq
<1>4. /\ SubSeq(log, n - k + 1, n) \in Seq(Entry)
      /\ Len(SubSeq(log, n - k + 1, n)) = k
      /\ \A i \in 1 .. k : SubSeq(log, n - k + 1, n)[i] = log[n - k + i]
  <2>1. n - k + 1 \in Int /\ n \in Int
    BY <1>1
  <2>2. /\ SubSeq(log, n - k + 1, n) \in Seq(Entry)
        /\ Len(SubSeq(log, n - k + 1, n)) =
              IF n - k + 1 <= n THEN n - (n - k + 1) + 1 ELSE 0
        /\ \A i \in 1 .. n - (n - k + 1) + 1 :
              SubSeq(log, n - k + 1, n)[i] = log[(n - k + 1) + i - 1]
    BY <1>3, <2>1, SubSeqProperties
  <2>3. n - (n - k + 1) + 1 = k /\ \A i \in 1 .. k : (n - k + 1) + i - 1 = n - k + i
    BY <1>1
  <2>4. (IF n - k + 1 <= n THEN n - (n - k + 1) + 1 ELSE 0) = k
    BY <1>1
  <2>. HIDE DEF k, n
  <2>. QED
    BY <2>2, <2>3, <2>4
<1>5. \A i \in 1 .. k : history[i] = log[n - k + i]
  BY DEF RingHolds
<1>. HIDE DEF k, n
<1>6. history = SubSeq(log, n - k + 1, n)
  BY <1>1, <1>4, <1>5, SeqEqual DEF k
<1>. QED
  BY <1>6 DEF HistoryIsNewest, RingHolds, RingLimit, Since, k, n

\* The ring before an entry is added: its last entries, room made for one.
LEMMA PushHolds ==
  ASSUME LoggingTypeOK, RingHolds, NEW entry \in Entry, PushHistory(entry)
  PROVE  RingHolds'
<1>1. /\ history \in Seq(Entry) /\ log \in Seq(Entry)
      /\ Len(history) \in Nat /\ Len(log) \in Nat /\ cleared \in Nat
  BY DEF LoggingTypeOK
<1>2. Len(history) <= Len(log)
  BY <1>1, HistoryAssumption DEF RingHolds, Since, RingLimit
<1>3. PICK kept : kept = IF history # <<>> /\ Len(history) >= MaxHistory
                         THEN Tail(history) ELSE history
  OBVIOUS
<1>4. history' = Append(kept, entry) /\ log' = Append(log, entry) /\ cleared' = cleared
  BY <1>3 DEF PushHistory
<1>5. /\ kept \in Seq(Entry) /\ Len(kept) \in Nat /\ Len(kept) <= Len(log)
      /\ Len(kept) + 1 = IF Since + 1 < RingLimit THEN Since + 1 ELSE RingLimit
      /\ \A i \in 1 .. Len(kept) : kept[i] = log[Len(log) - Len(kept) + i]
  <2>1. CASE history # <<>> /\ Len(history) >= MaxHistory
    <3>1. kept = Tail(history)
      BY <1>3, <2>1
    <3>2. /\ Tail(history) \in Seq(Entry) /\ Len(Tail(history)) = Len(history) - 1
          /\ \A i \in 1 .. Len(history) - 1 : Tail(history)[i] = history[i + 1]
      BY <1>1, <2>1, HeadTailProperties
    <3>3. Len(history) >= 1
      BY <1>1, <2>1, EmptySeq
    <3>4. ASSUME NEW i \in 1 .. Len(history) - 1
          PROVE  Tail(history)[i] = log[Len(log) - (Len(history) - 1) + i]
      <4>1. i + 1 \in 1 .. Len(history)
            /\ Len(log) - Len(history) + (i + 1) = Len(log) - (Len(history) - 1) + i
        BY <1>1, <3>4
      <4>. QED
        BY <3>2, <4>1 DEF RingHolds
    <3>5. Len(history) = IF Since + 1 < RingLimit THEN Since + 1 ELSE RingLimit
      BY <1>1, <2>1, <3>3, HistoryAssumption DEF RingHolds, Since, RingLimit
    <3>6. Len(kept) = Len(history) - 1
      BY <3>1, <3>2
    <3>7. kept \in Seq(Entry) /\ Len(kept) \in Nat /\ Len(kept) <= Len(log)
      BY <1>1, <1>2, <3>1, <3>2, <3>3, <3>6
    <3>8. Len(kept) + 1 = Len(history)
      BY <1>1, <3>6
    <3>9. \A i \in 1 .. Len(kept) : kept[i] = log[Len(log) - Len(kept) + i]
      BY <3>1, <3>4, <3>6
    <3>. QED
      BY <3>5, <3>7, <3>8, <3>9
  <2>2. CASE ~ (history # <<>> /\ Len(history) >= MaxHistory)
    <3>1. kept = history
      BY <1>3, <2>2
    <3>2. Len(history) = 0 \/ Len(history) < MaxHistory
      <4>1. CASE history = <<>>
        BY <4>1
      <4>2. CASE ~ (Len(history) >= MaxHistory)
        BY <1>1, <4>2, HistoryAssumption
      <4>. QED
        BY <2>2, <4>1, <4>2
    <3>3. Len(history) + 1 = IF Since + 1 < RingLimit THEN Since + 1 ELSE RingLimit
      BY <1>1, <3>2, HistoryAssumption DEF RingHolds, Since, RingLimit
    <3>. QED
      BY <1>1, <1>2, <3>1, <3>3 DEF RingHolds
  <2>. QED
    BY <2>1, <2>2
<1>6. /\ Len(history') = Len(kept) + 1 /\ Len(log') = Len(log) + 1
      /\ \A i \in 1 .. Len(kept) : history'[i] = kept[i]
      /\ \A i \in 1 .. Len(log) : log'[i] = log[i]
      /\ history'[Len(kept) + 1] = entry /\ log'[Len(log) + 1] = entry
  BY <1>1, <1>4, <1>5, AppendProperties
<1>7. ASSUME NEW i \in 1 .. Len(history')
      PROVE  history'[i] = log'[Len(log') - Len(history') + i]
  <2>1. Len(log') - Len(history') + i = Len(log) - Len(kept) + i
    BY <1>1, <1>5, <1>6, <1>7
  <2>2. CASE i \in 1 .. Len(kept)
    <3>1. Len(log) - Len(kept) + i \in 1 .. Len(log)
      BY <1>1, <1>5, <2>2
    <3>. QED
      BY <1>5, <1>6, <2>1, <2>2, <3>1
  <2>3. CASE i = Len(kept) + 1
    <3>1. Len(log) - Len(kept) + i = Len(log) + 1
      BY <1>1, <1>5, <2>3
    <3>. QED
      BY <1>6, <2>1, <2>3, <3>1
  <2>. QED
    BY <1>5, <1>6, <1>7, <2>2, <2>3
<1>8. cleared' <= Len(log') /\ Since' = Since + 1
  BY <1>1, <1>4, <1>6 DEF RingHolds, Since
<1>. QED
  BY <1>5, <1>6, <1>7, <1>8 DEF RingHolds, RingLimit

LEMMA RingKept ==
  ASSUME RingHolds, UNCHANGED <<history, log, cleared>>
  PROVE  RingHolds'
BY DEF RingHolds, Since

LEMMA ClearHolds ==
  ASSUME LoggingTypeOK, ClearHistory
  PROVE  RingHolds'
<1>1. history' = <<>> /\ log' = log /\ cleared' = Len(log) /\ Len(log) \in Nat
  BY DEF ClearHistory, LoggingTypeOK
<1>2. Len(history') = 0 /\ Since' = 0 /\ cleared' <= Len(log')
  BY <1>1 DEF Since
<1>3. \A i \in 1 .. Len(history') : FALSE
  BY <1>2
<1>. QED
  BY <1>2, <1>3, HistoryAssumption DEF RingHolds, RingLimit

LEMMA RingInit ==
  Init => RingHolds
<1>. SUFFICES ASSUME Init PROVE RingHolds
  OBVIOUS
<1>1. Len(history) = 0 /\ Len(log) = 0 /\ cleared = 0
  BY DEF Init, LoggingInit
<1>2. Since = 0 /\ \A i \in 1 .. Len(history) : FALSE
  BY <1>1 DEF Since
<1>. QED
  BY <1>1, <1>2, HistoryAssumption DEF RingHolds, RingLimit

LEMMA RingStep ==
  IInv /\ RingHolds /\ [Next]_vars => RingHolds'
<1>. SUFFICES ASSUME IInv, RingHolds, [Next]_vars PROVE RingHolds'
  OBVIOUS
<1>1. LoggingTypeOK
  BY Parts
<1>2. UNCHANGED loggingVars => RingHolds'
  BY RingKept DEF loggingVars
<1>3. ASSUME NEW t \in Thread, LogEntry(t)
      PROVE  RingHolds'
  <2>1. /\ At(t, "push")
        /\ PushHistory([error |-> task[t].error, recovered |-> Recovered(t)])
    BY <1>3 DEF LogEntry
  <2>. QED
    BY <1>1, <2>1, Parts, EntryType, PushHolds
<1>4. ASSUME NEW t \in Thread, Step(t)
      PROVE  RingHolds'
  <2>1. CASE LogTotal(t) \/ LogCategory(t) \/ LogRecovered(t)
    BY <2>1, RingKept DEF LogTotal, LogCategory, LogRecovered, CountTotal, CountCategory,
       CountRecovered
  <2>2. CASE DecideAtOnce(t) \/ SendOperatorAlert(t)
    BY <1>2, <2>2 DEF DecideAtOnce, SendOperatorAlert
  <2>3. CASE ScheduleReconnect(t) \/ FinishReset(t)
    BY <1>2, <2>3 DEF ScheduleReconnect, FinishReset
  <2>. QED
    BY <1>3, <1>4, <2>1, <2>2, <2>3 DEF Step
<1>5. ASSUME NEW t \in Thread, NEW e \in Errors, NEW p \in Peer, HandleError(t, e, p)
      PROVE  RingHolds'
  BY <1>2, <1>5 DEF HandleError
<1>6. ASSUME NEW t \in Thread, ReconnectOrBan(t) PROVE RingHolds'
  BY <1>2, <1>6 DEF ReconnectOrBan
<1>7. ASSUME NEW t \in Thread, NEW p \in Peer, ResetErrorCount(t, p) PROVE RingHolds'
  BY <1>2, <1>7 DEF ResetErrorCount
<1>8. CASE Clear
  BY <1>1, <1>8, ClearHolds DEF Clear
<1>9. CASE UNCHANGED vars
  BY <1>2, <1>9 DEF vars
<1>. QED
  BY <1>4, <1>5, <1>6, <1>7, <1>8, <1>9 DEF Next

\* Whatever the limit, the ring holds the newest entries since it was last
\* cleared, in the order in which threads added them.
THEOREM RingHoldsNewest ==
  Spec => []HistoryIsNewest
<1>1. IInv /\ RingHolds => HistoryIsNewest
  BY Parts, RingIsNewest
<1>. QED
  BY InitStep, NextStep, RingInit, RingStep, <1>1, PTL DEF Spec

-----------------------------------------------------------------------------
(***************************************************************************)
(* The backoff.  A peer's last delay is that of the attempt before the one *)
(* it counts next, so two delays in a row come from n and n + 1 attempts,  *)
(* whichever threads grant them.  A power of two is counted as the subsets *)
(* of an interval.                                                         *)
(***************************************************************************)
\* 2 ^ n is the number of subsets of 1 .. n.
LEMMA PowerIsSubsets ==
  ASSUME NEW n \in Nat
  PROVE  /\ IsFiniteSet(SUBSET (1 .. n))
         /\ Cardinality(SUBSET (1 .. n)) = 2 ^ n
         /\ 2 ^ n \in Nat
<1>1. IsFiniteSet(1 .. n) /\ Cardinality(1 .. n) = n
  <2>1. IsFiniteSet(1 .. n)
    BY FS_Interval
  <2>2. Cardinality(1 .. n) = n
    BY FS_Interval
  <2>. QED
    BY <2>1, <2>2
<1>2. IsFiniteSet(SUBSET (1 .. n)) /\ Cardinality(SUBSET (1 .. n)) = 2 ^ n
  BY <1>1, FS_SUBSET, Zenon
<1>3. Cardinality(SUBSET (1 .. n)) \in Nat
  BY <1>2, FS_CardinalityType
<1>. QED
  BY <1>2, <1>3

LEMMA PowerDoubles ==
  ASSUME NEW n \in Nat
  PROVE  2 ^ (n + 1) = 2 ^ n + 2 ^ n
<1>. DEFINE Old == SUBSET (1 .. n)
            New == {A \cup {n + 1} : A \in Old}
            f == [A \in Old |-> A \cup {n + 1}]
<1>1. IsFiniteSet(Old) /\ Cardinality(Old) = 2 ^ n /\ 2 ^ n \in Nat
  BY PowerIsSubsets
<1>2. n + 1 \in Nat /\ n + 1 \notin 1 .. n /\ 1 .. n + 1 = (1 .. n) \cup {n + 1}
  OBVIOUS
<1>3. Cardinality(SUBSET (1 .. n + 1)) = 2 ^ (n + 1)
  BY <1>2, PowerIsSubsets
<1>4. f \in Bijection(Old, New)
  <2>1. \A A \in Old, B \in Old : A \cup {n + 1} = B \cup {n + 1} => A = B
    BY <1>2
  <2>2. \A A \in Old, B \in Old : f[A] = f[B] => A = B
    BY <2>1
  <2>3. f \in [Old -> New] /\ \A C \in New : \E A \in Old : f[A] = C
    OBVIOUS
  <2>. QED
    BY <2>2, <2>3 DEF Bijection, Injection, Surjection, IsInjective
<1>5. IsFiniteSet(New) /\ Cardinality(New) = Cardinality(Old)
  BY <1>1, <1>4, FS_Bijection DEF ExistsBijection
<1>6. SUBSET (1 .. n + 1) = Old \cup New
  <2>1. ASSUME NEW C \in SUBSET (1 .. n + 1) PROVE C \in Old \cup New
    <3>1. CASE n + 1 \in C
      <4>1. C \ {n + 1} \in Old /\ C = (C \ {n + 1}) \cup {n + 1}
        BY <1>2, <3>1
      <4>. QED
        BY <4>1
    <3>2. CASE n + 1 \notin C
      BY <1>2, <3>2
    <3>. QED
      BY <3>1, <3>2
  <2>2. ASSUME NEW C \in Old \cup New PROVE C \in SUBSET (1 .. n + 1)
    BY <1>2
  <2>. QED
    BY <2>1, <2>2
<1>7. Old \cap New = {}
  BY <1>2
<1>8. Cardinality(Old \cup New) = Cardinality(Old) + Cardinality(New) - Cardinality(Old \cap New)
  BY <1>1, <1>5, FS_Union
<1>9. Cardinality(Old \cap New) = 0
  BY <1>7, FS_EmptySet
<1>10. 2 ^ (n + 1) = Cardinality(Old \cup New)
  BY <1>3, <1>6
<1>. HIDE DEF Old, New, f
<1>11. PICK k \in Nat : k = 2 ^ n
  BY <1>1
<1>12. Cardinality(Old \cup New) = k + k
  <2>1. Cardinality(Old) = k /\ Cardinality(New) = k
    BY <1>1, <1>5, <1>11
  <2>. QED
    BY <2>1, <1>8, <1>9
<1>. QED
  BY <1>10, <1>11, <1>12

LEMMA PowerPositive ==
  ASSUME NEW n \in Nat
  PROVE  2 ^ n \in Nat /\ 2 ^ n >= 1
<1>1. IsFiniteSet(SUBSET (1 .. n)) /\ Cardinality(SUBSET (1 .. n)) = 2 ^ n /\ 2 ^ n \in Nat
  BY PowerIsSubsets
<1>2. {} \in SUBSET (1 .. n)
  OBVIOUS
<1>3. Cardinality(SUBSET (1 .. n)) # 0
  BY <1>1, <1>2, FS_EmptySet
<1>4. PICK k \in Nat : k = 2 ^ n
  BY <1>1
<1>. QED
  BY <1>1, <1>3, <1>4

\* The delay of an attempt, and that of the one after it: twice as long, or the
\* cap.
LEMMA DelayGrows ==
  ASSUME NEW n \in Nat
  PROVE  /\ Delay(n) \in InitialDelay .. MaxDelay
         /\ Delay(n + 1) \in InitialDelay .. MaxDelay
         /\ \/ Delay(n) = MaxDelay
            \/ Delay(n + 1) = MaxDelay
            \/ Delay(n + 1) = Delay(n) + Delay(n)
<1>1. PICK k \in Nat : k = 2 ^ n
  BY PowerPositive
<1>2. k >= 1 /\ 2 ^ (n + 1) = k + k
  BY <1>1, PowerPositive, PowerDoubles
<1>3. \A i \in Nat, j \in Nat : i * j \in Nat /\ i * (j + j) = i * j + i * j
  OBVIOUS
<1>4. \A i \in Nat, j \in Nat : j >= 1 => i * j >= i
  OBVIOUS
<1>5. InitialDelay \in Nat /\ MaxDelay \in Nat /\ MaxDelay >= InitialDelay
  BY DelayAssumption
<1>6. PICK x \in Nat : x = InitialDelay * k
  BY <1>3, <1>5
<1>7. x >= InitialDelay /\ InitialDelay * (k + k) = x + x
  BY <1>2, <1>3, <1>4, <1>5, <1>6
<1>8. Delay(n) = IF x < MaxDelay THEN x ELSE MaxDelay
  BY <1>1, <1>6 DEF Delay
<1>9. Delay(n + 1) = IF x + x < MaxDelay THEN x + x ELSE MaxDelay
  BY <1>2, <1>7 DEF Delay
<1>. QED
  BY <1>5, <1>7, <1>8, <1>9

\* Jitter takes less from a delay than doubling adds to it, and less than a
\* tenth of the cap.
LEMMA JitterKeepsOrder ==
  ASSUME NEW n \in Nat, NEW d \in Jittered(Delay(n)), NEW e \in Jittered(Delay(n + 1))
  PROVE  e > d \/ d + MaxDelay \div 10 > MaxDelay
<1>. DEFINE Bounds(v, delay) ==
        /\ v \in Nat
        /\ delay - (delay \div 10) \div 2 <= v
        /\ v < delay - (delay \div 10) \div 2 + delay \div 10
<1>1. \A delay : \A v \in Jittered(delay) : Bounds(v, delay)
  <2>1. ASSUME NEW delay, NEW v \in Jittered(delay) PROVE Bounds(v, delay)
    <3>1. v \in Nat
      BY JitteredType
    <3>. QED
      BY <3>1 DEF Jittered
  <2>. QED
    BY <2>1
<1>2. Bounds(d, Delay(n)) /\ Bounds(e, Delay(n + 1))
  BY <1>1
<1>3. PICK x \in Nat, y \in Nat :
        /\ x = Delay(n) /\ y = Delay(n + 1)
        /\ x >= 10 /\ x <= MaxDelay /\ y <= MaxDelay
        /\ x = MaxDelay \/ y = MaxDelay \/ y = x + x
  <2>1. \A v \in InitialDelay .. MaxDelay : v \in Nat /\ v >= 10 /\ v <= MaxDelay
    BY DelayAssumption
  <2>. QED
    BY <2>1, DelayGrows
<1>4. MaxDelay \in Nat /\ MaxDelay >= 10
  BY DelayAssumption
<1>5. /\ x - (x \div 10) \div 2 <= d
      /\ d < x - (x \div 10) \div 2 + x \div 10
      /\ y - (y \div 10) \div 2 <= e
      /\ d \in Nat /\ e \in Nat
  BY <1>2, <1>3
<1>6. CASE x = MaxDelay
  BY <1>4, <1>5, <1>6
<1>7. CASE y = MaxDelay
  BY <1>4, <1>5, <1>7
<1>8. CASE y = x + x
  BY <1>3, <1>5, <1>8
<1>. QED
  BY <1>3, <1>6, <1>7, <1>8

BackoffFits ==
    \A p \in Peer :
       lastDelay[p] # 0 =>
          \E n \in Nat : attempts[p] = n + 1 /\ lastDelay[p] \in Jittered(Delay(n))

\* What a step makes of a peer's backoff: nothing, a reset, or one attempt more.
LEMMA BackoffStep ==
  ASSUME IInv, [Next]_vars, NEW p \in Peer
  PROVE  \/ attempts'[p] = attempts[p] /\ lastDelay'[p] = lastDelay[p]
         \/ lastDelay'[p] = 0
         \/ /\ attempts'[p] = attempts[p] + 1
            /\ lastDelay'[p] \in Jittered(Delay(attempts[p]))
<1>. DEFINE Goal ==
        \/ attempts'[p] = attempts[p] /\ lastDelay'[p] = lastDelay[p]
        \/ lastDelay'[p] = 0
        \/ /\ attempts'[p] = attempts[p] + 1
           /\ lastDelay'[p] \in Jittered(Delay(attempts[p]))
<1>1. attempts \in [Peer -> Nat] /\ lastDelay \in [Peer -> Nat]
  BY Parts DEF RecoveryTypeOK
<1>2. ASSUME UNCHANGED <<attempts, lastDelay>> PROVE Goal
  BY <1>2
<1>3. ASSUME UNCHANGED recoveryVars PROVE Goal
  BY <1>2, <1>3 DEF recoveryVars
<1>4. ASSUME NEW t \in Thread, ScheduleReconnect(t) PROVE Goal
  <2>1. PICK delay \in Jittered(Delay(attempts[task[t].peer])) :
           HandleExponentialBackoff(task[t].peer, delay)
    BY <1>4 DEF ScheduleReconnect
  <2>2. CASE task[t].peer = p
    BY <1>1, <2>1, <2>2 DEF HandleExponentialBackoff
  <2>3. CASE task[t].peer # p
    BY <1>1, <2>1, <2>3 DEF HandleExponentialBackoff
  <2>. QED
    BY <2>2, <2>3
<1>5. ASSUME NEW t \in Thread, FinishReset(t) PROVE Goal
  <2>1. ResetBackoff(task[t].peer)
    BY <1>5 DEF FinishReset
  <2>2. CASE task[t].peer = p
    BY <1>1, <2>1, <2>2 DEF ResetBackoff
  <2>3. CASE task[t].peer # p
    BY <1>1, <2>1, <2>3 DEF ResetBackoff
  <2>. QED
    BY <2>2, <2>3
<1>6. ASSUME NEW t \in Thread, Step(t) PROVE Goal
  BY <1>3, <1>4, <1>5, <1>6
  DEF Step, DecideAtOnce, SendOperatorAlert, LogTotal, LogCategory, LogRecovered, LogEntry
<1>7. ASSUME NEW t \in Thread, ReconnectOrBan(t) PROVE Goal
  BY <1>2, <1>7 DEF ReconnectOrBan, HandleReconnect
<1>8. ASSUME NEW t \in Thread, NEW q \in Peer, ResetErrorCount(t, q) PROVE Goal
  BY <1>2, <1>8 DEF ResetErrorCount, ForgetErrors
<1>9. ASSUME NEW t \in Thread, NEW e \in Errors, NEW q \in Peer, HandleError(t, e, q)
      PROVE  Goal
  BY <1>3, <1>9 DEF HandleError
<1>10. CASE Clear
  BY <1>3, <1>10 DEF Clear
<1>11. CASE UNCHANGED vars
  BY <1>3, <1>11 DEF vars
<1>. QED
  BY <1>6, <1>7, <1>8, <1>9, <1>10, <1>11 DEF Next

LEMMA BackoffFitsInit ==
  Init => BackoffFits
BY DEF Init, RecoveryInit, BackoffFits

LEMMA BackoffFitsStep ==
  IInv /\ BackoffFits /\ [Next]_vars => BackoffFits'
<1>. SUFFICES ASSUME IInv, BackoffFits, [Next]_vars, NEW p \in Peer, lastDelay'[p] # 0
              PROVE  \E n \in Nat : /\ attempts'[p] = n + 1
                                    /\ lastDelay'[p] \in Jittered(Delay(n))
  BY DEF BackoffFits
<1>1. attempts[p] \in Nat
  BY Parts DEF RecoveryTypeOK
<1>2. CASE attempts'[p] = attempts[p] /\ lastDelay'[p] = lastDelay[p]
  BY <1>2 DEF BackoffFits
<1>3. CASE /\ attempts'[p] = attempts[p] + 1
           /\ lastDelay'[p] \in Jittered(Delay(attempts[p]))
  BY <1>1, <1>3
<1>. QED
  BY <1>2, <1>3, BackoffStep

\* The delay that a step grants, against the one before it.
LEMMA GrowsStep ==
  IInv /\ BackoffFits /\ [Next]_vars =>
     \A p \in Peer :
        lastDelay[p] # 0 /\ lastDelay'[p] \notin {0, lastDelay[p]} =>
           \/ lastDelay'[p] > lastDelay[p]
           \/ lastDelay[p] + MaxDelay \div 10 > MaxDelay
<1>. SUFFICES ASSUME IInv, BackoffFits, [Next]_vars, NEW p \in Peer,
                     lastDelay[p] # 0, lastDelay'[p] \notin {0, lastDelay[p]}
              PROVE  \/ lastDelay'[p] > lastDelay[p]
                     \/ lastDelay[p] + MaxDelay \div 10 > MaxDelay
  OBVIOUS
<1>1. PICK n \in Nat : attempts[p] = n + 1 /\ lastDelay[p] \in Jittered(Delay(n))
  BY DEF BackoffFits
<1>2. lastDelay'[p] \in Jittered(Delay(attempts[p]))
  BY BackoffStep
<1>3. lastDelay'[p] \in Jittered(Delay(n + 1))
  BY <1>1, <1>2
<1>. QED
  BY <1>1, <1>3, JitterKeepsOrder

\* Each attempt waits initial_delay doubled once more, up to max_delay, with a
\* jitter of at most a tenth: a peer that fails again without a reset waits
\* longer than before until its delays have come to the cap, although threads
\* grant and reset them at the same time.
THEOREM DelaysGrow ==
  Spec => BackoffGrows
<1>. DEFINE Grows ==
        \A p \in Peer :
           lastDelay[p] # 0 /\ lastDelay'[p] \notin {0, lastDelay[p]} =>
              \/ lastDelay'[p] > lastDelay[p]
              \/ lastDelay[p] + MaxDelay \div 10 > MaxDelay
<1>1. IInv /\ BackoffFits /\ [Next]_vars => Grows
  BY GrowsStep
<1>2. BackoffGrows <=> [][Grows]_vars
  BY DEF BackoffGrows
<1>. QED
  BY InitStep, NextStep, BackoffFitsInit, BackoffFitsStep, <1>1, <1>2, PTL DEF Spec
=============================================================================

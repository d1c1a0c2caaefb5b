---------------------------- MODULE PeerSecurityProofs --------------------------
(***************************************************************************)
(* Proofs about PeerSecurity: its types, that a low score means a ban, and *)
(* that a ban lasts unless somebody lifts it.                              *)
(***************************************************************************)
EXTENDS PeerSecurity, TLAPS

Pcs == {"idle", "ban", "insert", "zero", "lift", "neutral", "sweep"}

\* A thread's task is put together from its four fields.
LEMMA NewTaskType ==
    ASSUME NEW pc \in Pcs, NEW p \in Peer \cup {None}, NEW at \in Time, NEW todo \in SUBSET Peer
    PROVE  NewTask(pc, p, at, todo) \in Task
BY DEF NewTask, Task, Pcs

LEMMA IdleTaskType == IdleTask \in Task
<1>1. 0 \in Time
  BY TimeAssumption DEF Time
<1> QED BY <1>1, NewTaskType DEF IdleTask, Pcs

\* What the fields of a thread's task are.
LEMMA TaskFields ==
    ASSUME TypeOK, NEW t \in Thread
    PROVE  /\ task[t] \in Task /\ task[t].pc \in Pcs /\ task[t].peer \in Peer \cup {None}
           /\ task[t].at \in Time /\ task[t].todo \in SUBSET Peer
BY DEF TypeOK, Task, Pcs

\* What the entry of a peer, or the one made for it, is.
LEMMA EntryType ==
    ASSUME TypeOK, NEW p \in Peer
    PROVE  Entry(p) \in Score /\ Entry(p).score \in 0 .. MaxScore /\ Entry(p).last_update \in Time
<1>1. scores[p] \in Score \cup {None} /\ now \in Time
  BY DEF TypeOK
<1>2. [score |-> Neutral, last_update |-> now] \in Score
  BY <1>1, ScoreAssumption DEF Score
<1>3. Entry(p) \in Score
  BY <1>1, <1>2 DEF Entry
<1> QED BY <1>3 DEF Score

\* The hours a score has aged are a byte, whatever the clock says.
LEMMA HoursType ==
    ASSUME TypeOK, NEW n \in Time PROVE Hours(n) \in 0 .. Byte - 1
<1>1. now - n \in Int /\ Hour \in Nat \ {0}
  BY TimeAssumption DEF TypeOK, Time
<1>2. (now - n) \div Hour \in Int
  BY <1>1
<1>3. Byte \in Nat /\ Byte > 0
  BY ScoreAssumption
<1>4. \A x \in Int : x % Byte \in 0 .. Byte - 1
  BY <1>3
<1> QED BY <1>2, <1>4 DEF Hours

\* Decay keeps a score between 0 and 100.
LEMMA DecayType ==
    ASSUME TypeOK, NEW s \in Score PROVE ApplyDecay(s) \in 0 .. MaxScore
<1> DEFINE decay == AtMost(Hours(s.last_update) * DecayRate, Byte - 1)
<1>1. s.score \in 0 .. MaxScore /\ s.last_update \in Time
  BY DEF Score
<1>2. decay \in Nat
  <2>1. Hours(s.last_update) \in Nat
    BY <1>1, HoursType
  <2>2. Hours(s.last_update) * DecayRate \in Nat
    BY <2>1, ScoreAssumption
  <2>3. Byte - 1 \in Nat
    BY ScoreAssumption
  <2> QED BY <2>2, <2>3 DEF AtMost
<1>3. ApplyDecay(s) = IF s.score > Neutral THEN AtLeast(s.score - decay, Neutral)
                      ELSE AtMost(s.score + decay, Neutral)
  BY DEF ApplyDecay
<1> HIDE DEF decay
<1> QED BY <1>1, <1>2, <1>3, ScoreAssumption DEF AtMost, AtLeast

\* What a report makes of a score is a score again.
LEMMA ReportType ==
    ASSUME TypeOK, NEW p \in Peer, NEW n \in Amounts
    PROVE  /\ AtMost(ApplyDecay(Entry(p)) + n, MaxScore) \in 0 .. MaxScore
           /\ AtLeast(ApplyDecay(Entry(p)) - n, 0) \in 0 .. MaxScore
<1>1. ApplyDecay(Entry(p)) \in 0 .. MaxScore
  BY EntryType, DecayType
<1>2. n \in Nat /\ MaxScore \in Nat
  BY ScoreAssumption
<1> HIDE DEF ApplyDecay
<1> QED BY <1>1, <1>2 DEF AtMost, AtLeast

\* Writing a score keeps the type of the table.
LEMMA SetScoreType ==
    ASSUME TypeOK, NEW p \in Peer, NEW n \in 0 .. MaxScore, SetScore(p, n)
    PROVE  scores' \in [Peer -> Score \cup {None}]
<1>1. [score |-> n, last_update |-> now] \in Score
  BY DEF TypeOK, Score
<1> QED BY <1>1 DEF SetScore, TypeOK

LEMMA BecomeType ==
    ASSUME TypeOK, NEW t \in Thread, NEW new \in Task, Become(t, new)
    PROVE  task' \in [Thread -> Task]
BY DEF TypeOK, Become

LEMMA TakeOffType ==
    ASSUME TypeOK, NEW p \in Peer, TakeOff(p)
    PROVE  blocklist' \in [Peer -> Time \cup {None}]
BY DEF TypeOK, TakeOff

\* A thread that works on a peer knows which.
PeerKnown ==
    \A t \in Thread : task[t].pc \in {"ban", "insert", "zero", "lift", "neutral"} =>
        task[t].peer \in Peer

\* A thread about to lift a ban has seen one run out.
SawExpired == \A t \in Thread : AtWork(t, "lift") => now - task[t].at >= BanDuration

\* A clock a thread or the blocklist holds is not ahead of the clock.
ClockBefore ==
    /\ \A t \in Thread : task[t].at <= now
    /\ \A p \in Peer : blocklist[p] # None => blocklist[p] <= now

Inv == TypeOK /\ PeerKnown /\ SawExpired /\ ClockBefore

LEMMA InitInv == Init => Inv
<1> SUFFICES ASSUME Init PROVE Inv
  OBVIOUS
<1>1. 0 \in Time
  BY TimeAssumption DEF Time
<1>2. TypeOK
  BY <1>1, IdleTaskType DEF Init, TypeOK
<1>3. \A t \in Thread : task[t].pc = "idle" /\ task[t].at = 0
  BY DEF Init, IdleTask, NewTask
<1>4. now = 0 /\ \A p \in Peer : blocklist[p] = None
  BY DEF Init
<1> QED BY <1>2, <1>3, <1>4 DEF Inv, PeerKnown, SawExpired, ClockBefore, AtWork

\* Every step keeps the types.
LEMMA TypeStep == TypeOK /\ PeerKnown /\ [Next]_vars => TypeOK'
<1> SUFFICES ASSUME TypeOK, PeerKnown, [Next]_vars PROVE TypeOK'
  OBVIOUS
<1>n. /\ now \in Time /\ 0 \in Time /\ {} \in SUBSET Peer /\ Peer \in SUBSET Peer
      /\ 0 \in 0 .. MaxScore /\ Neutral \in 0 .. MaxScore
  BY TimeAssumption, ScoreAssumption DEF TypeOK, Time
<1>p. {"idle", "ban", "insert", "zero", "lift", "neutral", "sweep"} = Pcs
  BY DEF Pcs
<1>1. ASSUME NEW p \in Peer, NEW n \in Amounts, IncreaseReputation(p, n) PROVE TypeOK'
  <2>1. scores' \in [Peer -> Score \cup {None}]
    BY <1>1, ReportType, SetScoreType DEF IncreaseReputation
  <2> QED BY <1>1, <2>1 DEF IncreaseReputation, TypeOK
<1>2. ASSUME NEW t \in Thread, NEW p \in Peer, NEW n \in Amounts, DecreaseReputation(t, p, n)
      PROVE  TypeOK'
  <2>1. scores' \in [Peer -> Score \cup {None}]
    BY <1>2, ReportType, SetScoreType DEF DecreaseReputation
  <2>2. NewTask("ban", p, 0, {}) \in Task
    BY <1>n, <1>p, NewTaskType
  <2>4. leftLow' \in [Peer -> BOOLEAN]
    BY <1>2, Zenon DEF DecreaseReputation, TypeOK
  <2>3. task' \in [Thread -> Task]
    <3>1. CASE Become(t, NewTask("ban", p, 0, {}))
      BY <3>1, <2>2, BecomeType
    <3>2. CASE task' = task
      BY <3>2 DEF TypeOK
    <3> QED BY <1>2, <3>1, <3>2 DEF DecreaseReputation
  <2> QED BY <1>2, <2>1, <2>3, <2>4 DEF DecreaseReputation, TypeOK
<1>3. ASSUME NEW t \in Thread, NEW p \in Peer, BanPeer(t, p) PROVE TypeOK'
  <2>1. task' \in [Thread -> Task]
    BY <1>3, <1>n, <1>p, NewTaskType, BecomeType DEF BanPeer
  <2> QED BY <1>3, <2>1 DEF BanPeer, TypeOK
<1>4. ASSUME NEW t \in Thread, InsertBan(t) PROVE TypeOK'
  <2>1. task[t].at \in Time /\ [task[t] EXCEPT !.pc = "zero"] \in Task
    BY <1>p, TaskFields DEF Task
  <2>2. task' \in [Thread -> Task]
    BY <1>4, <2>1, BecomeType DEF InsertBan
  <2>3. blocklist' \in [Peer -> Time \cup {None}] /\ leftLow' \in [Peer -> BOOLEAN]
    BY <1>4, <2>1 DEF InsertBan, TypeOK
  <2> QED BY <1>4, <2>2, <2>3 DEF InsertBan, TypeOK
<1>5. ASSUME NEW t \in Thread, ZeroScore(t) PROVE TypeOK'
  <2>1. task[t].peer \in Peer
    BY <1>5 DEF ZeroScore, AtWork, PeerKnown
  <2>2. scores' \in [Peer -> Score \cup {None}]
    BY <1>5, <1>n, <2>1, SetScoreType DEF ZeroScore
  <2>3. task' \in [Thread -> Task]
    BY <1>5, IdleTaskType, BecomeType DEF ZeroScore
  <2>4. leftLow' \in [Peer -> BOOLEAN]
    BY <1>5, <2>1 DEF ZeroScore, TypeOK
  <2> QED BY <1>5, <2>2, <2>3, <2>4 DEF ZeroScore, TypeOK
<1>6. ASSUME NEW t \in Thread, NEW p \in Peer, UnbanPeer(t, p) PROVE TypeOK'
  <2>1. task' \in [Thread -> Task]
    BY <1>6, <1>n, <1>p, NewTaskType, BecomeType DEF UnbanPeer
  <2> QED BY <1>6, <2>1, TakeOffType DEF UnbanPeer, TypeOK
<1>7. ASSUME NEW t \in Thread, NEW p \in Peer, IsBanned(t, p) PROVE TypeOK'
  <2>1. blocklist[p] \in Time
    BY <1>7 DEF IsBanned, TypeOK
  <2>2. NewTask("lift", p, blocklist[p], {}) \in Task
    BY <2>1, <1>n, <1>p, NewTaskType
  <2>3. task' \in [Thread -> Task]
    BY <1>7, <2>2, BecomeType DEF IsBanned
  <2> QED BY <1>7, <2>3 DEF IsBanned, TypeOK
<1>8. ASSUME NEW t \in Thread, LiftBan(t) PROVE TypeOK'
  <2>1. task[t].peer \in Peer
    BY <1>8 DEF LiftBan, AtWork, PeerKnown
  <2>2. NewTask("neutral", task[t].peer, 0, {}) \in Task
    BY <2>1, <1>n, <1>p, NewTaskType
  <2>3. task' \in [Thread -> Task]
    BY <1>8, <2>2, IdleTaskType, BecomeType DEF LiftBan
  <2>4. blocklist' \in [Peer -> Time \cup {None}]
    BY <1>8, <2>1, TakeOffType DEF LiftBan, TypeOK
  <2> QED BY <1>8, <2>3, <2>4 DEF LiftBan, TypeOK
<1>9. ASSUME NEW t \in Thread, ResetScore(t) PROVE TypeOK'
  <2>1. task[t].peer \in Peer
    BY <1>9 DEF ResetScore, AtWork, PeerKnown
  <2>2. scores' \in [Peer -> Score \cup {None}]
    BY <1>9, <1>n, <2>1, SetScoreType DEF ResetScore
  <2>3. task' \in [Thread -> Task]
    BY <1>9, IdleTaskType, BecomeType DEF ResetScore
  <2>4. leftLow' \in [Peer -> BOOLEAN]
    BY <1>9 DEF ResetScore, TypeOK
  <2> QED BY <1>9, <2>2, <2>3, <2>4 DEF ResetScore, TypeOK
<1>10. ASSUME NEW t \in Thread, StartCleanup(t) PROVE TypeOK'
  <2>1. task' \in [Thread -> Task]
    BY <1>10, <1>n, <1>p, NewTaskType, BecomeType DEF StartCleanup
  <2> QED BY <1>10, <2>1 DEF StartCleanup, TypeOK
<1>11. ASSUME NEW t \in Thread, NEW p \in Peer, SweepBan(t, p) PROVE TypeOK'
  <2>1. [task[t] EXCEPT !.todo = @ \ {p}] \in Task
    BY TaskFields DEF Task
  <2>2. task' \in [Thread -> Task]
    BY <1>11, <2>1, BecomeType DEF SweepBan
  <2>3. blocklist' \in [Peer -> Time \cup {None}] /\ leftLow' \in [Peer -> BOOLEAN]
    BY <1>11, TakeOffType DEF SweepBan, TypeOK
  <2> QED BY <1>11, <2>2, <2>3 DEF SweepBan, TypeOK
<1>12. ASSUME NEW t \in Thread, FinishCleanup(t) PROVE TypeOK'
  <2>1. task' \in [Thread -> Task]
    BY <1>12, IdleTaskType, BecomeType DEF FinishCleanup
  <2> QED BY <1>12, <2>1 DEF FinishCleanup, TypeOK
<1>13. ASSUME Tick PROVE TypeOK'
  BY <1>13, TimeAssumption DEF Tick, TypeOK, Time
<1>14. ASSUME UNCHANGED vars PROVE TypeOK'
  BY <1>14 DEF vars, TypeOK
<1> QED
  BY <1>1, <1>2, <1>3, <1>4, <1>5, <1>6, <1>7, <1>8, <1>9, <1>10, <1>11, <1>12,
     <1>13, <1>14 DEF Next

\* The clock never goes back.
LEMMA ClockStep == ASSUME TypeOK, [Next]_vars PROVE now' \in {now, now + 1}
BY DEF Next, vars, IncreaseReputation, DecreaseReputation, BanPeer, InsertBan, ZeroScore,
       UnbanPeer, IsBanned, LiftBan, ResetScore, StartCleanup, SweepBan, FinishCleanup, Tick

\* What a step makes of one thread's task.
LEMMA TaskStep ==
    ASSUME TypeOK, PeerKnown, [Next]_vars, NEW t \in Thread, task'[t] # task[t]
    PROVE  \/ task'[t] = IdleTask
           \/ \E p \in Peer :
                 \/ task'[t] \in {NewTask("ban", p, 0, {}), NewTask("neutral", p, 0, {})}
                 \/ task'[t] = NewTask("insert", p, now, {})
                 \/ IsBanned(t, p) /\ task'[t] = NewTask("lift", p, blocklist[p], {})
           \/ InsertBan(t) /\ task'[t] = [task[t] EXCEPT !.pc = "zero"]
           \/ task'[t] = NewTask("sweep", None, now, Peer)
           \/ \E p \in Peer : AtWork(t, "sweep") /\ task'[t] = [task[t] EXCEPT !.todo = @ \ {p}]
<1>1. ASSUME NEW u \in Thread, NEW new, Become(u, new)
      PROVE  u = t /\ task'[t] = new
  BY <1>1 DEF Become, TypeOK
<1>2. ~ (\E p \in Peer, n \in Amounts : IncreaseReputation(p, n)) /\ ~ Tick /\ ~ UNCHANGED vars
  BY DEF IncreaseReputation, Tick, vars
<1>3. ASSUME NEW u \in Thread, NEW p \in Peer, NEW n \in Amounts, DecreaseReputation(u, p, n)
      PROVE  task'[t] = NewTask("ban", p, 0, {})
  <2>1. Become(u, NewTask("ban", p, 0, {})) \/ task' = task
    BY <1>3 DEF DecreaseReputation
  <2> QED BY <2>1, <1>1
<1>4. ASSUME NEW u \in Thread, NEW p \in Peer, BanPeer(u, p)
      PROVE  task'[t] = NewTask("insert", p, now, {})
  BY <1>4, <1>1 DEF BanPeer
<1>5. ASSUME NEW u \in Thread, NEW p \in Peer, UnbanPeer(u, p)
      PROVE  task'[t] = NewTask("neutral", p, 0, {})
  BY <1>5, <1>1 DEF UnbanPeer
<1>6. ASSUME NEW u \in Thread, NEW p \in Peer, IsBanned(u, p)
      PROVE  u = t /\ task'[t] = NewTask("lift", p, blocklist[p], {})
  BY <1>6, <1>1 DEF IsBanned
<1>7. ASSUME NEW u \in Thread, NEW p \in Peer, SweepBan(u, p)
      PROVE  AtWork(t, "sweep") /\ task'[t] = [task[t] EXCEPT !.todo = @ \ {p}]
  BY <1>7, <1>1 DEF SweepBan
<1>8. ASSUME NEW u \in Thread, InsertBan(u)
      PROVE  InsertBan(t) /\ task'[t] = [task[t] EXCEPT !.pc = "zero"]
  <2>1. u = t /\ task'[t] = [task[u] EXCEPT !.pc = "zero"]
    BY <1>8, <1>1 DEF InsertBan
  <2> QED BY <1>8, <2>1
<1>9. ASSUME NEW u \in Thread, ZeroScore(u) \/ ResetScore(u) \/ FinishCleanup(u)
      PROVE  task'[t] = IdleTask
  BY <1>9, <1>1 DEF ZeroScore, ResetScore, FinishCleanup
<1>10. ASSUME NEW u \in Thread, LiftBan(u)
       PROVE  task'[t] = IdleTask \/ \E p \in Peer : task'[t] = NewTask("neutral", p, 0, {})
  <2>1. task[u].peer \in Peer
    BY <1>10 DEF LiftBan, AtWork, PeerKnown
  <2>2. Become(u, NewTask("neutral", task[u].peer, 0, {})) \/ Become(u, IdleTask)
    BY <1>10 DEF LiftBan
  <2> QED BY <2>1, <2>2, <1>1
<1>11. ASSUME NEW u \in Thread, StartCleanup(u)
       PROVE  task'[t] = NewTask("sweep", None, now, Peer)
  BY <1>11, <1>1 DEF StartCleanup
<1> QED
  BY <1>2, <1>3, <1>4, <1>5, <1>6, <1>7, <1>8, <1>9, <1>10, <1>11 DEF Next

\* Every step keeps the invariant.
LEMMA InvStep == Inv /\ [Next]_vars => Inv'
<1> SUFFICES ASSUME Inv, [Next]_vars PROVE Inv'
  OBVIOUS
<1>0. TypeOK /\ PeerKnown /\ SawExpired /\ ClockBefore
  BY DEF Inv
<1>1. TypeOK'
  BY <1>0, TypeStep
<1>2. now \in Nat /\ now' \in {now, now + 1} /\ BanDuration \in Nat
  BY <1>0, ClockStep, TimeAssumption DEF TypeOK, Time
<1>3. ASSUME NEW t \in Thread
      PROVE  /\ task'[t].pc \in {"ban", "insert", "zero", "lift", "neutral"} => task'[t].peer \in Peer
             /\ task'[t].pc = "lift" => now' - task'[t].at >= BanDuration
             /\ task'[t].at <= now'
  <2> DEFINE Goal == /\ task'[t].pc \in {"ban", "insert", "zero", "lift", "neutral"} => task'[t].peer \in Peer
                     /\ task'[t].pc = "lift" => now' - task'[t].at >= BanDuration
                     /\ task'[t].at <= now'
  <2>f. /\ task[t] \in Task /\ task[t].at \in Nat /\ task[t].at <= now
        /\ task[t].pc = "lift" => now - task[t].at >= BanDuration
        /\ task[t].pc \in {"ban", "insert", "zero", "lift", "neutral"} => task[t].peer \in Peer
    BY <1>0, TaskFields, TimeAssumption DEF Time, SawExpired, ClockBefore, PeerKnown, AtWork
  <2>g. ASSUME NEW pc, NEW p, NEW n, NEW todo
        PROVE  /\ NewTask(pc, p, n, todo).pc = pc /\ NewTask(pc, p, n, todo).peer = p
               /\ NewTask(pc, p, n, todo).at = n
    BY DEF NewTask
  <2>1. CASE task'[t] = task[t]
    BY <2>1, <2>f, <1>2
  <2>2. CASE task'[t] = IdleTask
    BY <2>2, <2>g, <1>2 DEF IdleTask
  <2>3. ASSUME NEW p \in Peer,
               task'[t] \in {NewTask("ban", p, 0, {}), NewTask("neutral", p, 0, {})}
        PROVE  Goal
    BY <2>3, <2>g, <1>2
  <2>4. ASSUME NEW p \in Peer, task'[t] = NewTask("insert", p, now, {}) PROVE Goal
    BY <2>4, <2>g, <1>2
  <2>5. ASSUME NEW p \in Peer, IsBanned(t, p), task'[t] = NewTask("lift", p, blocklist[p], {})
        PROVE  Goal
    <3>1. blocklist[p] \in Nat /\ now - blocklist[p] >= BanDuration
      BY <2>5, <1>0, TimeAssumption DEF IsBanned, TypeOK, Time
    <3> QED BY <2>5, <2>g, <1>2, <3>1
  <2>6. CASE InsertBan(t) /\ task'[t] = [task[t] EXCEPT !.pc = "zero"]
    <3>1. /\ task'[t].pc = "zero" /\ task'[t].peer = task[t].peer
          /\ task'[t].at = task[t].at
      BY <2>6, <2>f DEF Task
    <3>2. task[t].peer \in Peer
      BY <2>6, <2>f DEF InsertBan, AtWork
    <3> QED BY <3>1, <3>2, <2>f, <1>2
  <2>7. CASE task'[t] = NewTask("sweep", None, now, Peer)
    BY <2>7, <2>g, <1>2
  <2>8. ASSUME NEW p \in Peer, AtWork(t, "sweep"), task'[t] = [task[t] EXCEPT !.todo = @ \ {p}]
        PROVE  Goal
    <3>1. task'[t].pc = "sweep" /\ task'[t].at = task[t].at
      BY <2>8, <2>f DEF AtWork, Task
    <3> QED BY <3>1, <2>f, <1>2
  <2> QED BY <2>1, <2>2, <2>3, <2>4, <2>5, <2>6, <2>7, <2>8, <1>0, TaskStep
<1>4. ASSUME NEW p \in Peer, blocklist'[p] # None PROVE blocklist'[p] <= now'
  <2>1. blocklist'[p] = blocklist[p] \/ \E t \in Thread : blocklist'[p] = task[t].at
    <3>1. ASSUME NEW q, TakeOff(q) PROVE blocklist'[p] = blocklist[p]
      BY <1>0, <1>4, <3>1 DEF TakeOff, TypeOK
    <3>2. ASSUME NEW t \in Thread, InsertBan(t)
          PROVE  blocklist'[p] = blocklist[p] \/ blocklist'[p] = task[t].at
      BY <1>0, <3>2 DEF InsertBan, TypeOK
    <3> QED
      BY <3>1, <3>2
      DEF Next, vars, IncreaseReputation, DecreaseReputation, BanPeer, ZeroScore, UnbanPeer,
          IsBanned, LiftBan, ResetScore, StartCleanup, SweepBan, FinishCleanup, Tick
  <2>2. CASE blocklist'[p] = blocklist[p]
    <3>1. blocklist[p] \in Nat /\ blocklist[p] <= now
      BY <1>0, <1>4, <2>2, TimeAssumption DEF ClockBefore, TypeOK, Time
    <3> QED BY <3>1, <2>2, <1>2
  <2>3. ASSUME NEW t \in Thread, blocklist'[p] = task[t].at PROVE blocklist'[p] <= now'
    <3>1. task[t].at \in Nat /\ task[t].at <= now
      BY <1>0, TaskFields, TimeAssumption DEF ClockBefore, Time
    <3> QED BY <3>1, <2>3, <1>2
  <2> QED BY <2>1, <2>2, <2>3
<1> QED BY <1>1, <1>3, <1>4 DEF Inv, PeerKnown, SawExpired, ClockBefore, AtWork

LEMMA InvHolds == Spec => []Inv
BY InitInv, InvStep, PTL DEF Spec

\* The types: scores stay between 0 and 100, whatever callers report and
\* however long nobody does.
THEOREM TypeCorrect == Spec => []TypeOK
<1>1. Inv => TypeOK
  BY DEF Inv
<1> QED BY <1>1, InvHolds, PTL

\* Decay does not push a score below the threshold.
LEMMA DecayKeepsAbove ==
    ASSUME TypeOK, BanThreshold <= Neutral, NEW s \in Score, ApplyDecay(s) < BanThreshold
    PROVE  s.score < BanThreshold
<1> DEFINE decay == AtMost(Hours(s.last_update) * DecayRate, Byte - 1)
<1>1. s.score \in Nat /\ s.last_update \in Time /\ Neutral \in Nat /\ BanThreshold \in Nat
  BY ScoreAssumption DEF Score
<1>2. decay \in Nat
  <2>1. Hours(s.last_update) \in Nat
    BY <1>1, HoursType
  <2>2. Hours(s.last_update) * DecayRate \in Nat
    BY <2>1, ScoreAssumption
  <2> QED BY <2>2, ScoreAssumption DEF AtMost
<1>3. ApplyDecay(s) = IF s.score > Neutral THEN AtLeast(s.score - decay, Neutral)
                      ELSE AtMost(s.score + decay, Neutral)
  BY DEF ApplyDecay
<1> HIDE DEF decay
<1> QED BY <1>1, <1>2, <1>3 DEF AtMost, AtLeast

\* A thread that will put the peer on the list, or make its score neutral.
AtPeer(t, p) == task[t].peer = p /\ task[t].pc \in {"ban", "insert", "neutral"}
AtPeerNext(t, p) == task'[t].peer = p /\ task'[t].pc \in {"ban", "insert", "neutral"}

\* Why the score of a peer may be low, before a step and after it.
MayBeLow(p) == blocklist[p] # None \/ leftLow[p] \/ \E t \in Thread : AtPeer(t, p)
MayBeLowNext(p) == blocklist'[p] # None \/ leftLow'[p] \/ \E t \in Thread : AtPeerNext(t, p)

Low(p) == scores[p] # None /\ scores[p].score < BanThreshold
LowNext(p) == scores'[p] # None /\ scores'[p].score < BanThreshold

\* A step of a thread that is not at the peer, and of the lists of others only,
\* leaves the reason as it is.
LEMMA ReasonStays ==
    ASSUME TypeOK, NEW p \in Peer, NEW t \in Thread, NEW new, Become(t, new),
           ~ AtPeer(t, p), MayBeLow(p),
           blocklist'[p] = blocklist[p], leftLow'[p] = leftLow[p]
    PROVE  MayBeLowNext(p)
<1>1. \A u \in Thread : u # t => task'[u] = task[u]
  BY DEF Become, TypeOK
<1>2. ASSUME NEW u \in Thread, AtPeer(u, p) PROVE AtPeerNext(u, p)
  BY <1>1, <1>2 DEF AtPeer, AtPeerNext
<1> QED BY <1>2 DEF MayBeLow, MayBeLowNext

\* A report by which a score is low was made on a low score, or comes with a ban.
LEMMA ReportStep ==
    ASSUME TypeOK, BanThreshold <= Neutral, NEW p \in Peer, Low(p) => MayBeLow(p), LowNext(p),
           NEW q \in Peer, NEW n \in Amounts,
           IncreaseReputation(q, n) \/ \E t \in Thread : DecreaseReputation(t, q, n)
    PROVE  MayBeLowNext(p)
<1>n. Neutral \in Nat /\ BanThreshold \in Nat
  BY ScoreAssumption
<1>1. ASSUME IncreaseReputation(q, n) PROVE Low(p)
  <2> DEFINE was == ApplyDecay(Entry(q))
             is == AtMost(was + n, MaxScore)
  <2>1. scores' = [scores EXCEPT ![q] = [score |-> is, last_update |-> now]]
    BY <1>1 DEF IncreaseReputation, SetScore
  <2>2. was \in 0 .. MaxScore /\ n \in Nat /\ MaxScore \in Nat
    BY EntryType, DecayType, ScoreAssumption
  <2> HIDE DEF was
  <2>3. was <= is /\ is \in Nat
    BY <2>2 DEF AtMost
  <2> HIDE DEF is
  <2>4. CASE p # q
    BY <2>1, <2>4 DEF Low, LowNext, TypeOK
  <2>5. CASE p = q
    <3>1. scores'[p] = [score |-> is, last_update |-> now]
      BY <2>1, <2>5 DEF TypeOK
    <3>2. is < BanThreshold
      BY <3>1 DEF LowNext
    <3>3. was < BanThreshold
      BY <3>2, <2>2, <2>3, <1>n
    <3>4. Entry(p).score < BanThreshold
      BY <3>3, <2>5, EntryType, DecayKeepsAbove DEF was
    <3>5. scores[p] = None => Entry(p).score = Neutral
      BY DEF Entry
    <3> QED BY <3>4, <3>5, <1>n DEF Entry, Low
  <2> QED BY <2>4, <2>5
<1>2. CASE IncreaseReputation(q, n)
  <2>1. UNCHANGED <<blocklist, task, leftLow>>
    BY <1>2 DEF IncreaseReputation
  <2> QED BY <2>1, <1>1, <1>2 DEF MayBeLow, MayBeLowNext, AtPeer, AtPeerNext
<1>3. ASSUME NEW t \in Thread, DecreaseReputation(t, q, n) PROVE MayBeLowNext(p)
  <2> DEFINE is == AtLeast(ApplyDecay(Entry(q)) - n, 0)
  <2>1. /\ AtWork(t, "idle")
        /\ scores' = [scores EXCEPT ![q] = [score |-> is, last_update |-> now]]
        /\ leftLow' = [leftLow EXCEPT ![q] = @ /\ is >= BanThreshold]
        /\ IF is < BanThreshold THEN Become(t, NewTask("ban", q, 0, {})) ELSE task' = task
        /\ blocklist' = blocklist
    BY <1>3 DEF DecreaseReputation, SetScore
  <2> HIDE DEF is
  <2>2. CASE p = q
    <3>1. is < BanThreshold
      BY <2>1, <2>2 DEF LowNext, TypeOK
    <3>2. task'[t] = NewTask("ban", p, 0, {})
      BY <2>1, <2>2, <3>1 DEF Become, TypeOK
    <3> QED BY <3>2 DEF MayBeLowNext, AtPeerNext, NewTask
  <2>3. CASE p # q
    <3>1. MayBeLow(p) /\ leftLow'[p] = leftLow[p] /\ blocklist'[p] = blocklist[p]
      BY <2>1, <2>3 DEF Low, LowNext, TypeOK
    <3>2. ~ AtPeer(t, p)
      BY <2>1 DEF AtPeer, AtWork
    <3>3. CASE task' = task
      BY <3>1, <3>3 DEF MayBeLow, MayBeLowNext, AtPeer, AtPeerNext
    <3>4. CASE Become(t, NewTask("ban", q, 0, {}))
      BY <3>1, <3>2, <3>4, ReasonStays
    <3> QED BY <2>1, <3>3, <3>4
  <2> QED BY <2>2, <2>3
<1> QED BY <1>2, <1>3

\* A step of a ban leaves a peer with a low score on the list, or without a ban.
LEMMA BanLowStep ==
    ASSUME TypeOK, PeerKnown, NEW p \in Peer, Low(p) => MayBeLow(p), LowNext(p),
           NEW t \in Thread,
           InsertBan(t) \/ ZeroScore(t) \/ \E q \in Peer : BanPeer(t, q)
    PROVE  MayBeLowNext(p)
<1>1. ASSUME NEW q \in Peer, BanPeer(t, q) PROVE MayBeLowNext(p)
  <2>1. Become(t, NewTask("insert", q, now, {})) /\ UNCHANGED <<scores, blocklist, leftLow>>
    BY <1>1 DEF BanPeer
  <2>2. CASE q = p
    <3>1. task'[t] = NewTask("insert", p, now, {})
      BY <2>1, <2>2 DEF Become, TypeOK
    <3> QED BY <3>1 DEF MayBeLowNext, AtPeerNext, NewTask
  <2>3. CASE q # p
    <3>1. ~ AtPeer(t, p)
      BY <1>1, <2>3 DEF BanPeer, AtPeer, AtWork
    <3> QED BY <2>1, <3>1, ReasonStays DEF Low, LowNext
  <2> QED BY <2>2, <2>3
<1>2. ASSUME InsertBan(t) PROVE MayBeLowNext(p)
  <2>1. task[t].peer \in Peer /\ task[t].at # None
    BY <1>2, TaskFields, NoneAssumption DEF InsertBan, AtWork, PeerKnown
  <2>2. CASE task[t].peer = p
    BY <1>2, <2>1, <2>2 DEF InsertBan, MayBeLowNext, TypeOK
  <2>3. CASE task[t].peer # p
    <3>1. ~ AtPeer(t, p)
      BY <2>3 DEF AtPeer
    <3>2. /\ scores' = scores /\ blocklist'[p] = blocklist[p] /\ leftLow'[p] = leftLow[p]
          /\ Become(t, [task[t] EXCEPT !.pc = "zero"])
      BY <1>2, <2>3 DEF InsertBan, TypeOK
    <3> QED BY <3>1, <3>2, ReasonStays DEF Low, LowNext
  <2> QED BY <2>2, <2>3
<1>3. ASSUME ZeroScore(t) PROVE MayBeLowNext(p)
  <2>1. task[t].peer \in Peer
    BY <1>3 DEF ZeroScore, AtWork, PeerKnown
  <2>2. CASE task[t].peer = p
    BY <1>3, <2>2 DEF ZeroScore, MayBeLowNext, TypeOK
  <2>3. CASE task[t].peer # p
    <3>1. ~ AtPeer(t, p)
      BY <2>3 DEF AtPeer
    <3>2. /\ scores'[p] = scores[p] /\ blocklist'[p] = blocklist[p] /\ leftLow'[p] = leftLow[p]
          /\ Become(t, IdleTask)
      BY <1>3, <2>3 DEF ZeroScore, SetScore, TypeOK
    <3> QED BY <3>1, <3>2, ReasonStays DEF Low, LowNext
  <2> QED BY <2>2, <2>3
<1> QED BY <1>1, <1>2, <1>3

\* A ban that goes leaves a thread that will reset the score, or a cleanup behind.
LEMMA UnbanLowStep ==
    ASSUME TypeOK, PeerKnown, BanThreshold <= Neutral, NEW p \in Peer,
           Low(p) => MayBeLow(p), LowNext(p), NEW t \in Thread,
           LiftBan(t) \/ ResetScore(t) \/ \E q \in Peer : UnbanPeer(t, q) \/ SweepBan(t, q)
    PROVE  MayBeLowNext(p)
<1>1. ASSUME NEW q \in Peer, TakeOff(q), Become(t, NewTask("neutral", q, 0, {})),
             scores' = scores, leftLow' = leftLow, AtWork(t, "idle") \/ AtWork(t, "lift")
      PROVE  MayBeLowNext(p)
  <2>1. CASE q = p
    <3>1. task'[t] = NewTask("neutral", p, 0, {})
      BY <1>1, <2>1 DEF Become, TypeOK
    <3> QED BY <3>1 DEF MayBeLowNext, AtPeerNext, NewTask
  <2>2. CASE q # p
    <3>1. ~ AtPeer(t, p)
      BY <1>1 DEF AtPeer, AtWork
    <3>2. blocklist'[p] = blocklist[p]
      BY <1>1, <2>2 DEF TakeOff, TypeOK
    <3> QED BY <1>1, <3>1, <3>2, ReasonStays DEF Low, LowNext
  <2> QED BY <2>1, <2>2
<1>2. ASSUME NEW q \in Peer, UnbanPeer(t, q) PROVE MayBeLowNext(p)
  BY <1>1, <1>2 DEF UnbanPeer
<1>3. ASSUME LiftBan(t) PROVE MayBeLowNext(p)
  <2>1. task[t].peer \in Peer /\ AtWork(t, "lift")
    BY <1>3 DEF LiftBan, AtWork, PeerKnown
  <2>2. ~ AtPeer(t, p)
    BY <2>1 DEF AtPeer, AtWork
  <2>3. CASE blocklist[task[t].peer] # None
    BY <1>1, <1>3, <2>1, <2>3 DEF LiftBan
  <2>4. CASE blocklist[task[t].peer] = None
    <3>1. Become(t, IdleTask) /\ UNCHANGED <<scores, blocklist, leftLow>>
      BY <1>3, <2>4 DEF LiftBan
    <3> QED BY <2>2, <3>1, ReasonStays DEF Low, LowNext
  <2> QED BY <2>3, <2>4
<1>4. ASSUME ResetScore(t) PROVE MayBeLowNext(p)
  <2>1. task[t].peer \in Peer
    BY <1>4 DEF ResetScore, AtWork, PeerKnown
  <2>2. task[t].peer # p
    <3>1. SUFFICES ASSUME task[t].peer = p PROVE FALSE
      OBVIOUS
    <3>2. scores'[p] = [score |-> Neutral, last_update |-> now]
      BY <1>4, <3>1 DEF ResetScore, SetScore, TypeOK
    <3> QED BY <3>2, ScoreAssumption DEF LowNext
  <2>3. ~ AtPeer(t, p)
    BY <2>2 DEF AtPeer
  <2>4. /\ scores'[p] = scores[p] /\ blocklist'[p] = blocklist[p] /\ leftLow'[p] = leftLow[p]
        /\ Become(t, IdleTask)
    BY <1>4, <2>2 DEF ResetScore, SetScore, TypeOK
  <2> QED BY <2>3, <2>4, ReasonStays DEF Low, LowNext
<1>5. ASSUME NEW q \in Peer, SweepBan(t, q) PROVE MayBeLowNext(p)
  <2>1. /\ ~ AtPeer(t, p) /\ scores' = scores
        /\ Become(t, [task[t] EXCEPT !.todo = @ \ {q}])
    BY <1>5 DEF SweepBan, AtPeer, AtWork
  <2>2. ASSUME UNCHANGED <<blocklist, leftLow>> PROVE MayBeLowNext(p)
    BY <2>1, <2>2, ReasonStays DEF Low, LowNext
  <2>3. ASSUME TakeOff(q), leftLow' = [leftLow EXCEPT ![q] = TRUE] PROVE MayBeLowNext(p)
    <3>1. CASE q = p
      BY <2>3, <3>1 DEF MayBeLowNext, TypeOK
    <3>2. CASE q # p
      <4>1. blocklist'[p] = blocklist[p] /\ leftLow'[p] = leftLow[p]
        BY <2>3, <3>2 DEF TakeOff, TypeOK
      <4> QED BY <2>1, <4>1, ReasonStays DEF Low, LowNext
    <3> QED BY <3>1, <3>2
  <2> QED BY <1>5, <2>2, <2>3 DEF SweepBan
<1> QED BY <1>2, <1>3, <1>4, <1>5

LEMMA LowStep ==
    ASSUME BanThreshold <= Neutral, Inv, LowIsBanned, [Next]_vars
    PROVE  LowIsBanned'
<1>0. TypeOK /\ PeerKnown
  BY DEF Inv
<1> SUFFICES ASSUME NEW p \in Peer, LowNext(p) PROVE MayBeLowNext(p)
  BY DEF LowIsBanned, LowNext, MayBeLowNext, AtPeerNext
<1>1. Low(p) => MayBeLow(p)
  BY DEF LowIsBanned, Low, MayBeLow, AtPeer
<1>2. ASSUME NEW t \in Thread, NEW new, Become(t, new), ~ AtPeer(t, p),
             UNCHANGED <<scores, blocklist, leftLow>>
      PROVE  MayBeLowNext(p)
  BY <1>0, <1>1, <1>2, ReasonStays DEF Low, LowNext
<1>3. ASSUME UNCHANGED <<scores, blocklist, task, leftLow>> PROVE MayBeLowNext(p)
  BY <1>1, <1>3 DEF Low, LowNext, MayBeLow, MayBeLowNext, AtPeer, AtPeerNext
<1>4. ASSUME NEW t \in Thread, NEW q \in Peer, IsBanned(t, q) PROVE MayBeLowNext(p)
  <2>1. ~ AtPeer(t, p)
    BY <1>4 DEF IsBanned, AtPeer, AtWork
  <2> QED BY <1>2, <1>4, <2>1 DEF IsBanned
<1>5. ASSUME NEW t \in Thread, StartCleanup(t) \/ FinishCleanup(t) PROVE MayBeLowNext(p)
  <2>1. ~ AtPeer(t, p)
    BY <1>5 DEF StartCleanup, FinishCleanup, AtPeer, AtWork
  <2> QED BY <1>2, <1>5, <2>1 DEF StartCleanup, FinishCleanup
<1>6. CASE Tick \/ UNCHANGED vars
  BY <1>3, <1>6 DEF Tick, vars
<1>7. ASSUME NEW q \in Peer, NEW n \in Amounts,
             IncreaseReputation(q, n) \/ \E t \in Thread : DecreaseReputation(t, q, n)
      PROVE  MayBeLowNext(p)
  BY <1>0, <1>1, <1>7, ReportStep
<1>8. ASSUME NEW t \in Thread,
             InsertBan(t) \/ ZeroScore(t) \/ \E q \in Peer : BanPeer(t, q)
      PROVE  MayBeLowNext(p)
  BY <1>0, <1>1, <1>8, BanLowStep
<1>9. ASSUME NEW t \in Thread,
             LiftBan(t) \/ ResetScore(t) \/ \E q \in Peer : UnbanPeer(t, q) \/ SweepBan(t, q)
      PROVE  MayBeLowNext(p)
  BY <1>0, <1>1, <1>9, UnbanLowStep
<1> QED BY <1>4, <1>5, <1>6, <1>7, <1>8, <1>9 DEF Next

\* decrease_reputation writes the score and bans in separate sections: with a
\* threshold not above neutral, as the defaults have it, no interleaving leaves a
\* peer with a score below the threshold and no ban, on the list or to come, but
\* where a cleanup or the late zero of a ban left it so and no report came since.
THEOREM LowScoresAreBanned ==
    ASSUME BanThreshold <= Neutral
    PROVE  Spec => []LowIsBanned
<1>1. Init => LowIsBanned
  BY DEF Init, LowIsBanned
<1>2. Inv /\ LowIsBanned /\ [Next]_vars => LowIsBanned'
  BY LowStep
<1> QED BY <1>1, <1>2, InvHolds, PTL DEF Spec

\* One step takes a ban that has not run out away only as BansLast says.
LEMMA BanStep ==
    ASSUME Inv, [Next]_vars, NEW p \in Peer, Banned(p), blocklist'[p] = None
    PROVE  \E t \in Thread :
              /\ task'[t].pc = "neutral" /\ task'[t].peer = p
              /\ \/ AtWork(t, "idle")
                 \/ AtWork(t, "lift") /\ now - task[t].at >= BanDuration
<1>0. TypeOK /\ PeerKnown /\ SawExpired /\ ClockBefore
  BY DEF Inv
<1>1. blocklist[p] \in Time /\ now - blocklist[p] < BanDuration /\ blocklist[p] # blocklist'[p]
  BY <1>0 DEF Banned, TypeOK
<1>2. ASSUME NEW q \in Peer, TakeOff(q) PROVE q = p
  BY <1>0, <1>1, <1>2 DEF TakeOff, TypeOK
<1>3. ASSUME NEW t \in Thread, Become(t, NewTask("neutral", p, 0, {}))
      PROVE  task'[t].pc = "neutral" /\ task'[t].peer = p
  BY <1>0, <1>3 DEF Become, NewTask, TypeOK
<1>4. ASSUME NEW t \in Thread, NEW q \in Peer, UnbanPeer(t, q)
      PROVE  AtWork(t, "idle") /\ task'[t].pc = "neutral" /\ task'[t].peer = p
  BY <1>4, <1>2, <1>3 DEF UnbanPeer
<1>5. ASSUME NEW t \in Thread, LiftBan(t)
      PROVE  /\ AtWork(t, "lift") /\ now - task[t].at >= BanDuration
             /\ task'[t].pc = "neutral" /\ task'[t].peer = p
  <2>1. task[t].peer \in Peer /\ AtWork(t, "lift")
    BY <1>5, <1>0 DEF LiftBan, PeerKnown, AtWork
  <2>2. TakeOff(task[t].peer) /\ Become(t, NewTask("neutral", task[t].peer, 0, {}))
    BY <1>5, <1>1 DEF LiftBan
  <2>3. task[t].peer = p
    BY <2>1, <2>2, <1>2
  <2> QED BY <2>1, <2>2, <2>3, <1>0, <1>3 DEF SawExpired
<1>6. ASSUME NEW t \in Thread, NEW q \in Peer, SweepBan(t, q) PROVE FALSE
  <2>1. q = p /\ AtLeast(task[t].at - blocklist[q], 0) >= BanDuration
    BY <1>6, <1>1, <1>2 DEF SweepBan
  <2>2. /\ task[t].at \in Nat /\ task[t].at <= now /\ now \in Nat
        /\ blocklist[p] \in Nat /\ blocklist[p] <= now /\ BanDuration \in Nat
    BY <1>0, <1>1, TaskFields, TimeAssumption DEF ClockBefore, TypeOK, Time
  <2> QED BY <2>1, <2>2, <1>1 DEF AtLeast
<1>7. ASSUME NEW t \in Thread, InsertBan(t) PROVE FALSE
  <2>1. task[t].at # None
    BY <1>0, TaskFields, NoneAssumption
  <2> QED BY <1>7, <2>1, <1>0, <1>1 DEF InsertBan, TypeOK
<1> QED
  BY <1>1, <1>4, <1>5, <1>6, <1>7
  DEF Next, vars, IncreaseReputation, DecreaseReputation, BanPeer, ZeroScore, IsBanned,
      ResetScore, StartCleanup, FinishCleanup, Tick

\* A ban that has not run out is never lifted by a cleanup, however old the
\* clock it goes by, but by an operator, or by an is_banned that had seen an
\* earlier ban of the same peer run out.
THEOREM BansAreKept == Spec => BansLast
<1>1. Inv /\ [Next]_vars =>
         [\A p \in Peer : Banned(p) /\ blocklist'[p] = None =>
             \E t \in Thread :
                /\ task'[t].pc = "neutral" /\ task'[t].peer = p
                /\ \/ AtWork(t, "idle")
                   \/ AtWork(t, "lift") /\ now - task[t].at >= BanDuration]_vars
  BY BanStep
<1> QED BY <1>1, InvHolds, PTL DEF Spec, BansLast

\* What one tick does to a quotient and its remainder: the remainder goes on, or
\* starts again with the next quotient.
LEMMA NextQuotient ==
    ASSUME NEW x \in Int, NEW n \in Nat, n > 0
    PROVE  \/ (x + 1) \div n = x \div n /\ (x + 1) % n = (x % n) + 1
           \/ (x + 1) \div n = (x \div n) + 1 /\ (x + 1) % n = 0
<1>1. ASSUME NEW y \in Int
      PROVE  \E q \in Int, r \in Nat :
                q = y \div n /\ r = y % n /\ r < n /\ y = n * q + r
  <2>1. y \div n \in Int /\ y % n \in Nat /\ y % n < n /\ y = n * (y \div n) + (y % n)
    OBVIOUS
  <2> QED BY <2>1
<1>2. PICK q \in Int, r \in Nat : q = x \div n /\ r = x % n /\ r < n /\ x = n * q + r
  BY <1>1
<1>3. x + 1 \in Int
  OBVIOUS
<1>4. PICK s \in Int, t \in Nat :
         s = (x + 1) \div n /\ t = (x + 1) % n /\ t < n /\ x + 1 = n * s + t
  BY <1>1, <1>3
<1>5. \A a \in Int, b \in Int : a >= b => n * a >= n * b
  OBVIOUS
<1>6. \A a \in Int : n * (a + 1) = n * a + n /\ n * (a + 2) = n * a + n + n /\ n * a \in Int
  OBVIOUS
<1>7. s = q \/ s = q + 1
  <2>1. ASSUME s >= q + 2 PROVE FALSE
    <3>1. n * s >= n * q + n + n
      BY <1>5, <1>6, <2>1
    <3> QED BY <1>2, <1>4, <1>6, <3>1
  <2>2. ASSUME q >= s + 1 PROVE FALSE
    <3>1. n * q >= n * s + n
      BY <1>5, <1>6, <2>2
    <3> QED BY <1>2, <1>4, <1>6, <3>1
  <2> QED BY <2>1, <2>2
<1>8. CASE s = q
  <2>1. t = r + 1
    BY <1>2, <1>4, <1>6, <1>8
  <2> QED BY <2>1, <1>2, <1>4, <1>8
<1>9. CASE s = q + 1
  <2>1. t = 0
    BY <1>2, <1>4, <1>6, <1>9
  <2> QED BY <2>1, <1>2, <1>4, <1>9
<1> QED BY <1>7, <1>8, <1>9

\* A score and the hours it has not been reported on, as it is read.
Aged(score, hours) ==
    LET decay == AtMost(hours * DecayRate, Byte - 1)
    IN  IF score > Neutral THEN AtLeast(score - decay, Neutral)
        ELSE AtMost(score + decay, Neutral)

\* Read at a later hour, a score is no farther from neutral, and on the same side.
Closer(is, was) ==
    /\ FromNeutral(is) <= FromNeutral(was)
    /\ is > Neutral => was > Neutral
    /\ is < Neutral => was < Neutral

LEMMA AgedCloser ==
    ASSUME NEW score \in 0 .. MaxScore, NEW h \in Nat, NEW k \in Nat, h <= k
    PROVE  Closer(Aged(score, k), Aged(score, h))
<1> DEFINE cut(hours) == AtMost(hours * DecayRate, Byte - 1)
<1>1. /\ score \in Nat /\ Neutral \in Nat /\ DecayRate \in Nat
      /\ Byte - 1 \in Nat
  BY ScoreAssumption
<1>2. \A a \in Nat, b \in Nat, c \in Nat :
         a * c \in Nat /\ b * c \in Nat /\ (a <= b => a * c <= b * c)
  OBVIOUS
<1>3. PICK c \in Nat, d \in Nat : c = h * DecayRate /\ d = k * DecayRate /\ c <= d
  BY <1>1, <1>2
<1>4. PICK m \in Nat : m = Byte - 1
  BY <1>1
<1>5. PICK e \in Nat, f \in Nat : e = cut(h) /\ f = cut(k) /\ e <= f
  <2>1. AtMost(c, m) \in Nat /\ AtMost(d, m) \in Nat /\ AtMost(c, m) <= AtMost(d, m)
    BY <1>3 DEF AtMost
  <2>2. cut(h) = AtMost(c, m) /\ cut(k) = AtMost(d, m)
    BY <1>3, <1>4
  <2> HIDE DEF cut
  <2> QED BY <2>1, <2>2
<1>6. /\ Aged(score, h) = IF score > Neutral THEN AtLeast(score - e, Neutral)
                          ELSE AtMost(score + e, Neutral)
      /\ Aged(score, k) = IF score > Neutral THEN AtLeast(score - f, Neutral)
                          ELSE AtMost(score + f, Neutral)
  BY <1>5 DEF Aged
<1>7. PICK x \in Nat, n \in Nat : x = score /\ n = Neutral
  BY <1>1
<1>8. CASE x > n
  <2>1. Aged(score, h) = AtLeast(x - e, n) /\ Aged(score, k) = AtLeast(x - f, n)
    BY <1>6, <1>7, <1>8
  <2> QED BY <2>1, <1>5, <1>7, <1>8 DEF Closer, FromNeutral, AtLeast
<1>9. CASE ~ x > n
  <2>1. Aged(score, h) = AtMost(x + e, n) /\ Aged(score, k) = AtMost(x + f, n)
    BY <1>6, <1>7, <1>9
  <2> QED BY <2>1, <1>5, <1>7, <1>9 DEF Closer, FromNeutral, AtMost, AtLeast
<1> QED BY <1>8, <1>9, <1>7

\* The hours a score has not been reported on, as the clock and its byte give them.
HoursAt(time, last_update) == ((time - last_update) \div Hour) % Byte

LEMMA HoursGoOn ==
    ASSUME NEW time \in Nat, NEW n \in Nat
    PROVE  /\ HoursAt(time, n) \in Nat
           /\ HoursAt(time + 1, n) \in {HoursAt(time, n), HoursAt(time, n) + 1, 0}
<1>1. Hour \in Nat /\ Hour > 0 /\ Byte \in Nat /\ Byte > 0
  BY TimeAssumption, ScoreAssumption
<1>2. PICK x \in Int : x = time - n /\ x + 1 = (time + 1) - n
  OBVIOUS
<1>3. (x + 1) \div Hour = x \div Hour \/ (x + 1) \div Hour = (x \div Hour) + 1
  BY <1>1, NextQuotient
<1>4. PICK q \in Int : q = x \div Hour
  BY <1>1
<1>5. (q + 1) % Byte = (q % Byte) + 1 \/ (q + 1) % Byte = 0
  BY <1>1, NextQuotient
<1>6. HoursAt(time, n) = q % Byte
  BY <1>2, <1>4 DEF HoursAt
<1>7. HoursAt(time + 1, n) = q % Byte \/ HoursAt(time + 1, n) = (q + 1) % Byte
  BY <1>2, <1>3, <1>4 DEF HoursAt
<1>8. q % Byte \in Nat
  BY <1>1
<1> QED BY <1>5, <1>6, <1>7, <1>8

\* A step that leaves a score alone moves its reading towards neutral.
LEMMA DecayStep ==
    ASSUME TypeOK, [Next]_vars, NEW s \in Score
    PROVE  \/ Closer(Aged(s.score, HoursAt(now', s.last_update)),
                     Aged(s.score, HoursAt(now, s.last_update)))
           \/ HoursAt(now', s.last_update) = 0
<1>1. now \in Nat /\ s.last_update \in Nat /\ s.score \in 0 .. MaxScore
  BY TimeAssumption DEF TypeOK, Time, Score
<1>2. now' = now \/ now' = now + 1
  BY ClockStep
<1>3. PICK h \in Nat : h = HoursAt(now, s.last_update)
  BY <1>1, HoursGoOn
<1>4. HoursAt(now', s.last_update) \in {h, h + 1, 0}
  BY <1>1, <1>2, <1>3, HoursGoOn
<1>5. h <= h /\ h <= h + 1 /\ h + 1 \in Nat
  OBVIOUS
<1>6. Closer(Aged(s.score, h), Aged(s.score, h)) /\ Closer(Aged(s.score, h + 1), Aged(s.score, h))
  BY <1>1, <1>5, AgedCloser
<1> QED BY <1>3, <1>4, <1>6

\* apply_decay moves a score that nobody reports on towards 50 and not past it,
\* whatever the rate: hour by hour it is read no farther from neutral, but in the
\* hour in which the count of hours, cut to a u8, starts again from zero.
THEOREM ScoresDecay == Spec => DecayTowardsNeutral
<1> DEFINE Decays ==
              \A p \in Peer :
                 scores[p] # None /\ scores'[p] = scores[p] =>
                    LET was == ApplyDecay(scores[p])
                        is == ApplyDecay(scores[p])'
                    IN  \/ /\ FromNeutral(is) <= FromNeutral(was)
                           /\ is > Neutral => was > Neutral
                           /\ is < Neutral => was < Neutral
                        \/ Hours(scores[p].last_update)' = 0
<1>1. Inv /\ [Next]_vars => Decays
  <2> SUFFICES ASSUME Inv, [Next]_vars, NEW p \in Peer,
                      scores[p] # None, scores'[p] = scores[p]
               PROVE  \/ Closer(ApplyDecay(scores[p])', ApplyDecay(scores[p]))
                      \/ Hours(scores[p].last_update)' = 0
    BY DEF Closer
  <2>1. TypeOK /\ scores[p] \in Score
    BY DEF Inv, TypeOK
  <2>2. PICK s \in Score : s = scores[p] /\ s = scores'[p]
    BY <2>1
  <2>3. ApplyDecay(scores[p]) = Aged(s.score, HoursAt(now, s.last_update))
    BY <2>2 DEF ApplyDecay, Aged, Hours, HoursAt
  <2>4. ApplyDecay(scores[p])' = Aged(s.score, HoursAt(now', s.last_update))
    BY <2>2 DEF ApplyDecay, Aged, Hours, HoursAt
  <2>5. Hours(scores[p].last_update)' = HoursAt(now', s.last_update)
    BY <2>2 DEF Hours, HoursAt
  <2>6. \/ Closer(Aged(s.score, HoursAt(now', s.last_update)),
                  Aged(s.score, HoursAt(now, s.last_update)))
        \/ HoursAt(now', s.last_update) = 0
    BY <2>1, DecayStep
  <2> QED BY <2>3, <2>4, <2>5, <2>6
<1>2. DecayTowardsNeutral <=> [][Decays]_vars
  BY DEF DecayTowardsNeutral
<1> QED BY <1>1, <1>2, InvHolds, PTL DEF Spec
=============================================================================

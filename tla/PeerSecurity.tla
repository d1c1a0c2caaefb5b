------------------------------ MODULE PeerSecurity -----------------------------
(***************************************************************************)
(* PeerSecurity: PeerReputation, the scores and the blocklist of peers, as *)
(* threads share it.                                                       *)
(*                                                                         *)
(* Both are DashMaps.  A call on one key is a step; a guard that lives to  *)
(* the end of a function makes the function one step.  What takes two maps *)
(* or lets a guard go in between (ban_peer, unban_peer, is_banned of an    *)
(* expired ban) takes several, and cleanup_expired_bans goes from shard to *)
(* shard with the clock it read first.                                     *)
(***************************************************************************)
EXTENDS Integers, FiniteSets

CONSTANTS
    Peer, Thread, None,
    MaxScore,        \* 100
    Neutral,         \* 50
    DecayRate,       \* decay_rate, points per hour
    BanThreshold,    \* ban_threshold
    BanDuration,     \* ban_duration
    Hour,            \* ticks of the clock in an hour
    Byte,            \* 2^8: scores, rates and hours are u8
    Amounts,         \* amounts by which callers change a score
    MaxTime          \* bound: how far the clock goes

ASSUME ScoreAssumption ==
          /\ MaxScore \in Nat /\ Neutral \in 0 .. MaxScore
          /\ Byte \in Nat /\ MaxScore < Byte
          /\ DecayRate \in 0 .. Byte - 1 /\ BanThreshold \in 0 .. Byte - 1
          /\ Amounts \subseteq 0 .. Byte - 1
ASSUME TimeAssumption == Hour \in Nat \ {0} /\ BanDuration \in Nat /\ MaxTime \in Nat

Time == 0 .. MaxTime
Score == [score : 0 .. MaxScore, last_update : Time]

ASSUME NoneAssumption == None \notin Time \cup Peer \cup Score

VARIABLES
    scores,          \* score and last_update of a peer, None before the first report
    blocklist,       \* banned_at of a peer on the blocklist, else None
    task,            \* what each thread is doing
    now,
    leftLow          \* history: a peer without a ban was left a score that one had zeroed

vars == <<scores, blocklist, task, now, leftLow>>

\* at: the clock as the thread read it, or banned_at of the ban it saw expired;
\* todo: the peers a cleanup has yet to come to.
Task == [pc : {"idle", "ban", "insert", "zero", "lift", "neutral", "sweep"},
         peer : Peer \cup {None}, at : Time, todo : SUBSET Peer]

NewTask(pc, p, at, todo) == [pc |-> pc, peer |-> p, at |-> at, todo |-> todo]
IdleTask == NewTask("idle", None, 0, {})

AtWork(t, pc) == task[t].pc = pc
Become(t, new) == task' = [task EXCEPT ![t] = new]

TypeOK ==
    /\ scores \in [Peer -> Score \cup {None}]
    /\ blocklist \in [Peer -> Time \cup {None}]
    /\ task \in [Thread -> Task]
    /\ now \in Time
    /\ leftLow \in [Peer -> BOOLEAN]

Init ==
    /\ scores = [p \in Peer |-> None]
    /\ blocklist = [p \in Peer |-> None]
    /\ task = [t \in Thread |-> IdleTask]
    /\ now = 0
    /\ leftLow = [p \in Peer |-> FALSE]

(***************************************************************************)
(* Scores.                                                                 *)
(***************************************************************************)
AtMost(x, y) == IF x < y THEN x ELSE y
AtLeast(x, y) == IF x > y THEN x ELSE y

\* Hours since the last update, as many as a byte can tell.
Hours(last_update) == ((now - last_update) \div Hour) % Byte

\* Variant: the decay does not stop at the neutral score.
ApplyDecayBeyond(s) ==
    LET decay == AtMost(Hours(s.last_update) * DecayRate, Byte - 1)
    IN  IF s.score > Neutral THEN AtLeast(s.score - decay, 0)
        ELSE AtMost(s.score + decay, MaxScore)

\* The score as it is read now.
ApplyDecay(s) ==
    LET decay == AtMost(Hours(s.last_update) * DecayRate, Byte - 1)
    IN  IF s.score > Neutral THEN AtLeast(s.score - decay, Neutral)
        ELSE AtMost(s.score + decay, Neutral)

Entry(p) == IF scores[p] = None THEN [score |-> Neutral, last_update |-> now]
            ELSE scores[p]

SetScore(p, n) == scores' = [scores EXCEPT ![p] = [score |-> n, last_update |-> now]]

\* Variant: nothing bounds the sum.
IncreaseUncapped(p, amount) ==
    /\ SetScore(p, ApplyDecay(Entry(p)) + amount)
    /\ UNCHANGED <<blocklist, task, now, leftLow>>

IncreaseReputation(p, amount) ==
    /\ SetScore(p, AtMost(ApplyDecay(Entry(p)) + amount, MaxScore))
    /\ UNCHANGED <<blocklist, task, now, leftLow>>

\* Variant: only a report that takes the score across the threshold bans.
DecreaseAcross(t, p, amount) ==
    /\ AtWork(t, "idle")
    /\ LET score == AtLeast(ApplyDecay(Entry(p)) - amount, 0)
       IN  /\ SetScore(p, score)
           /\ leftLow' = [leftLow EXCEPT ![p] = @ /\ score >= BanThreshold]
           /\ IF score < BanThreshold /\ Entry(p).score >= BanThreshold
              THEN Become(t, NewTask("ban", p, 0, {}))
              ELSE UNCHANGED task
    /\ UNCHANGED <<blocklist, now>>

\* The guard of the score is given back before the ban.
DecreaseReputation(t, p, amount) ==
    /\ AtWork(t, "idle")
    /\ LET score == AtLeast(ApplyDecay(Entry(p)) - amount, 0)
       IN  /\ SetScore(p, score)
           /\ leftLow' = [leftLow EXCEPT ![p] = @ /\ score >= BanThreshold]
           /\ IF score < BanThreshold THEN Become(t, NewTask("ban", p, 0, {}))
              ELSE UNCHANGED task
    /\ UNCHANGED <<blocklist, now>>

(***************************************************************************)
(* Bans.                                                                   *)
(***************************************************************************)
\* Called by decrease_reputation or from outside: banned_at is read first.
BanPeer(t, p) ==
    /\ AtWork(t, "idle") \/ (AtWork(t, "ban") /\ task[t].peer = p)
    /\ Become(t, NewTask("insert", p, now, {}))
    /\ UNCHANGED <<scores, blocklist, now, leftLow>>

InsertBan(t) ==
    /\ AtWork(t, "insert")
    /\ blocklist' = [blocklist EXCEPT ![task[t].peer] = task[t].at]
    /\ leftLow' = [leftLow EXCEPT ![task[t].peer] = FALSE]
    /\ Become(t, [task[t] EXCEPT !.pc = "zero"])
    /\ UNCHANGED <<scores, now>>

\* By now the ban may have been taken off the list.
ZeroScore(t) ==
    /\ AtWork(t, "zero")
    /\ SetScore(task[t].peer, 0)
    /\ leftLow' = [leftLow EXCEPT ![task[t].peer] = @ \/ blocklist[task[t].peer] = None]
    /\ Become(t, IdleTask)
    /\ UNCHANGED <<blocklist, now>>

TakeOff(p) == blocklist' = [blocklist EXCEPT ![p] = None]

\* unban_peer from outside; for a peer that is not on the list it does nothing.
UnbanPeer(t, p) ==
    /\ AtWork(t, "idle") /\ blocklist[p] # None
    /\ TakeOff(p)
    /\ Become(t, NewTask("neutral", p, 0, {}))
    /\ UNCHANGED <<scores, now, leftLow>>

\* Variant: a ban is over when it has begun.
IsBannedEarly(t, p) ==
    /\ AtWork(t, "idle") /\ blocklist[p] # None
    /\ Become(t, NewTask("lift", p, blocklist[p], {}))
    /\ UNCHANGED <<scores, blocklist, now, leftLow>>

\* is_banned that sees an expired ban lets its guard go before it unbans.
IsBanned(t, p) ==
    /\ AtWork(t, "idle") /\ blocklist[p] # None
    /\ now - blocklist[p] >= BanDuration
    /\ Become(t, NewTask("lift", p, blocklist[p], {}))
    /\ UNCHANGED <<scores, blocklist, now, leftLow>>

\* Its unban_peer takes off whatever ban is there by then.
LiftBan(t) ==
    /\ AtWork(t, "lift")
    /\ IF blocklist[task[t].peer] # None
       THEN /\ TakeOff(task[t].peer)
            /\ Become(t, NewTask("neutral", task[t].peer, 0, {}))
       ELSE Become(t, IdleTask) /\ UNCHANGED blocklist
    /\ UNCHANGED <<scores, now, leftLow>>

ResetScore(t) ==
    /\ AtWork(t, "neutral")
    /\ SetScore(task[t].peer, Neutral)
    /\ leftLow' = [leftLow EXCEPT ![task[t].peer] = FALSE]
    /\ Become(t, IdleTask)
    /\ UNCHANGED <<blocklist, now>>

StartCleanup(t) ==
    /\ AtWork(t, "idle")
    /\ Become(t, NewTask("sweep", None, now, Peer))
    /\ UNCHANGED <<scores, blocklist, now, leftLow>>

\* Ages are never negative: a ban that is younger than the clock is not old.  The
\* score of a peer whose ban goes is left as it is.
SweepBan(t, p) ==
    /\ AtWork(t, "sweep") /\ p \in task[t].todo
    /\ IF blocklist[p] # None /\ AtLeast(task[t].at - blocklist[p], 0) >= BanDuration
       THEN TakeOff(p) /\ leftLow' = [leftLow EXCEPT ![p] = TRUE]
       ELSE UNCHANGED <<blocklist, leftLow>>
    /\ Become(t, [task[t] EXCEPT !.todo = @ \ {p}])
    /\ UNCHANGED <<scores, now>>

FinishCleanup(t) ==
    /\ AtWork(t, "sweep") /\ task[t].todo = {}
    /\ Become(t, IdleTask)
    /\ UNCHANGED <<scores, blocklist, now, leftLow>>

Tick ==
    /\ now < MaxTime
    /\ now' = now + 1
    /\ UNCHANGED <<scores, blocklist, task, leftLow>>

Next ==
    \/ \E p \in Peer, n \in Amounts : IncreaseReputation(p, n)
    \/ \E t \in Thread, p \in Peer, n \in Amounts : DecreaseReputation(t, p, n)
    \/ \E t \in Thread, p \in Peer :
          BanPeer(t, p) \/ UnbanPeer(t, p) \/ IsBanned(t, p) \/ SweepBan(t, p)
    \/ \E t \in Thread :
          \/ InsertBan(t) \/ ZeroScore(t) \/ LiftBan(t) \/ ResetScore(t)
          \/ StartCleanup(t) \/ FinishCleanup(t)
    \/ Tick

Spec == Init /\ [][Next]_vars

(***************************************************************************)
(* Properties.                                                             *)
(***************************************************************************)
Banned(p) == blocklist[p] # None /\ now - blocklist[p] < BanDuration

\* A ban that has not run out leaves the list when an operator unbans the peer,
\* or when an is_banned that saw an earlier ban of the peer run out comes to
\* remove it: never by a cleanup, however old the clock it goes by.
BansLast ==
    [][\A p \in Peer : Banned(p) /\ blocklist'[p] = None =>
          \E t \in Thread :
             /\ task'[t].pc = "neutral" /\ task'[t].peer = p
             /\ \/ AtWork(t, "idle")
                \/ AtWork(t, "lift") /\ now - task[t].at >= BanDuration]_vars

\* A peer whose stored score is below the threshold is on the blocklist, or a
\* thread is about to put it there, or one that took it off is about to reset its
\* score.  Otherwise a cleanup took its ban off, or the zero of a ban came after
\* the ban had gone, and nobody has reported it below the threshold since: such a
\* report is never left without a ban, nor is an unban left with a low score.
LowIsBanned ==
    \A p \in Peer :
       scores[p] # None /\ scores[p].score < BanThreshold =>
          \/ blocklist[p] # None
          \/ leftLow[p]
          \/ \E t \in Thread :
                task[t].peer = p /\ task[t].pc \in {"ban", "insert", "neutral"}

FromNeutral(n) == AtLeast(n - Neutral, Neutral - n)

\* As long as nobody reports on it, a score is read closer and closer to
\* neutral, and does not pass it.  The hours are cut to a byte, so this stops
\* being so when their number comes to a multiple of 256.
DecayTowardsNeutral ==
    [][\A p \in Peer :
          scores[p] # None /\ scores'[p] = scores[p] =>
             LET was == ApplyDecay(scores[p])
                 is == ApplyDecay(scores[p])'
             IN  \/ /\ FromNeutral(is) <= FromNeutral(was)
                    /\ is > Neutral => was > Neutral
                    /\ is < Neutral => was < Neutral
                 \/ Hours(scores[p].last_update)' = 0]_vars
=============================================================================

-------------------------- MODULE ValidatorBroadcast --------------------------
(***************************************************************************)
(* broadcast_message of a ValidatorNetworkManager: a caster reads the      *)
(* connected peers once, spawns one send_message_with_retry_real task for  *)
(* each, joins them all, and adds the outcome to the statistics.  Every    *)
(* attempt opens a socket of its own, so sends hold no permit.             *)
(***************************************************************************)
EXTENDS ValidatorPeers

CONSTANTS
    Caster,          \* tasks that call a broadcast_* method
    MaxRetries,      \* max_retries: attempts of one send (3)
    InitialBackoff,  \* retry_backoff (100 ms)
    BackoffCap       \* the 5 seconds the doubled backoff is cut to

ASSUME CasterAssumption == IsFiniteSet(Caster)
ASSUME RetryAssumption ==
          MaxRetries \in Nat /\ InitialBackoff \in Nat /\ BackoffCap \in Nat

VARIABLE
    send             \* the send task of each caster and address

(***************************************************************************)
(* A send task: in an attempt, to be counted after a successful one,       *)
(* sleeping after a failed one, out of attempts; "ok" and "failed" wait to *)
(* be joined.                                                              *)
(***************************************************************************)
SendPc == {"none", "attempt", "count", "sleep", "giveup", "ok", "failed"}

SendTask == [pc : SendPc, attempt : 0 .. MaxRetries, backoff : Nat]

NoSend == [pc |-> "none", attempt |-> 0, backoff |-> 0]

\* `for attempt in 0..max_retries` may have no turn at all.
NewSend == [pc |-> IF MaxRetries = 0 THEN "giveup" ELSE "attempt",
            attempt |-> 0, backoff |-> InitialBackoff]

Targets(c) == {a \in Addr : send[c][a].pc # "none"}

Outcome(c, pc) == {a \in Addr : send[c][a].pc = pc}

SmallerOf(m, n) == IF m <= n THEN m ELSE n

BroadcastInit == send = [c \in Caster |-> [a \in Addr |-> NoSend]]

SendGoto(c, a, pc) == send' = [send EXCEPT ![c][a].pc = pc]

-----------------------------------------------------------------------------
\* Without a connected peer the call returns at once and counts nothing.
StartBroadcast(c) ==
    /\ Targets(c) = {}
    /\ Connected # {}
    /\ StartCall
    /\ send' = [send EXCEPT ![c] =
                  [a \in Addr |-> IF a \in Connected THEN NewSend ELSE NoSend]]
    /\ UNCHANGED peerVars

SendOk(c, a) ==
    /\ send[c][a].pc = "attempt"
    /\ UpdateIfKnown(a, RecordSent(peers[a]))
    /\ SendGoto(c, a, "count")
    /\ UNCHANGED <<stats, calls>>

CountSent(c, a) ==
    /\ send[c][a].pc = "count"
    /\ stats' = [stats EXCEPT !.total_messages_sent = @ + 1]
    /\ SendGoto(c, a, "ok")
    /\ UNCHANGED <<peers, calls>>

\* Variant: one attempt too many.
AttemptFailsOffByOne(c, a) ==
    /\ send[c][a].pc = "attempt"
    /\ stats' = [stats EXCEPT !.message_retries = @ + 1]
    /\ send' = [send EXCEPT ![c][a].attempt = @ + 1,
                            ![c][a].pc = IF send[c][a].attempt + 1 <= MaxRetries
                                           THEN "sleep" ELSE "giveup"]
    /\ UNCHANGED <<peers, calls>>

\* Not serialized, too large, not connected or not written in time.
AttemptFails(c, a) ==
    /\ send[c][a].pc = "attempt"
    /\ stats' = [stats EXCEPT !.message_retries = @ + 1]
    /\ send' = [send EXCEPT ![c][a].attempt = @ + 1,
                            ![c][a].pc = IF send[c][a].attempt + 1 < MaxRetries
                                           THEN "sleep" ELSE "giveup"]
    /\ UNCHANGED <<peers, calls>>

Wake(c, a) ==
    /\ send[c][a].pc = "sleep"
    /\ send' = [send EXCEPT ![c][a].pc = "attempt",
                            ![c][a].backoff = SmallerOf(2 * @, BackoffCap)]
    /\ UNCHANGED <<peerVars, calls>>

GiveUp(c, a) ==
    /\ send[c][a].pc = "giveup"
    /\ UpdateIfKnown(a, RecordFailure(peers[a]))
    /\ SendGoto(c, a, "failed")
    /\ UNCHANGED <<stats, calls>>

\* Variant: failed sends are added to the successful ones.
FinishMiscounting(c) ==
    /\ Targets(c) # {}
    /\ Targets(c) = Outcome(c, "ok") \cup Outcome(c, "failed")
    /\ stats' = [stats EXCEPT
                   !.total_broadcasts = @ + 1,
                   !.successful_broadcasts = @ + Cardinality(Targets(c))]
    /\ send' = [send EXCEPT ![c] = [a \in Addr |-> NoSend]]
    /\ UNCHANGED <<peers, calls>>

\* Variant: the caster waits for every send to succeed.
FinishWhenAllOk(c) ==
    /\ Targets(c) # {}
    /\ Targets(c) = Outcome(c, "ok")
    /\ stats' = [stats EXCEPT !.total_broadcasts = @ + 1]
    /\ send' = [send EXCEPT ![c] = [a \in Addr |-> NoSend]]
    /\ UNCHANGED <<peers, calls>>

\* Every handle is joined.
FinishBroadcast(c) ==
    /\ Targets(c) # {}
    /\ Targets(c) = Outcome(c, "ok") \cup Outcome(c, "failed")
    /\ stats' = [stats EXCEPT
                   !.total_broadcasts = @ + 1,
                   !.successful_broadcasts =
                      @ + Cardinality(Outcome(c, "ok")),
                   !.failed_broadcasts =
                      @ + Cardinality(Outcome(c, "failed"))]
    /\ send' = [send EXCEPT ![c] = [a \in Addr |-> NoSend]]
    /\ UNCHANGED <<peers, calls>>

SendStep(c, a) ==
    \/ SendOk(c, a)
    \/ CountSent(c, a)
    \/ AttemptFails(c, a)
    \/ Wake(c, a)
    \/ GiveUp(c, a)

CasterStep(c) ==
    \/ StartBroadcast(c)
    \/ \E a \in Addr : SendStep(c, a)
    \/ FinishBroadcast(c)

BroadcastTypeOK == send \in [Caster -> [Addr -> SendTask]]
=============================================================================

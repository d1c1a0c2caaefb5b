------------------------- MODULE ValidatorConnections -------------------------
(***************************************************************************)
(* The connections of a ValidatorNetworkManager: tasks that run            *)
(* connect_peer, alone or in the loop of reconnect_failed_peers, and the   *)
(* tasks accept_connections spawns for inbound sockets.  All of them wait  *)
(* for one of the MaxPermits permits of connection_semaphore, and meet     *)
(* again in the peer table between their awaits.                           *)
(*                                                                         *)
(* A step runs from one await to the next: the answer of the socket it     *)
(* was waiting for and the critical section that follows it.               *)
(***************************************************************************)
EXTENDS ValidatorPeers

CONSTANTS
    Dialer,          \* tasks that call connect_peer or reconnect_failed_peers
    Session,         \* slots for tasks that accept_connections spawned
    MaxPermits,      \* permits of connection_semaphore (100)
    MaxReceived      \* bound: messages the statistics count as received

ASSUME TaskAssumption ==
          IsFiniteSet(Dialer) /\ IsFiniteSet(Session) /\ Dialer \cap Session = {}
ASSUME PermitAssumption == MaxPermits \in Nat \ {0}
ASSUME ReceivedAssumption == MaxReceived \in Nat

VARIABLES
    dialer,          \* the task of each dialer
    session,         \* the task of each session
    permits          \* permits left in connection_semaphore

connectionVars == <<dialer, session, permits>>

(***************************************************************************)
(* Where a dialer stands in connect_peer: waiting for a permit, for the    *)
(* table, for TcpStream::connect, for the handshake answer; "ok" and "err" *)
(* are its result.  `todo` is what is left of the list that                *)
(* reconnect_failed_peers collected, `retry` whether it runs that loop.    *)
(***************************************************************************)
DialerPc ==
    {"idle", "permit", "table", "connect", "handshake", "ok", "err"}

DialerTask ==
    [pc : DialerPc, addr : Addr \cup {None}, todo : SUBSET Addr,
     retry : BOOLEAN]

IdleDialer == [pc |-> "idle", addr |-> None, todo |-> {}, retry |-> FALSE]

(***************************************************************************)
(* Where a session stands: waiting for a permit, for the handshake answer, *)
(* for the next message, for the statistics, for the table to leave it.    *)
(***************************************************************************)
SessionPc ==
    {"none", "permit", "handshake", "read", "count", "closed"}

SessionTask == [pc : SessionPc, addr : Addr \cup {None}]

NoSession == [pc |-> "none", addr |-> None]

\* The tasks that hold a permit.
Holders ==
    {d \in Dialer : dialer[d].pc \in {"table", "connect", "handshake"}}
      \cup {s \in Session :
              session[s].pc \in {"handshake", "read", "count", "closed"}}

ConnectionsInit ==
    /\ dialer = [d \in Dialer |-> IdleDialer]
    /\ session = [s \in Session |-> NoSession]
    /\ permits = MaxPermits

-----------------------------------------------------------------------------
(* connect_peer and reconnect_failed_peers. *)

Goto(d, pc) == dialer' = [dialer EXCEPT ![d].pc = pc]

StartConnect(d, a) ==
    /\ dialer[d].pc = "idle"
    /\ StartCall
    /\ dialer' = [dialer EXCEPT ![d] =
                    [pc |-> "permit", addr |-> a, todo |-> {},
                     retry |-> FALSE]]
    /\ UNCHANGED <<peerVars, session, permits>>

Reconnectable ==
    {a \in Known : /\ peers[a].state = "Failed"
                   /\ peers[a].failed_attempts < ReconnectLimit}

\* The list is read once; the loop connects to its addresses one by one.
StartReconnect(d) ==
    /\ dialer[d].pc = "idle"
    /\ StartCall
    /\ \E a \in Reconnectable :
          dialer' = [dialer EXCEPT ![d] =
                       [pc |-> "permit", addr |-> a,
                        todo |-> Reconnectable \ {a}, retry |-> TRUE]]
    /\ UNCHANGED <<peerVars, session, permits>>

\* Variant: the permit is taken without waiting for one.
AcquireUnchecked(d) ==
    /\ dialer[d].pc = "permit"
    /\ permits' = permits - 1
    /\ Goto(d, "table")
    /\ UNCHANGED <<peerVars, session, calls>>

AcquirePermit(d) ==
    /\ dialer[d].pc = "permit"
    /\ permits > 0
    /\ permits' = permits - 1
    /\ Goto(d, "table")
    /\ UNCHANGED <<peerVars, session, calls>>

MarkConnecting(d) ==
    LET a == dialer[d].addr
    IN  /\ dialer[d].pc = "table"
        /\ UpdateIfKnown(a, SetState(peers[a], "Connecting"))
        /\ IF a \in Known
             THEN Goto(d, "connect") /\ UNCHANGED permits
             ELSE Goto(d, "err") /\ permits' = permits + 1
        /\ UNCHANGED <<stats, session, calls>>

Dialed(d) ==
    /\ dialer[d].pc = "connect"
    /\ Goto(d, "handshake")
    /\ UNCHANGED <<peerVars, session, permits, calls>>

\* Variant: the permit is forgotten.
FinishLeaking(d, result) == Goto(d, result) /\ UNCHANGED <<permits, session, calls>>

Finish(d, result) ==
    /\ Goto(d, result)
    /\ permits' = permits + 1
    /\ UNCHANGED <<session, calls>>

\* Refused, unreachable, or no answer within message_timeout.
DialFails(d) ==
    LET a == dialer[d].addr
    IN  /\ dialer[d].pc = "connect"
        /\ UpdateIfKnown(a, FailConnect(peers[a]))
        /\ stats' = [stats EXCEPT !.connection_failures =
                        IF a \in Known THEN @ + 1 ELSE @]
        /\ Finish(d, "err")

\* The socket breaks while the handshake is written.
HandshakeWriteFails(d) ==
    LET a == dialer[d].addr
    IN  /\ dialer[d].pc = "connect"
        /\ UpdateIfKnown(a, FailConnect(peers[a]))
        /\ UNCHANGED stats
        /\ Finish(d, "err")

HandshakeAnswered(d) ==
    LET a == dialer[d].addr
    IN  /\ dialer[d].pc = "handshake"
        /\ UpdateIfKnown(a, CompleteHandshake(peers[a]))
        /\ stats' = [stats EXCEPT !.connected_peer_count =
                        IF a \in Known THEN @ + 1 ELSE @]
        /\ Finish(d, "ok")

\* An answer that does not parse, or that is another message.
HandshakeGarbled(d) ==
    /\ dialer[d].pc = "handshake"
    /\ UNCHANGED peerVars
    /\ Finish(d, "ok")

\* Closed, broken, or nothing within message_timeout: still Ok(()).
HandshakeLost(d) ==
    LET a == dialer[d].addr
    IN  /\ dialer[d].pc = "handshake"
        /\ UpdateIfKnown(a, FailConnect(peers[a]))
        /\ UNCHANGED stats
        /\ Finish(d, "ok")

\* connect_peer returned: to its caller, or to the next turn of the loop.
Return(d) ==
    /\ dialer[d].pc \in {"ok", "err"}
    /\ IF dialer[d].todo = {}
         THEN dialer' = [dialer EXCEPT ![d] = IdleDialer]
         ELSE \E a \in dialer[d].todo :
                dialer' = [dialer EXCEPT ![d].pc = "permit", ![d].addr = a,
                                         ![d].todo = @ \ {a}]
    /\ UNCHANGED <<peerVars, session, permits, calls>>

DialerProgress(d) ==
    \/ MarkConnecting(d)
    \/ Dialed(d)
    \/ DialFails(d)
    \/ HandshakeWriteFails(d)
    \/ HandshakeAnswered(d)
    \/ HandshakeGarbled(d)
    \/ HandshakeLost(d)
    \/ Return(d)

DialerStep(d) ==
    \/ \E a \in Addr : StartConnect(d, a)
    \/ StartReconnect(d)
    \/ AcquirePermit(d)
    \/ DialerProgress(d)

-----------------------------------------------------------------------------
(* accept_connections and handle_peer_connection. *)

SessionGoto(s, pc) == session' = [session EXCEPT ![s].pc = pc]

\* One socket per remote address; one whose socket is closed may linger.
Accept(s, a) ==
    /\ session[s].pc = "none"
    /\ \A t \in Session :
          session[t].addr = a => session[t].pc = "closed"
    /\ session' = [session EXCEPT ![s] = [pc |-> "permit", addr |-> a]]
    /\ UNCHANGED <<peerVars, dialer, permits, calls>>

AcquireSession(s) ==
    /\ session[s].pc = "permit"
    /\ permits > 0
    /\ permits' = permits - 1
    /\ SessionGoto(s, "handshake")
    /\ UNCHANGED <<peerVars, dialer, calls>>

\* Variant: the early return keeps the permit.
ShakeFailsLeaking(s) ==
    /\ session[s].pc = "handshake"
    /\ session' = [session EXCEPT ![s] = NoSession]
    /\ UNCHANGED <<peerVars, dialer, permits, calls>>

\* The handshake is not written, not answered in 5 s, or does not parse.
ShakeFails(s) ==
    /\ session[s].pc = "handshake"
    /\ session' = [session EXCEPT ![s] = NoSession]
    /\ permits' = permits + 1
    /\ UNCHANGED <<peerVars, dialer, calls>>

ShakeAnswered(s) ==
    LET a == session[s].addr
    IN  /\ session[s].pc = "handshake"
        /\ UpdateIfKnown(a, CompleteHandshake(peers[a]))
        /\ SessionGoto(s, "read")
        /\ UNCHANGED <<stats, dialer, permits, calls>>

\* The first message is not a handshake: it is dropped, the session goes on.
ShakeOther(s) ==
    /\ session[s].pc = "handshake"
    /\ SessionGoto(s, "read")
    /\ UNCHANGED <<peerVars, dialer, permits, calls>>

Receive(s) ==
    LET a == session[s].addr
    IN  /\ session[s].pc = "read"
        /\ stats.total_messages_received < MaxReceived
        /\ UpdateIfKnown(a, RecordReceived(peers[a]))
        /\ SessionGoto(s, "count")
        /\ UNCHANGED <<stats, dialer, permits, calls>>

CountReceived(s) ==
    /\ session[s].pc = "count"
    /\ stats' = [stats EXCEPT !.total_messages_received = @ + 1]
    /\ SessionGoto(s, "read")
    /\ UNCHANGED <<peers, dialer, permits, calls>>

\* Closed by the remote, broken, or silent for 30 s.
Close(s) ==
    /\ session[s].pc = "read"
    /\ SessionGoto(s, "closed")
    /\ UNCHANGED <<peerVars, dialer, permits, calls>>

EndSession(s) ==
    LET a == session[s].addr
    IN  /\ session[s].pc = "closed"
        /\ UpdateIfKnown(a, SetState(peers[a], "Disconnected"))
        /\ session' = [session EXCEPT ![s] = NoSession]
        /\ permits' = permits + 1
        /\ UNCHANGED <<stats, dialer, calls>>

SessionProgress(s) ==
    \/ ShakeFails(s)
    \/ ShakeAnswered(s)
    \/ ShakeOther(s)
    \/ CountReceived(s)
    \/ EndSession(s)

SessionStep(s) ==
    \/ \E a \in Addr : Accept(s, a)
    \/ AcquireSession(s)
    \/ Receive(s)
    \/ Close(s)
    \/ SessionProgress(s)

ConnectionsTypeOK ==
    /\ dialer \in [Dialer -> DialerTask]
    /\ session \in [Session -> SessionTask]
    /\ permits \in 0 .. MaxPermits
=============================================================================

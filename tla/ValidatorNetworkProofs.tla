------------------------ MODULE ValidatorNetworkProofs ------------------------
(***************************************************************************)
(* Theorems about ValidatorNetwork, for every set of addresses and tasks   *)
(* and every limit.  The inductive invariant is TypeOK /\ PermitAccounting *)
(* for the semaphore (permits stays below MaxPermits only because a permit *)
(* that comes back was counted as held); the peer table's invariants are   *)
(* inductive above TypeOK, and so is what the counters of broadcasts say;  *)
(* message_retries needs RetryInv, which follows the attempts one by one.  *)
(***************************************************************************)
EXTENDS ValidatorNetwork, FiniteSetTheorems, TLAPS

-----------------------------------------------------------------------------
(* The peer table. *)

\* Every method of PeerInfo keeps an entry an entry.
LEMMA MethodsTyped ==
    ASSUME NEW p \in PeerInfo
    PROVE  /\ CompleteHandshake(p) \in PeerInfo
           /\ RecordSent(p) \in PeerInfo
           /\ RecordReceived(p) \in PeerInfo
           /\ RecordFailure(p) \in PeerInfo
           /\ FailConnect(p) \in PeerInfo
           /\ \A s \in ConnectionState : SetState(p, s) \in PeerInfo
  <1>1. /\ CompleteHandshake(p) \in PeerInfo
        /\ RecordSent(p) \in PeerInfo
        /\ RecordReceived(p) \in PeerInfo
    BY DEF CompleteHandshake, RecordSent, RecordReceived, PeerInfo,
           ConnectionState
  <1>2. ASSUME NEW q \in PeerInfo
        PROVE  RecordFailure(q) \in PeerInfo
    <2> DEFINE n == q.failed_attempts + 1
               st == IF n > FailLimit THEN "Failed" ELSE q.state
    <2>1. n \in Nat
      BY DEF PeerInfo
    <2>2. st \in ConnectionState
      BY DEF PeerInfo, ConnectionState
    <2>3. RecordFailure(q) = [q EXCEPT !.failed_attempts = n, !.state = st]
      BY DEF RecordFailure
    <2> HIDE DEF n, st
    <2> QED
      BY <2>1, <2>2, <2>3 DEF PeerInfo
  <1>3. [p EXCEPT !.state = "Failed"] \in PeerInfo
    BY DEF PeerInfo, ConnectionState
  <1>4. FailConnect(p) \in PeerInfo
    BY <1>2, <1>3 DEF FailConnect
  <1>5. \A s \in ConnectionState : SetState(p, s) \in PeerInfo
    BY DEF SetState, PeerInfo
  <1> QED
    BY <1>1, <1>2, <1>4, <1>5

\* A known address holds an entry.
LEMMA KnownTyped ==
    ASSUME PeersTypeOK, NEW a \in Known
    PROVE  a \in Addr /\ peers[a] \in PeerInfo
  BY DEF PeersTypeOK, Known

\* A write through get_mut keeps the table typed.
LEMMA UpdateTyped ==
    ASSUME PeersTypeOK, NEW a, NEW p, a \in Known => p \in PeerInfo,
           UpdateIfKnown(a, p)
    PROVE  peers' \in [Addr -> PeerInfo \cup {None}]
  BY DEF PeersTypeOK, UpdateIfKnown, Known

\* Counters stay numbers.
LEMMA StatsTyped ==
    ASSUME stats \in BroadcastStats
    PROVE  /\ stats.peer_count \in Nat
           /\ stats.connected_peer_count \in Nat
           /\ stats.connection_failures \in Nat
           /\ stats.total_messages_received \in Nat
           /\ stats.total_messages_sent \in Nat
           /\ stats.message_retries \in Nat
           /\ stats.total_broadcasts \in Nat
           /\ stats.successful_broadcasts \in Nat
           /\ stats.failed_broadcasts \in Nat
  BY DEF BroadcastStats

\* The addresses of the table are finitely many.
LEMMA KnownFinite ==
    /\ IsFiniteSet(Known)
    /\ Cardinality(Known) \in Nat
  <1>1. Known \subseteq Addr
    BY DEF Known
  <1> QED
    BY <1>1, AddrAssumption, FS_Subset, FS_CardinalityType

\* Each single-section call of the manager keeps table and counters typed.
LEMMA TableTyped ==
    ASSUME TypeOK, Operate
    PROVE  PeersTypeOK'
  <1> USE DEF TypeOK, PeersTypeOK
  <1>0. UNCHANGED calls
    BY DEF Operate
  <1>n. NewPeer \in PeerInfo
    BY DEF NewPeer, PeerInfo, ConnectionState
  <1>1. ASSUME NEW a \in Addr, AddPeer(a)
        PROVE  PeersTypeOK'
    BY <1>0, <1>1, <1>n DEF AddPeer, BroadcastStats
  <1>2. ASSUME NEW a \in Addr, RemovePeer(a)
        PROVE  PeersTypeOK'
    BY <1>0, <1>2 DEF RemovePeer, BroadcastStats, SaturatingDec
  <1>3. ASSUME NEW a \in Addr, DisconnectPeer(a)
        PROVE  PeersTypeOK'
    <2>1. SetState(peers[a], "Disconnected") \in PeerInfo
      BY <1>3, KnownTyped, MethodsTyped DEF DisconnectPeer, ConnectionState
    <2> QED
      BY <1>0, <1>3, <2>1 DEF DisconnectPeer, BroadcastStats, SaturatingDec
  <1>4. ASSUME NEW a \in Addr, GrowStale(a)
        PROVE  PeersTypeOK'
    <2>1. [peers[a] EXCEPT !.stale = TRUE] \in PeerInfo
      BY <1>4, KnownTyped DEF GrowStale, PeerInfo
    <2> QED
      BY <1>0, <1>4, <2>1 DEF GrowStale
  <1>5. CASE CleanupStalePeers
    <2> DEFINE fresh == {a \in Known : ~peers[a].stale}
    <2>1. fresh \subseteq Known
      OBVIOUS
    <2>2. Cardinality(fresh) \in Nat
      BY <2>1, KnownFinite, FS_Subset, FS_CardinalityType
    <2> QED
      BY <1>0, <1>5, <2>2, KnownTyped DEF CleanupStalePeers, BroadcastStats
  <1>6. CASE ResetStats
    BY <1>0, <1>6 DEF ResetStats, NoStats, BroadcastStats
  <1> QED
    BY <1>1, <1>2, <1>3, <1>4, <1>5, <1>6 DEF Operate, TableStep

-----------------------------------------------------------------------------
(* The semaphore: what a step does to the holders and to the permits. *)

Stays == Holders' = Holders /\ permits' = permits

Enters ==
    \E t \in (Dialer \cup Session) \ Holders :
        /\ Holders' = Holders \cup {t}
        /\ permits > 0
        /\ permits' = permits - 1

Leaves ==
    \E t \in Holders :
        /\ Holders' = Holders \ {t}
        /\ permits' = permits + 1

\* The holders are tasks, finitely many.
LEMMA HoldersFinite ==
    /\ Holders \subseteq Dialer \cup Session
    /\ IsFiniteSet(Holders)
    /\ Cardinality(Holders) \in Nat
  <1>1. Holders \subseteq Dialer \cup Session
    BY DEF Holders
  <1>2. IsFiniteSet(Dialer \cup Session)
    BY TaskAssumption, FS_Union
  <1> QED
    BY <1>1, <1>2, FS_Subset, FS_CardinalityType

\* A dialer that takes, keeps or gives back its permit moves only itself.
LEMMA DialerMove ==
    ASSUME dialer \in [Dialer -> DialerTask], NEW d \in Dialer,
           NEW x \in DialerTask, dialer' = [dialer EXCEPT ![d] = x],
           UNCHANGED session
    PROVE  LET held == {"table", "connect", "handshake"}
           IN  /\ dialer' \in [Dialer -> DialerTask]
               /\ d \in Holders <=> dialer[d].pc \in held
               /\ (dialer[d].pc \in held <=> x.pc \in held)
                      => Holders' = Holders
               /\ x.pc \in held => Holders' = Holders \cup {d}
               /\ x.pc \notin held => Holders' = Holders \ {d}
  BY TaskAssumption DEF Holders

\* The same for a session.
LEMMA SessionMove ==
    ASSUME session \in [Session -> SessionTask], NEW s \in Session,
           NEW x \in SessionTask, session' = [session EXCEPT ![s] = x],
           UNCHANGED dialer
    PROVE  LET held == {"handshake", "read", "count", "closed"}
           IN  /\ session' \in [Session -> SessionTask]
               /\ s \in Holders <=> session[s].pc \in held
               /\ (session[s].pc \in held <=> x.pc \in held)
                      => Holders' = Holders
               /\ x.pc \in held => Holders' = Holders \cup {s}
               /\ x.pc \notin held => Holders' = Holders \ {s}
  BY TaskAssumption DEF Holders

\* Goto writes one program counter.
LEMMA GotoMove ==
    ASSUME dialer \in [Dialer -> DialerTask], NEW d \in Dialer,
           NEW pc \in DialerPc, Goto(d, pc)
    PROVE  LET x == [dialer[d] EXCEPT !.pc = pc]
           IN  /\ x \in DialerTask
               /\ x.pc = pc
               /\ dialer' = [dialer EXCEPT ![d] = x]
  BY DEF Goto, DialerTask

\* SessionGoto writes one program counter.
LEMMA SessionGotoMove ==
    ASSUME session \in [Session -> SessionTask], NEW s \in Session,
           NEW pc \in SessionPc, SessionGoto(s, pc)
    PROVE  LET x == [session[s] EXCEPT !.pc = pc]
           IN  /\ x \in SessionTask
               /\ x.pc = pc
               /\ session' = [session EXCEPT ![s] = x]
  BY DEF SessionGoto, SessionTask

\* A call of connect_peer that returns gives its permit back.
LEMMA FinishLeaves ==
    ASSUME dialer \in [Dialer -> DialerTask], NEW d \in Dialer,
           NEW result \in {"ok", "err"}, Finish(d, result),
           dialer[d].pc \in {"connect", "handshake"}
    PROVE  Leaves /\ dialer' \in [Dialer -> DialerTask]
  <1>1. result \in DialerPc /\ Goto(d, result) /\ UNCHANGED session
    BY DEF Finish, DialerPc
  <1>2. PICK x \in DialerTask :
           x.pc = result /\ dialer' = [dialer EXCEPT ![d] = x]
    BY <1>1, GotoMove
  <1>3. d \in Holders
    BY DEF Holders
  <1>4. Holders' = Holders \ {d} /\ dialer' \in [Dialer -> DialerTask]
    BY <1>1, <1>2, DialerMove
  <1> QED
    BY <1>3, <1>4 DEF Finish, Leaves

\* Every step of a dialer keeps it typed and takes, keeps or gives back a
\* permit together with its place among the holders.
LEMMA DialerEffect ==
    ASSUME TypeOK, NEW d \in Dialer, DialerStep(d)
    PROVE  /\ dialer' \in [Dialer -> DialerTask]
           /\ UNCHANGED session
           /\ Stays \/ Enters \/ Leaves
  <1> USE DEF TypeOK, ConnectionsTypeOK
  <1>1. ASSUME NEW a \in Addr, StartConnect(d, a)
        PROVE  dialer' \in [Dialer -> DialerTask] /\ Stays
    <2> DEFINE x == [pc |-> "permit", addr |-> a, todo |-> {},
                     retry |-> FALSE]
    <2>1. x \in DialerTask /\ x.pc = "permit"
      BY DEF DialerTask, DialerPc
    <2>2. dialer[d].pc = "idle" /\ dialer' = [dialer EXCEPT ![d] = x]
      BY <1>1 DEF StartConnect
    <2> HIDE DEF x
    <2> QED
      BY <1>1, <2>1, <2>2, DialerMove DEF StartConnect, Stays
  <1>2. ASSUME StartReconnect(d)
        PROVE  dialer' \in [Dialer -> DialerTask] /\ Stays
    <2>1. PICK a \in Reconnectable :
             dialer' = [dialer EXCEPT ![d] =
                          [pc |-> "permit", addr |-> a,
                           todo |-> Reconnectable \ {a}, retry |-> TRUE]]
      BY <1>2 DEF StartReconnect
    <2> DEFINE x == [pc |-> "permit", addr |-> a,
                     todo |-> Reconnectable \ {a}, retry |-> TRUE]
    <2>2. x \in DialerTask /\ x.pc = "permit"
      BY DEF DialerTask, DialerPc, Reconnectable, Known
    <2>3. dialer[d].pc = "idle" /\ dialer' = [dialer EXCEPT ![d] = x]
      BY <1>2, <2>1 DEF StartReconnect
    <2> HIDE DEF x
    <2> QED
      BY <1>2, <2>2, <2>3, DialerMove DEF StartReconnect, Stays
  <1>3. ASSUME AcquirePermit(d)
        PROVE  dialer' \in [Dialer -> DialerTask] /\ Enters
    <2>1. PICK x \in DialerTask :
             x.pc = "table" /\ dialer' = [dialer EXCEPT ![d] = x]
      BY <1>3, GotoMove DEF AcquirePermit, DialerPc
    <2>2. d \notin Holders
      BY <1>3, TaskAssumption DEF AcquirePermit, Holders
    <2>3. Holders' = Holders \cup {d} /\ dialer' \in [Dialer -> DialerTask]
      BY <1>3, <2>1, DialerMove DEF AcquirePermit
    <2> QED
      BY <1>3, <2>2, <2>3 DEF AcquirePermit, Enters
  <1>4. ASSUME MarkConnecting(d)
        PROVE  /\ dialer' \in [Dialer -> DialerTask]
               /\ Stays \/ Leaves
    <2>1. PICK pc \in {"connect", "err"} :
             /\ Goto(d, pc)
             /\ pc = "connect" => permits' = permits
             /\ pc = "err" => permits' = permits + 1
      BY <1>4 DEF MarkConnecting
    <2>2. PICK x \in DialerTask :
             x.pc = pc /\ dialer' = [dialer EXCEPT ![d] = x]
      <3>1. pc \in DialerPc
        BY DEF DialerPc
      <3> QED
        BY <2>1, <3>1, GotoMove
    <2>3. d \in Holders /\ dialer[d].pc = "table"
      BY <1>4 DEF MarkConnecting, Holders
    <2>4. /\ dialer' \in [Dialer -> DialerTask]
          /\ pc = "connect" => Holders' = Holders
          /\ pc = "err" => Holders' = Holders \ {d}
      BY <1>4, <2>2, <2>3, DialerMove DEF MarkConnecting
    <2> QED
      BY <2>1, <2>3, <2>4 DEF Stays, Leaves
  <1>5. ASSUME Dialed(d)
        PROVE  dialer' \in [Dialer -> DialerTask] /\ Stays
    <2>1. PICK x \in DialerTask :
             x.pc = "handshake" /\ dialer' = [dialer EXCEPT ![d] = x]
      BY <1>5, GotoMove DEF Dialed, DialerPc
    <2> QED
      BY <1>5, <2>1, DialerMove DEF Dialed, Stays
  <1>6. ASSUME \/ DialFails(d) \/ HandshakeWriteFails(d)
               \/ HandshakeAnswered(d) \/ HandshakeGarbled(d)
               \/ HandshakeLost(d)
        PROVE  dialer' \in [Dialer -> DialerTask] /\ Leaves
    <2>1. /\ dialer[d].pc \in {"connect", "handshake"}
          /\ Finish(d, "ok") \/ Finish(d, "err")
      BY <1>6 DEF DialFails, HandshakeWriteFails, HandshakeAnswered,
                  HandshakeGarbled, HandshakeLost
    <2> QED
      BY <2>1, FinishLeaves
  <1>7. ASSUME Return(d)
        PROVE  dialer' \in [Dialer -> DialerTask] /\ Stays
    <2>1. PICK x \in DialerTask :
             x.pc \in {"idle", "permit"} /\ dialer' = [dialer EXCEPT ![d] = x]
      <3>1. CASE dialer[d].todo = {}
        BY <1>7, <3>1 DEF Return, IdleDialer, DialerTask, DialerPc
      <3>2. CASE dialer[d].todo # {}
        <4>1. PICK a \in dialer[d].todo :
                 dialer' = [dialer EXCEPT ![d] =
                              [@ EXCEPT !.pc = "permit", !.addr = a,
                                        !.todo = dialer[d].todo \ {a}]]
          BY <1>7, <3>2 DEF Return, DialerTask
        <4> DEFINE x == [dialer[d] EXCEPT !.pc = "permit", !.addr = a,
                                          !.todo = dialer[d].todo \ {a}]
        <4>2. x \in DialerTask /\ x.pc = "permit"
          BY DEF DialerTask, DialerPc
        <4> QED
          BY <4>1, <4>2
      <3> QED
        BY <3>1, <3>2
    <2> QED
      BY <1>7, <2>1, DialerMove DEF Return, Stays
  <1>8. UNCHANGED session
    BY DEF DialerStep, DialerProgress, StartConnect, StartReconnect,
           AcquirePermit, MarkConnecting, Dialed, DialFails,
           HandshakeWriteFails, HandshakeAnswered, HandshakeGarbled,
           HandshakeLost, Return, Finish
  <1> QED
    BY <1>1, <1>2, <1>3, <1>4, <1>5, <1>6, <1>7, <1>8
       DEF DialerStep, DialerProgress

\* Every step of a session does the same.
LEMMA SessionEffect ==
    ASSUME TypeOK, NEW s \in Session, SessionStep(s)
    PROVE  /\ session' \in [Session -> SessionTask]
           /\ UNCHANGED dialer
           /\ Stays \/ Enters \/ Leaves
  <1> USE DEF TypeOK, ConnectionsTypeOK
  <1>1. ASSUME NEW a \in Addr, Accept(s, a)
        PROVE  session' \in [Session -> SessionTask] /\ Stays
    <2> DEFINE x == [pc |-> "permit", addr |-> a]
    <2>1. x \in SessionTask /\ x.pc = "permit"
      BY DEF SessionTask, SessionPc
    <2>2. session[s].pc = "none" /\ session' = [session EXCEPT ![s] = x]
      BY <1>1 DEF Accept
    <2> HIDE DEF x
    <2> QED
      BY <1>1, <2>1, <2>2, SessionMove DEF Accept, Stays
  <1>2. ASSUME AcquireSession(s)
        PROVE  session' \in [Session -> SessionTask] /\ Enters
    <2>1. PICK x \in SessionTask :
             x.pc = "handshake" /\ session' = [session EXCEPT ![s] = x]
      BY <1>2, SessionGotoMove DEF AcquireSession, SessionPc
    <2>2. s \notin Holders
      BY <1>2, TaskAssumption DEF AcquireSession, Holders
    <2>3. Holders' = Holders \cup {s} /\ session' \in [Session -> SessionTask]
      BY <1>2, <2>1, SessionMove DEF AcquireSession
    <2> QED
      BY <1>2, <2>2, <2>3 DEF AcquireSession, Enters
  <1>3. ASSUME ShakeFails(s) \/ EndSession(s)
        PROVE  session' \in [Session -> SessionTask] /\ Leaves
    <2>1. /\ session[s].pc \in {"handshake", "closed"}
          /\ session' = [session EXCEPT ![s] = NoSession]
          /\ permits' = permits + 1
          /\ UNCHANGED dialer
      BY <1>3 DEF ShakeFails, EndSession
    <2>2. NoSession \in SessionTask /\ NoSession.pc = "none"
      BY DEF NoSession, SessionTask, SessionPc
    <2>3. s \in Holders
      BY <2>1 DEF Holders
    <2>4. Holders' = Holders \ {s} /\ session' \in [Session -> SessionTask]
      BY <2>1, <2>2, SessionMove
    <2> QED
      BY <2>1, <2>3, <2>4 DEF Leaves
  <1>4. ASSUME \/ ShakeAnswered(s) \/ ShakeOther(s) \/ Receive(s)
               \/ CountReceived(s) \/ Close(s)
        PROVE  session' \in [Session -> SessionTask] /\ Stays
    <2>1. /\ session[s].pc \in {"handshake", "read", "count"}
          /\ UNCHANGED <<dialer, permits>>
      BY <1>4 DEF ShakeAnswered, ShakeOther, Receive, CountReceived, Close
    <2>2. PICK pc \in {"read", "count", "closed"} : SessionGoto(s, pc)
      BY <1>4 DEF ShakeAnswered, ShakeOther, Receive, CountReceived, Close
    <2>3. pc \in SessionPc
      BY DEF SessionPc
    <2>4. PICK x \in SessionTask :
             x.pc = pc /\ session' = [session EXCEPT ![s] = x]
      BY <2>2, <2>3, SessionGotoMove
    <2> QED
      BY <2>1, <2>4, SessionMove DEF Stays
  <1>5. UNCHANGED dialer
    BY DEF SessionStep, SessionProgress, Accept, AcquireSession, ShakeFails,
           ShakeAnswered, ShakeOther, Receive, CountReceived, Close, EndSession
  <1> QED
    BY <1>1, <1>2, <1>3, <1>4, <1>5 DEF SessionStep, SessionProgress

\* Every step of the manager takes, keeps or gives back one permit.
LEMMA PermitEffect ==
    ASSUME TypeOK, [Next]_vars
    PROVE  /\ dialer' \in [Dialer -> DialerTask]
           /\ session' \in [Session -> SessionTask]
           /\ Stays \/ Enters \/ Leaves
  <1> USE DEF TypeOK, ConnectionsTypeOK
  <1>1. CASE UNCHANGED connectionVars
    BY <1>1 DEF connectionVars, Stays, Holders
  <1>2. ASSUME NEW d \in Dialer, Dial(d)
        PROVE  /\ dialer' \in [Dialer -> DialerTask]
               /\ session' \in [Session -> SessionTask]
               /\ Stays \/ Enters \/ Leaves
    BY <1>2, DialerEffect DEF Dial
  <1>3. ASSUME NEW s \in Session, Serve(s)
        PROVE  /\ dialer' \in [Dialer -> DialerTask]
               /\ session' \in [Session -> SessionTask]
               /\ Stays \/ Enters \/ Leaves
    BY <1>3, SessionEffect DEF Serve
  <1> QED
    BY <1>1, <1>2, <1>3 DEF Next, Operate, Broadcast, vars, connectionVars

\* Such a step keeps the accounts of the semaphore, and the room it needs.
LEMMA PermitStep ==
    ASSUME permits \in 0 .. MaxPermits, PermitAccounting,
           Stays \/ Enters \/ Leaves
    PROVE  permits' \in 0 .. MaxPermits /\ PermitAccounting'
  <1> USE PermitAssumption, HoldersFinite DEF PermitAccounting
  <1>1. CASE Stays
    BY <1>1 DEF Stays
  <1>2. CASE Enters
    <2>1. PICK t \in (Dialer \cup Session) \ Holders :
             /\ Holders' = Holders \cup {t}
             /\ permits > 0
             /\ permits' = permits - 1
      BY <1>2 DEF Enters
    <2>2. Cardinality(Holders') = Cardinality(Holders) + 1
      BY <2>1, FS_AddElement
    <2> QED
      BY <2>1, <2>2
  <1>3. CASE Leaves
    <2>1. PICK t \in Holders :
             /\ Holders' = Holders \ {t}
             /\ permits' = permits + 1
      BY <1>3 DEF Leaves
    <2>2. Cardinality(Holders') = Cardinality(Holders) - 1
      BY <2>1, FS_RemoveElement
    <2>3. Cardinality(Holders) # 0
      BY <2>1, FS_EmptySet
    <2> QED
      BY <2>1, <2>2, <2>3
  <1> QED
    BY <1>1, <1>2, <1>3

-----------------------------------------------------------------------------
(* Type correctness. *)

\* What tasks write through get_mut is an entry.
LEMMA DialerTyped ==
    ASSUME TypeOK, NEW d \in Dialer, DialerStep(d)
    PROVE  PeersTypeOK'
  <1> USE DEF TypeOK
  <1> DEFINE a == dialer[d].addr
  <1>0. stats \in BroadcastStats /\ calls \in 0 .. MaxCalls
    BY DEF PeersTypeOK
  <1>1. CASE \E b \in Addr : StartConnect(d, b)
    BY <1>0, <1>1, LimitAssumption DEF StartConnect, StartCall, peerVars, PeersTypeOK
  <1>2. CASE StartReconnect(d)
    BY <1>0, <1>2, LimitAssumption DEF StartReconnect, StartCall, peerVars, PeersTypeOK
  <1>3. CASE AcquirePermit(d) \/ Dialed(d) \/ HandshakeGarbled(d) \/ Return(d)
    BY <1>0, <1>3 DEF AcquirePermit, Dialed, HandshakeGarbled, Finish, Return,
                      peerVars, PeersTypeOK
  <1>4. ASSUME a \in Known
        PROVE  /\ SetState(peers[a], "Connecting") \in PeerInfo
               /\ FailConnect(peers[a]) \in PeerInfo
               /\ CompleteHandshake(peers[a]) \in PeerInfo
    BY <1>4, KnownTyped, MethodsTyped DEF ConnectionState
  <1>5. CASE MarkConnecting(d)
    BY <1>0, <1>4, <1>5, UpdateTyped DEF MarkConnecting, PeersTypeOK
  <1>6. CASE DialFails(d)
    <2>1. peers' \in [Addr -> PeerInfo \cup {None}]
      BY <1>4, <1>6, UpdateTyped DEF DialFails
    <2>2. stats' \in BroadcastStats
      BY <1>0, <1>6 DEF DialFails, BroadcastStats
    <2> QED
      BY <1>0, <1>6, <2>1, <2>2 DEF DialFails, Finish, PeersTypeOK
  <1>7. CASE HandshakeWriteFails(d) \/ HandshakeLost(d)
    <2>1. peers' \in [Addr -> PeerInfo \cup {None}]
      BY <1>4, <1>7, UpdateTyped DEF HandshakeWriteFails, HandshakeLost
    <2> QED
      BY <1>0, <1>7, <2>1 DEF HandshakeWriteFails, HandshakeLost, Finish,
                              PeersTypeOK
  <1>8. CASE HandshakeAnswered(d)
    <2>1. peers' \in [Addr -> PeerInfo \cup {None}]
      BY <1>4, <1>8, UpdateTyped DEF HandshakeAnswered
    <2>2. stats' \in BroadcastStats
      BY <1>0, <1>8 DEF HandshakeAnswered, BroadcastStats
    <2> QED
      BY <1>0, <1>8, <2>1, <2>2 DEF HandshakeAnswered, Finish, PeersTypeOK
  <1> QED
    BY <1>1, <1>2, <1>3, <1>5, <1>6, <1>7, <1>8 DEF DialerStep, DialerProgress

\* What a session writes through get_mut is an entry.
LEMMA SessionTyped ==
    ASSUME TypeOK, NEW s \in Session, SessionStep(s)
    PROVE  PeersTypeOK'
  <1> USE DEF TypeOK
  <1> DEFINE a == session[s].addr
  <1>0. stats \in BroadcastStats /\ calls \in 0 .. MaxCalls
    BY DEF PeersTypeOK
  <1>1. CASE \/ \E b \in Addr : Accept(s, b)
             \/ AcquireSession(s) \/ ShakeFails(s) \/ ShakeOther(s) \/ Close(s)
    BY <1>0, <1>1 DEF Accept, AcquireSession, ShakeFails, ShakeOther, Close,
                      peerVars, PeersTypeOK
  <1>2. ASSUME a \in Known
        PROVE  /\ SetState(peers[a], "Disconnected") \in PeerInfo
               /\ RecordReceived(peers[a]) \in PeerInfo
               /\ CompleteHandshake(peers[a]) \in PeerInfo
    BY <1>2, KnownTyped, MethodsTyped DEF ConnectionState
  <1>3. CASE ShakeAnswered(s) \/ Receive(s) \/ EndSession(s)
    <2>1. peers' \in [Addr -> PeerInfo \cup {None}]
      BY <1>2, <1>3, UpdateTyped DEF ShakeAnswered, Receive, EndSession
    <2> QED
      BY <1>0, <1>3, <2>1 DEF ShakeAnswered, Receive, EndSession, PeersTypeOK
  <1>4. CASE CountReceived(s)
    BY <1>0, <1>4 DEF CountReceived, BroadcastStats, PeersTypeOK
  <1> QED
    BY <1>1, <1>3, <1>4 DEF SessionStep, SessionProgress

\* Sends keep themselves and the table typed; an attempt is at most the last.
LEMMA CasterTyped ==
    ASSUME TypeOK, AttemptsLeft, NEW c \in Caster, CasterStep(c)
    PROVE  PeersTypeOK' /\ BroadcastTypeOK'
  <1> USE DEF TypeOK, BroadcastTypeOK
  <1>0. stats \in BroadcastStats /\ calls \in 0 .. MaxCalls
    BY DEF PeersTypeOK
  <1>n. NoSend \in SendTask /\ NewSend \in SendTask
    BY RetryAssumption DEF NoSend, NewSend, SendTask, SendPc
  <1>1. CASE StartBroadcast(c)
    <2>1. PeersTypeOK'
      BY <1>0, <1>1, LimitAssumption DEF StartBroadcast, StartCall, peerVars, PeersTypeOK
    <2>2. send' \in [Caster -> [Addr -> SendTask]]
      BY <1>1, <1>n DEF StartBroadcast
    <2> QED
      BY <2>1, <2>2
  <1>2. CASE FinishBroadcast(c)
    <2>1. /\ Outcome(c, "ok") \subseteq Addr
          /\ Outcome(c, "failed") \subseteq Addr
      BY DEF Outcome
    <2>2. /\ Cardinality(Outcome(c, "ok")) \in Nat
          /\ Cardinality(Outcome(c, "failed")) \in Nat
      BY <2>1, AddrAssumption, FS_Subset, FS_CardinalityType
    <2>3. stats' \in BroadcastStats
      <3>1. PICK m \in Nat, n \in Nat :
               stats' = [stats EXCEPT !.total_broadcasts = @ + 1,
                                      !.successful_broadcasts = @ + m,
                                      !.failed_broadcasts = @ + n]
        BY <1>2, <2>2 DEF FinishBroadcast
      <3> QED
        <4>1. /\ stats.total_broadcasts + 1 \in Nat
              /\ stats.successful_broadcasts + m \in Nat
              /\ stats.failed_broadcasts + n \in Nat
          BY <1>0, StatsTyped
        <4> QED
          BY <1>0, <3>1, <4>1 DEF BroadcastStats
    <2>4. send' \in [Caster -> [Addr -> SendTask]]
      BY <1>2, <1>n DEF FinishBroadcast
    <2> QED
      BY <1>2, <2>3, <2>4 DEF FinishBroadcast, PeersTypeOK
  <1>3. ASSUME NEW a \in Addr, SendStep(c, a)
        PROVE  PeersTypeOK' /\ BroadcastTypeOK'
    <2>0. send[c][a] \in SendTask
      OBVIOUS
    <2>1. ASSUME NEW pc \in SendPc, SendGoto(c, a, pc)
          PROVE  send' \in [Caster -> [Addr -> SendTask]]
      BY <2>1 DEF SendGoto, SendTask
    <2>2. CASE SendOk(c, a) \/ GiveUp(c, a)
      <3>1. a \in Known => /\ RecordSent(peers[a]) \in PeerInfo
                           /\ RecordFailure(peers[a]) \in PeerInfo
        BY KnownTyped, MethodsTyped
      <3>2. peers' \in [Addr -> PeerInfo \cup {None}]
        BY <2>2, <3>1, UpdateTyped DEF SendOk, GiveUp
      <3>3. BroadcastTypeOK'
        BY <2>1, <2>2 DEF SendOk, GiveUp, SendPc
      <3> QED
        BY <1>0, <2>2, <3>2, <3>3 DEF SendOk, GiveUp, PeersTypeOK
    <2>3. CASE CountSent(c, a)
      <3>1. PeersTypeOK'
        BY <1>0, <2>3 DEF CountSent, BroadcastStats, PeersTypeOK
      <3>2. BroadcastTypeOK'
        BY <2>1, <2>3 DEF CountSent, SendPc
      <3> QED
        BY <3>1, <3>2
    <2>4. CASE AttemptFails(c, a)
      <3>1. PeersTypeOK'
        BY <1>0, <2>4 DEF AttemptFails, BroadcastStats, PeersTypeOK
      <3>2. send[c][a].attempt + 1 \in 0 .. MaxRetries
        BY <2>0, <2>4, RetryAssumption DEF AttemptFails, AttemptsLeft, SendTask
      <3>3. BroadcastTypeOK'
        BY <2>0, <2>4, <3>2 DEF AttemptFails, SendTask, SendPc
      <3> QED
        BY <3>1, <3>3
    <2>5. CASE Wake(c, a)
      <3>1. SmallerOf(2 * send[c][a].backoff, BackoffCap) \in Nat
        BY <2>0, RetryAssumption DEF SmallerOf, SendTask
      <3>2. BroadcastTypeOK'
        BY <2>5, <3>1 DEF Wake, SendTask, SendPc
      <3> QED
        BY <1>0, <2>5, <3>2 DEF Wake, peerVars, PeersTypeOK
    <2>6. \/ SendOk(c, a) \/ CountSent(c, a) \/ AttemptFails(c, a)
          \/ Wake(c, a) \/ GiveUp(c, a)
      BY <1>3 DEF SendStep
    <2> QED
      BY <2>2, <2>3, <2>4, <2>5, <2>6
  <1> QED
    BY <1>1, <1>2, <1>3 DEF CasterStep

\* Sends touch neither each other's attempts nor go on after the last one.
LEMMA AttemptsStep ==
    ASSUME TypeOK, AttemptsLeft, [Next]_vars
    PROVE  AttemptsLeft'
  <1> USE DEF TypeOK, BroadcastTypeOK, AttemptsLeft
  <1>1. CASE UNCHANGED send
    BY <1>1
  <1>2. ASSUME NEW c \in Caster, StartBroadcast(c)
        PROVE  AttemptsLeft'
    BY <1>2, RetryAssumption DEF StartBroadcast, NewSend, NoSend
  <1>3. ASSUME NEW c \in Caster, FinishBroadcast(c)
        PROVE  AttemptsLeft'
    BY <1>3 DEF FinishBroadcast, NoSend
  <1>4. ASSUME NEW c \in Caster, NEW a \in Addr, SendStep(c, a)
        PROVE  AttemptsLeft'
    <2>0. send[c][a] \in SendTask
      OBVIOUS
    <2> DEFINE x == send'[c][a]
    <2>1. /\ send' = [send EXCEPT ![c][a] = x]
          /\ x.pc \in {"attempt", "sleep"} => x.attempt < MaxRetries
      <3>1. CASE SendOk(c, a)
        BY <2>0, <3>1 DEF SendOk, SendGoto, SendTask
      <3>2. CASE CountSent(c, a)
        BY <2>0, <3>2 DEF CountSent, SendGoto, SendTask
      <3>3. CASE GiveUp(c, a)
        BY <2>0, <3>3 DEF GiveUp, SendGoto, SendTask
      <3>4. CASE AttemptFails(c, a)
        BY <2>0, <3>4 DEF AttemptFails, SendTask
      <3>5. CASE Wake(c, a)
        BY <2>0, <3>5 DEF Wake, SendTask
      <3>6. \/ SendOk(c, a) \/ CountSent(c, a) \/ AttemptFails(c, a)
            \/ Wake(c, a) \/ GiveUp(c, a)
        BY <1>4 DEF SendStep
      <3> QED
        BY <3>1, <3>2, <3>3, <3>4, <3>5, <3>6
    <2> HIDE DEF x
    <2> QED
      BY <2>1
  <1> QED
    BY <1>1, <1>2, <1>3, <1>4
       DEF Next, Operate, Dial, Serve, Broadcast, CasterStep, vars

\* The inductive invariant.
Inv == TypeOK /\ AttemptsLeft /\ PermitAccounting

\* new() and with_config() start with every permit free and no task.
LEMMA InitInv == Init => Inv
  <1> SUFFICES ASSUME Init PROVE Inv
    OBVIOUS
  <1>1. PeersTypeOK
    BY LimitAssumption DEF Init, PeersInit, NoStats, PeersTypeOK, BroadcastStats
  <1>2. ConnectionsTypeOK
    BY PermitAssumption
       DEF Init, ConnectionsInit, ConnectionsTypeOK, IdleDialer, DialerTask,
           DialerPc, NoSession, SessionTask, SessionPc
  <1>3. NoSend \in SendTask /\ NoSend.pc = "none"
    BY RetryAssumption DEF NoSend, SendTask, SendPc
  <1>4. BroadcastTypeOK /\ AttemptsLeft
    BY <1>3 DEF Init, BroadcastInit, BroadcastTypeOK, AttemptsLeft
  <1>5. Holders = {}
    BY DEF Init, ConnectionsInit, IdleDialer, NoSession, Holders
  <1>6. PermitAccounting
    BY <1>5, FS_EmptySet, PermitAssumption
       DEF Init, ConnectionsInit, PermitAccounting
  <1> QED
    BY <1>1, <1>2, <1>4, <1>6 DEF Inv, TypeOK

\* Every step keeps the invariant: permits need TypeOK, the upper bound of
\* permits needs the accounts, the type of an attempt needs AttemptsLeft.
LEMMA NextInv == Inv /\ [Next]_vars => Inv'
  <1> SUFFICES ASSUME Inv, [Next]_vars PROVE Inv'
    OBVIOUS
  <1>1. AttemptsLeft'
    BY AttemptsStep DEF Inv
  <1>2. PermitAccounting' /\ ConnectionsTypeOK'
    BY PermitEffect, PermitStep DEF Inv, TypeOK, ConnectionsTypeOK
  <1>3. PeersTypeOK' /\ BroadcastTypeOK'
    <2> USE DEF Inv
    <2>1. CASE Operate
      BY <2>1, TableTyped DEF Operate, TypeOK, BroadcastTypeOK
    <2>2. ASSUME NEW d \in Dialer, Dial(d)
          PROVE  PeersTypeOK' /\ BroadcastTypeOK'
      BY <2>2, DialerTyped DEF Dial, TypeOK, BroadcastTypeOK
    <2>3. ASSUME NEW s \in Session, Serve(s)
          PROVE  PeersTypeOK' /\ BroadcastTypeOK'
      BY <2>3, SessionTyped DEF Serve, TypeOK, BroadcastTypeOK
    <2>4. ASSUME NEW c \in Caster, Broadcast(c)
          PROVE  PeersTypeOK' /\ BroadcastTypeOK'
      BY <2>4, CasterTyped DEF Broadcast
    <2>5. CASE UNCHANGED vars
      BY <2>5 DEF vars, TypeOK, PeersTypeOK, BroadcastTypeOK
    <2> QED
      BY <2>1, <2>2, <2>3, <2>4, <2>5 DEF Next
  <1> QED
    BY <1>1, <1>2, <1>3 DEF Inv, TypeOK

\* The manager's state is always of its types; a send never makes more
\* attempts than max_retries; the permits the semaphore hands out are exactly
\* those the running connections hold.
THEOREM NetworkInvariant == Safe => []Inv
  BY InitInv, NextInv, PTL DEF Safe

\* Every permit is given back exactly once.
THEOREM PermitsBalanced == Safe => []PermitAccounting
  <1>1. Inv => PermitAccounting
    BY DEF Inv
  <1> QED
    BY NetworkInvariant, <1>1, PTL

\* Types hold.
THEOREM TypeCorrect == Safe => []TypeOK
  <1>1. Inv => TypeOK
    BY DEF Inv
  <1> QED
    BY NetworkInvariant, <1>1, PTL

-----------------------------------------------------------------------------
(* The peer table under tasks that come back from an await. *)

Written(p) ==
    {CompleteHandshake(p), RecordSent(p), RecordReceived(p), RecordFailure(p),
     FailConnect(p), SetState(p, "Connecting"), SetState(p, "Disconnected")}

\* One write through get_mut, or none.
TaskWrites ==
    \/ UNCHANGED peers
    \/ \E a : \E p \in Written(peers[a]) : UpdateIfKnown(a, p)

\* Tasks write the table only through get_mut, and never peer_count.
LEMMA TaskEffect ==
    ASSUME TypeOK,
           \/ \E d \in Dialer : Dial(d)
           \/ \E s \in Session : Serve(s)
           \/ \E c \in Caster : Broadcast(c)
    PROVE  TaskWrites /\ stats'.peer_count = stats.peer_count
  <1>0. stats \in BroadcastStats
    BY DEF TypeOK, PeersTypeOK
  <1>1. ASSUME NEW d \in Dialer, Dial(d)
        PROVE  TaskWrites /\ stats'.peer_count = stats.peer_count
    <2> DEFINE a == dialer[d].addr
    <2>1. TaskWrites
      <3>1. CASE MarkConnecting(d)
        BY <3>1 DEF MarkConnecting, TaskWrites, Written
      <3>2. CASE DialFails(d) \/ HandshakeWriteFails(d) \/ HandshakeLost(d)
        BY <3>2 DEF DialFails, HandshakeWriteFails, HandshakeLost, TaskWrites,
                    Written
      <3>3. CASE HandshakeAnswered(d)
        BY <3>3 DEF HandshakeAnswered, TaskWrites, Written
      <3> QED
        BY <1>1, <3>1, <3>2, <3>3
           DEF Dial, DialerStep, DialerProgress, StartConnect, StartReconnect,
               AcquirePermit, Dialed, HandshakeGarbled, Return, peerVars,
               TaskWrites
    <2>2. stats'.peer_count = stats.peer_count
      BY <1>0, <1>1
         DEF Dial, DialerStep, DialerProgress, StartConnect, StartReconnect,
             AcquirePermit, MarkConnecting, Dialed, DialFails,
             HandshakeWriteFails, HandshakeAnswered, HandshakeGarbled,
             HandshakeLost, Return, peerVars, BroadcastStats
    <2> QED
      BY <2>1, <2>2
  <1>2. ASSUME NEW s \in Session, Serve(s)
        PROVE  TaskWrites /\ stats'.peer_count = stats.peer_count
    <2>1. TaskWrites
      <3>1. CASE ShakeAnswered(s)
        BY <3>1 DEF ShakeAnswered, TaskWrites, Written
      <3>2. CASE Receive(s)
        BY <3>2 DEF Receive, TaskWrites, Written
      <3>3. CASE EndSession(s)
        BY <3>3 DEF EndSession, TaskWrites, Written
      <3> QED
        BY <1>2, <3>1, <3>2, <3>3
           DEF Serve, SessionStep, SessionProgress, Accept, AcquireSession,
               ShakeFails, ShakeOther, CountReceived, Close, peerVars,
               TaskWrites
    <2>2. stats'.peer_count = stats.peer_count
      BY <1>0, <1>2
         DEF Serve, SessionStep, SessionProgress, Accept, AcquireSession,
             ShakeFails, ShakeAnswered, ShakeOther, Receive, CountReceived,
             Close, EndSession, peerVars, BroadcastStats
    <2> QED
      BY <2>1, <2>2
  <1>3. ASSUME NEW c \in Caster, Broadcast(c)
        PROVE  TaskWrites /\ stats'.peer_count = stats.peer_count
    <2>1. CASE StartBroadcast(c) \/ FinishBroadcast(c)
      BY <1>0, <2>1 DEF StartBroadcast, FinishBroadcast, peerVars, TaskWrites,
                        BroadcastStats
    <2>2. ASSUME NEW a \in Addr, SendStep(c, a)
          PROVE  TaskWrites /\ stats'.peer_count = stats.peer_count
      <3>1. CASE SendOk(c, a)
        BY <3>1 DEF SendOk, TaskWrites, Written
      <3>2. CASE GiveUp(c, a)
        BY <3>2 DEF GiveUp, TaskWrites, Written
      <3>3. CASE CountSent(c, a) \/ AttemptFails(c, a) \/ Wake(c, a)
        BY <1>0, <3>3 DEF CountSent, AttemptFails, Wake, peerVars, TaskWrites,
                          BroadcastStats
      <3> QED
        BY <2>2, <3>1, <3>2, <3>3 DEF SendStep
    <2> QED
      BY <1>3, <2>1, <2>2 DEF Broadcast, CasterStep
  <1> QED
    BY <1>1, <1>2, <1>3

\* A write through get_mut leaves the set of entries as it was.
LEMMA WritesKeepKnown ==
    ASSUME TypeOK, TaskWrites
    PROVE  Known' = Known
  <1>1. CASE UNCHANGED peers
    BY <1>1 DEF Known
  <1>2. ASSUME NEW a, NEW p \in Written(peers[a]), UpdateIfKnown(a, p)
        PROVE  Known' = Known
    <2>1. ASSUME a \in Known
          PROVE  p \in PeerInfo
      BY <1>2, <2>1, KnownTyped, MethodsTyped
         DEF TypeOK, Written, ConnectionState
    <2> QED
      BY <1>2, <2>1, NoneAssumption
         DEF UpdateIfKnown, Known, TypeOK, PeersTypeOK
  <1> QED
    BY <1>1, <1>2 DEF TaskWrites

-----------------------------------------------------------------------------
(* A peer shown as connected is one that shook hands. *)

Sound(p) ==
    p.state = "Connected" => p.handshaked /\ p.failed_attempts <= FailLimit

\* No method of PeerInfo makes a sound entry unsound.
LEMMA MethodsSound ==
    ASSUME NEW p \in PeerInfo, Sound(p), NEW q \in Written(p)
    PROVE  Sound(q)
  <1> USE LimitAssumption DEF Sound, PeerInfo, ConnectionState
  <1>1. CASE q = CompleteHandshake(p)
    BY <1>1 DEF CompleteHandshake
  <1>2. CASE q = RecordSent(p)
    BY <1>2 DEF RecordSent
  <1>3. CASE q = RecordReceived(p)
    BY <1>3 DEF RecordReceived
  <1>4. CASE q = RecordFailure(p)
    <2>1. /\ q.handshaked = p.handshaked
          /\ q.failed_attempts = p.failed_attempts + 1
          /\ q.state = IF p.failed_attempts + 1 > FailLimit
                         THEN "Failed" ELSE p.state
      BY <1>4 DEF RecordFailure
    <2> QED
      BY <2>1
  <1>5. CASE q = FailConnect(p)
    BY <1>5 DEF FailConnect, RecordFailure
  <1>6. CASE q = SetState(p, "Connecting") \/ q = SetState(p, "Disconnected")
    BY <1>6 DEF SetState
  <1> QED
    BY <1>1, <1>2, <1>3, <1>4, <1>5, <1>6 DEF Written

\* ConnectedIsSound says that every entry is sound.
LEMMA SoundEntries ==
    ConnectedIsSound <=> \A a \in Known : Sound(peers[a])
  BY DEF ConnectedIsSound, Connected, Sound

\* Every write to the table keeps its entries sound.
LEMMA ConnectedStep ==
    TypeOK /\ ConnectedIsSound /\ [Next]_vars => ConnectedIsSound'
  <1> SUFFICES ASSUME TypeOK, [Next]_vars, \A a \in Known : Sound(peers[a]),
                      NEW b \in Known'
               PROVE  Sound(peers'[b])
    BY SoundEntries DEF ConnectedIsSound, Connected, Sound
  <1> USE DEF TypeOK, PeersTypeOK
  <1>1. CASE UNCHANGED peers
    BY <1>1 DEF Known
  <1>2. ASSUME NEW a, NEW p \in Written(peers[a]), UpdateIfKnown(a, p)
        PROVE  Sound(peers'[b])
    <2>1. a \in Known => Sound(p)
      BY <1>2, KnownTyped, MethodsSound
    <2> QED
      BY <1>2, <2>1 DEF UpdateIfKnown, Known
  <1>3. ASSUME NEW a \in Addr, AddPeer(a)
        PROVE  Sound(peers'[b])
    BY <1>3 DEF AddPeer, NewPeer, Known, Sound
  <1>4. ASSUME NEW a \in Addr, RemovePeer(a)
        PROVE  Sound(peers'[b])
    BY <1>4 DEF RemovePeer, Known
  <1>5. ASSUME NEW a \in Addr, DisconnectPeer(a)
        PROVE  Sound(peers'[b])
    <2>1. Sound(SetState(peers[a], "Disconnected"))
      BY <1>5, KnownTyped DEF DisconnectPeer, SetState, Sound, PeerInfo
    <2> QED
      BY <1>5, <2>1 DEF DisconnectPeer, Known
  <1>6. ASSUME NEW a \in Addr, GrowStale(a)
        PROVE  Sound(peers'[b])
    <2>1. Sound([peers[a] EXCEPT !.stale = TRUE])
      BY <1>6, KnownTyped DEF GrowStale, Sound, PeerInfo
    <2> QED
      BY <1>6, <2>1 DEF GrowStale, Known
  <1>7. CASE CleanupStalePeers
    BY <1>7 DEF CleanupStalePeers, Known
  <1>8. CASE ResetStats \/ UNCHANGED vars
    BY <1>1, <1>8 DEF ResetStats, vars
  <1>9. CASE \/ \E d \in Dialer : Dial(d)
             \/ \E s \in Session : Serve(s)
             \/ \E c \in Caster : Broadcast(c)
    BY <1>1, <1>2, <1>9, TaskEffect DEF TaskWrites
  <1> QED
    BY <1>3, <1>4, <1>5, <1>6, <1>7, <1>8, <1>9 DEF Next, Operate, TableStep

\* A peer the table shows as Connected was identified by a handshake and is
\* within the failure limit, whatever tasks interleave.
THEOREM ConnectedSound == Safe => []ConnectedIsSound
  <1>1. Init => ConnectedIsSound
    BY DEF Init, PeersInit, ConnectedIsSound, Connected, Known
  <1> QED
    BY <1>1, ConnectedStep, TypeCorrect, PTL DEF Safe

-----------------------------------------------------------------------------
(* Entries appear and are counted in add_peer only. *)

\* Every step moves peer_count and the size of the table together.
LEMMA PeerCountStep ==
    TypeOK /\ PeerCountKept /\ [Next]_vars => PeerCountKept'
  <1> SUFFICES ASSUME TypeOK, PeerCountKept, [Next]_vars PROVE PeerCountKept'
    OBVIOUS
  <1> USE DEF TypeOK, PeersTypeOK, PeerCountKept
  <1>0. /\ stats \in BroadcastStats
        /\ stats.peer_count \in Nat
        /\ IsFiniteSet(Known)
        /\ Cardinality(Known) \in Nat
    BY KnownFinite, StatsTyped
  <1>1. ASSUME NEW a \in Addr, AddPeer(a)
        PROVE  PeerCountKept'
    <2>1. NewPeer \in PeerInfo
      BY DEF NewPeer, PeerInfo, ConnectionState
    <2>2. Known' = Known \cup {a} /\ a \notin Known
      BY <1>1, <2>1, NoneAssumption DEF AddPeer, Known
    <2>3. Cardinality(Known') = Cardinality(Known) + 1
      BY <1>0, <2>2, FS_AddElement
    <2>4. stats'.peer_count = stats.peer_count + 1
      BY <1>0, <1>1 DEF AddPeer, BroadcastStats
    <2> QED
      BY <1>0, <2>3, <2>4
  <1>2. ASSUME NEW a \in Addr, RemovePeer(a)
        PROVE  PeerCountKept'
    <2>1. Known' = Known \ {a} /\ a \in Known
      BY <1>2 DEF RemovePeer, Known
    <2>2. Cardinality(Known') = Cardinality(Known) - 1 /\ Cardinality(Known) # 0
      BY <1>0, <2>1, FS_RemoveElement, FS_EmptySet
    <2>3. stats'.peer_count = SaturatingDec(stats.peer_count)
      BY <1>0, <1>2 DEF RemovePeer, BroadcastStats
    <2> QED
      BY <1>0, <2>2, <2>3 DEF SaturatingDec
  <1>3. ASSUME NEW a \in Addr, DisconnectPeer(a) \/ GrowStale(a)
        PROVE  PeerCountKept'
    <2>1. PICK p \in PeerInfo : peers' = [peers EXCEPT ![a] = p] /\ a \in Known
      BY <1>3, KnownTyped DEF DisconnectPeer, GrowStale, SetState, PeerInfo,
                              ConnectionState
    <2>2. Known' = Known
      BY <2>1, NoneAssumption DEF Known
    <2>3. stats'.peer_count = stats.peer_count
      BY <1>0, <1>3 DEF DisconnectPeer, GrowStale, BroadcastStats
    <2> QED
      BY <2>2, <2>3
  <1>4. CASE CleanupStalePeers
    <2> DEFINE fresh == {a \in Known : ~peers[a].stale}
    <2>1. Known' = fresh
      BY <1>4 DEF CleanupStalePeers, Known
    <2>2. Cardinality(fresh) \in Nat
      BY <1>0, FS_Subset, FS_CardinalityType
    <2>3. stats'.peer_count = Cardinality(fresh)
      BY <1>0, <1>4 DEF CleanupStalePeers, BroadcastStats
    <2> QED
      BY <2>1, <2>2, <2>3
  <1>5. CASE ResetStats
    BY <1>0, <1>5 DEF ResetStats, NoStats, Known
  <1>6. CASE UNCHANGED vars
    BY <1>6 DEF vars, Known
  <1>7. CASE \/ \E d \in Dialer : Dial(d)
             \/ \E s \in Session : Serve(s)
             \/ \E c \in Caster : Broadcast(c)
    BY <1>7, TaskEffect, WritesKeepKnown
  <1> QED
    BY <1>1, <1>2, <1>3, <1>4, <1>5, <1>6, <1>7 DEF Next, Operate, TableStep

\* stats.peer_count follows the table through every add, remove and cleanup.
THEOREM PeerCountExact == Safe => []PeerCountKept
  <1>1. Init => PeerCountKept
    <2>1. Init => Known = {} /\ stats.peer_count = 0
      BY DEF Init, PeersInit, Known, NoStats
    <2> QED
      BY <2>1, FS_EmptySet DEF PeerCountKept
  <1> QED
    BY <1>1, PeerCountStep, TypeCorrect, PTL DEF Safe

\* No task resurrects an entry that was removed while it was awaiting.
THEOREM NoResurrection == Safe => OnlyAddPeerCreates
  <1> DEFINE Creates ==
        \A a \in Addr :
          peers[a] = None /\ peers'[a] # None =>
              peers'[a] = NewPeer /\ stats'.peer_count = stats.peer_count + 1
  <1>1. TypeOK /\ [Next]_vars => [Creates]_vars
    <2> SUFFICES ASSUME TypeOK, Next, NEW a \in Addr, peers[a] = None,
                        peers'[a] # None
                 PROVE  /\ peers'[a] = NewPeer
                        /\ stats'.peer_count = stats.peer_count + 1
      OBVIOUS
    <2> USE DEF TypeOK, PeersTypeOK
    <2>1. a \notin Known
      BY DEF Known
    <2>2. CASE Operate
      <3>1. PICK b \in Addr : AddPeer(b)
        BY <2>1, <2>2 DEF Operate, TableStep, RemovePeer, DisconnectPeer,
                          GrowStale, CleanupStalePeers, ResetStats
      <3> QED
        BY <3>1 DEF AddPeer, BroadcastStats
    <2>3. CASE ~Operate
      <3>1. Known' = Known
        BY <2>3, TaskEffect, WritesKeepKnown DEF Next
      <3> QED
        BY <2>1, <3>1 DEF Known
    <2> QED
      BY <2>2, <2>3
  <1> HIDE DEF Creates
  <1>2. Safe => [][Creates]_vars
    BY <1>1, TypeCorrect, PTL DEF Safe
  <1> QED
    BY <1>2 DEF OnlyAddPeerCreates, Creates

-----------------------------------------------------------------------------
(* The semaphore implements the abstract connection limit. *)

\* Every step of the manager is an entry, an exit or a stutter of
\* ConnectionLimit, and an entry finds room.
LEMMA LimiterStep ==
    Inv /\ [Next]_vars => [Limiter!Next]_Holders
  <1> SUFFICES ASSUME Inv, [Next]_vars PROVE [Limiter!Next]_Holders
    OBVIOUS
  <1>1. Stays \/ Enters \/ Leaves
    BY PermitEffect DEF Inv
  <1>2. CASE Stays
    BY <1>2 DEF Stays
  <1>3. CASE Enters
    <2>1. Cardinality(Holders) < MaxPermits
      BY <1>3, HoldersFinite, PermitAssumption
         DEF Enters, Inv, TypeOK, ConnectionsTypeOK, PermitAccounting
    <2>2. PICK t \in (Dialer \cup Session) \ Holders : Holders' = Holders \cup {t}
      BY <1>3 DEF Enters
    <2>3. Limiter!Cardinality(Holders) = Cardinality(Holders)
      BY Zenon DEF Limiter!Cardinality, Cardinality
    <2>4. Limiter!Enter(t)
      BY <2>1, <2>2, <2>3 DEF Limiter!Enter
    <2> QED
      BY <2>2, <2>4 DEF Limiter!Next
  <1>4. CASE Leaves
    BY <1>4, HoldersFinite DEF Leaves, Limiter!Next, Limiter!Leave
  <1> QED
    BY <1>1, <1>2, <1>3, <1>4

\* connection_semaphore keeps its promise: dials and accepted sockets come and
\* go one at a time and never hold more than MaxPermits connections.
THEOREM LimitImplemented == Safe => ConnectionsAreLimited
  <1>1. Init => Limiter!Init
    BY DEF Init, ConnectionsInit, IdleDialer, NoSession, Holders, Limiter!Init
  <1> QED
    BY <1>1, LimiterStep, NetworkInvariant, PTL
       DEF Safe, ConnectionsAreLimited, Limiter!Spec

-----------------------------------------------------------------------------
(* The statistics of broadcasts. *)

\* The sends of a table of sends that are in one of some states.
In(sends, pcs) == {t \in Caster \X Addr : sends[t[1]][t[2]].pc \in pcs}

LEMMA InElements ==
    ASSUME NEW sends, NEW pcs
    PROVE  /\ \A c, a : <<c, a>> \in In(sends, pcs)
                          <=> c \in Caster /\ a \in Addr /\ sends[c][a].pc \in pcs
           /\ \A t \in In(sends, pcs) : \E c, a : t = <<c, a>>
           /\ IsFiniteSet(In(sends, pcs))
           /\ Cardinality(In(sends, pcs)) \in Nat
  <1>1. In(sends, pcs) \in SUBSET (Caster \X Addr)
    BY DEF In
  <1>2. IsFiniteSet(Caster \X Addr)
    BY CasterAssumption, AddrAssumption, FS_Product
  <1> QED
    BY <1>1, <1>2, FS_Subset, FS_CardinalityType DEF In

\* Unjoined, of this state and of the next.
LEMMA UnjoinedIn ==
    /\ \A pc : Unjoined(pc) = In(send, {pc})
    /\ \A pc : Unjoined(pc)' = In(send', {pc})
  BY DEF Unjoined, In

\* Only a step of a broadcast moves a send or one of its four counters.
CountersKept ==
    /\ stats'.total_messages_sent = stats.total_messages_sent
    /\ stats'.message_retries = stats.message_retries
    /\ stats'.successful_broadcasts = stats.successful_broadcasts
    /\ stats'.failed_broadcasts = stats.failed_broadcasts

LEMMA OthersKeepCounters ==
    ASSUME TypeOK, ~ CanReset,
           \/ Operate
           \/ \E d \in Dialer : Dial(d)
           \/ \E s \in Session : Serve(s)
           \/ UNCHANGED vars
    PROVE  send' = send /\ CountersKept
  <1>0. stats \in BroadcastStats
    BY DEF TypeOK, PeersTypeOK
  <1>1. CASE Operate
    <2>1. CountersKept
      BY <1>0, <1>1
         DEF Operate, TableStep, AddPeer, RemovePeer, DisconnectPeer, GrowStale,
             CleanupStalePeers, ResetStats, BroadcastStats, CountersKept
    <2> QED
      BY <1>1, <2>1 DEF Operate
  <1>2. ASSUME NEW d \in Dialer, Dial(d)
        PROVE  send' = send /\ CountersKept
    <2>1. CountersKept
      BY <1>0, <1>2
         DEF Dial, DialerStep, DialerProgress, StartConnect, StartReconnect,
             AcquirePermit, MarkConnecting, Dialed, DialFails,
             HandshakeWriteFails, HandshakeAnswered, HandshakeGarbled,
             HandshakeLost, Return, peerVars, BroadcastStats, CountersKept
    <2> QED
      BY <1>2, <2>1 DEF Dial
  <1>3. ASSUME NEW s \in Session, Serve(s)
        PROVE  send' = send /\ CountersKept
    <2>1. CountersKept
      BY <1>0, <1>3
         DEF Serve, SessionStep, SessionProgress, Accept, AcquireSession,
             ShakeFails, ShakeAnswered, ShakeOther, Receive, CountReceived,
             Close, EndSession, peerVars, BroadcastStats, CountersKept
    <2> QED
      BY <1>3, <2>1 DEF Serve
  <1>4. CASE UNCHANGED vars
    BY <1>4 DEF vars, CountersKept
  <1> QED
    BY <1>1, <1>2, <1>3, <1>4

\* What a step of one send does: it moves that send only.
LEMMA SendMove ==
    ASSUME TypeOK, NEW c \in Caster, NEW a \in Addr, SendStep(c, a)
    PROVE  LET x == send[c][a]
               y == send'[c][a]
           IN  /\ send' = [send EXCEPT ![c][a] = y]
               /\ y.attempt = IF x.pc = "attempt" /\ y.pc \in {"sleep", "giveup"}
                              THEN x.attempt + 1 ELSE x.attempt
               /\ \/ x.pc = "attempt" /\ y.pc = "count" /\ CountersKept
                  \/ /\ x.pc = "count" /\ y.pc = "ok"
                     /\ stats' = [stats EXCEPT !.total_messages_sent = @ + 1]
                  \/ /\ x.pc = "attempt"
                     /\ y.pc = IF x.attempt + 1 < MaxRetries THEN "sleep" ELSE "giveup"
                     /\ stats' = [stats EXCEPT !.message_retries = @ + 1]
                  \/ x.pc = "sleep" /\ y.pc = "attempt" /\ CountersKept
                  \/ x.pc = "giveup" /\ y.pc = "failed" /\ CountersKept
  <1>0. send \in [Caster -> [Addr -> SendTask]] /\ send[c][a] \in SendTask
    BY DEF TypeOK, BroadcastTypeOK
  <1>1. CASE SendOk(c, a)
    BY <1>0, <1>1 DEF SendOk, SendGoto, SendTask, CountersKept
  <1>2. CASE CountSent(c, a)
    BY <1>0, <1>2 DEF CountSent, SendGoto, SendTask
  <1>3. CASE AttemptFails(c, a)
    BY <1>0, <1>3 DEF AttemptFails, SendTask
  <1>4. CASE Wake(c, a)
    BY <1>0, <1>4 DEF Wake, SendTask, peerVars, CountersKept
  <1>5. CASE GiveUp(c, a)
    BY <1>0, <1>5 DEF GiveUp, SendGoto, SendTask, CountersKept
  <1> QED
    BY <1>1, <1>2, <1>3, <1>4, <1>5 DEF SendStep

\* Where one send is after it moved, and the others.
LEMMA InMoved ==
    ASSUME TypeOK, NEW c \in Caster, NEW a \in Addr, NEW y,
           send' = [send EXCEPT ![c][a] = y], NEW pcs
    PROVE  /\ y.pc \in pcs => In(send', pcs) = In(send, pcs) \cup {<<c, a>>}
           /\ y.pc \notin pcs => In(send', pcs) = In(send, pcs) \ {<<c, a>>}
  <1>1. send \in [Caster -> [Addr -> SendTask]]
    BY DEF TypeOK, BroadcastTypeOK
  <1>2. /\ send'[c][a] = y
        /\ \A d \in Caster, b \in Addr : <<d, b>> # <<c, a>> => send'[d][b] = send[d][b]
    BY <1>1
  <1>e. /\ \A d, b : <<d, b>> \in In(send, pcs)
                      <=> d \in Caster /\ b \in Addr /\ send[d][b].pc \in pcs
        /\ \A d, b : <<d, b>> \in In(send', pcs)
                      <=> d \in Caster /\ b \in Addr /\ send'[d][b].pc \in pcs
    BY InElements
  <1>3. <<c, a>> \in In(send', pcs) <=> y.pc \in pcs
    BY <1>2, <1>e
  <1>4. ASSUME NEW d \in Caster, NEW b \in Addr, <<d, b>> # <<c, a>>
        PROVE  <<d, b>> \in In(send', pcs) <=> <<d, b>> \in In(send, pcs)
    <2>1. send'[d][b] = send[d][b]
      BY <1>2, <1>4
    <2> QED
      BY <2>1, <1>e
  <1>5. /\ \A t \in In(send, pcs) : \E d \in Caster, b \in Addr : t = <<d, b>>
        /\ \A t \in In(send', pcs) : \E d \in Caster, b \in Addr : t = <<d, b>>
    BY InElements
  <1>6. ASSUME NEW t, t # <<c, a>>
        PROVE  t \in In(send', pcs) <=> t \in In(send, pcs)
    <2>1. CASE \E d \in Caster, b \in Addr : t = <<d, b>>
      BY <1>4, <1>6, <2>1
    <2>2. CASE ~ \E d \in Caster, b \in Addr : t = <<d, b>>
      BY <1>5, <2>2
    <2> QED
      BY <2>1, <2>2
  <1> QED
    BY <1>3, <1>6

\* Joining a broadcast takes its sends away, which are all at their end.
LEMMA InJoined ==
    ASSUME TypeOK, NEW c \in Caster, FinishBroadcast(c), NEW pcs, "none" \notin pcs
    PROVE  /\ In(send', pcs) = In(send, pcs) \ ({c} \X Addr)
           /\ \A pc \in {"ok", "failed"} : In(send, {pc}) \cap ({c} \X Addr)
                                             = {c} \X Outcome(c, pc)
           /\ \A a \in Addr : send[c][a].pc \in {"none", "ok", "failed"}
           /\ \A d \in Caster, a \in Addr :
                 send'[d][a] = IF d = c THEN NoSend ELSE send[d][a]
  <1>1. send \in [Caster -> [Addr -> SendTask]]
    BY DEF TypeOK, BroadcastTypeOK
  <1>2. \A d \in Caster, a \in Addr : send'[d][a] = IF d = c THEN NoSend ELSE send[d][a]
    BY <1>1 DEF FinishBroadcast
  <1>3. \A a \in Addr : send[c][a].pc \in {"none", "ok", "failed"}
    BY DEF FinishBroadcast, Targets, Outcome
  <1>4. ASSUME NEW d \in Caster, NEW b \in Addr
        PROVE  <<d, b>> \in In(send', pcs) <=> d # c /\ <<d, b>> \in In(send, pcs)
    BY <1>2, InElements DEF NoSend
  <1>5. /\ \A t \in In(send, pcs) : \E d \in Caster, b \in Addr : t = <<d, b>>
        /\ \A t \in In(send', pcs) : \E d \in Caster, b \in Addr : t = <<d, b>>
    BY InElements
  <1>6. In(send', pcs) = In(send, pcs) \ ({c} \X Addr)
    BY <1>4, <1>5
  <1>7. ASSUME NEW pc \in {"ok", "failed"}
        PROVE  In(send, {pc}) \cap ({c} \X Addr) = {c} \X Outcome(c, pc)
    BY DEF In, Outcome
  <1> QED
    BY <1>2, <1>3, <1>6, <1>7

\* Starting one brings sends that make an attempt or have none to make.
LEMMA Started ==
    ASSUME TypeOK, NEW c \in Caster, StartBroadcast(c)
    PROVE  /\ CountersKept
           /\ \A a \in Addr : send[c][a].pc = "none" /\ send'[c][a] \in {NewSend, NoSend}
           /\ \A d \in Caster \ {c} : send'[d] = send[d]
           /\ \A pcs : pcs \cap {"none", "attempt", "giveup"} = {}
                 => In(send', pcs) = In(send, pcs)
  <1>1. send \in [Caster -> [Addr -> SendTask]]
    BY DEF TypeOK, BroadcastTypeOK
  <1>2. /\ \A a \in Addr : send[c][a].pc = "none" /\ send'[c][a] \in {NewSend, NoSend}
        /\ \A d \in Caster \ {c} : send'[d] = send[d]
    BY <1>1 DEF StartBroadcast, Targets
  <1>3. NewSend.pc \in {"attempt", "giveup"} /\ NoSend.pc = "none"
    BY DEF NewSend, NoSend
  <1>4. ASSUME NEW pcs, pcs \cap {"none", "attempt", "giveup"} = {}
        PROVE  In(send', pcs) = In(send, pcs)
    <2>1. ASSUME NEW d \in Caster, NEW b \in Addr
          PROVE  <<d, b>> \in In(send', pcs) <=> <<d, b>> \in In(send, pcs)
      BY <1>2, <1>3, <1>4, InElements
    <2>2. /\ \A t \in In(send, pcs) : \E d \in Caster, b \in Addr : t = <<d, b>>
          /\ \A t \in In(send', pcs) : \E d \in Caster, b \in Addr : t = <<d, b>>
      BY InElements
    <2> QED
      BY <2>1, <2>2
  <1> QED
    BY <1>2, <1>4 DEF StartBroadcast, peerVars, CountersKept

\* As many sends are joined as there are targets of their outcome.
LEMMA JoinedCount ==
    ASSUME NEW c \in Caster, NEW pc
    PROVE  /\ IsFiniteSet({c} \X Outcome(c, pc)) /\ Cardinality(Outcome(c, pc)) \in Nat
           /\ Cardinality({c} \X Outcome(c, pc)) = Cardinality(Outcome(c, pc))
  <1>1. Outcome(c, pc) \in SUBSET Addr
    BY DEF Outcome
  <1>2. IsFiniteSet(Outcome(c, pc)) /\ Cardinality(Outcome(c, pc)) \in Nat
    BY <1>1, AddrAssumption, FS_Subset, FS_CardinalityType
  <1>3. IsFiniteSet({c}) /\ Cardinality({c}) = 1
    BY FS_Singleton
  <1>4. /\ IsFiniteSet({c} \X Outcome(c, pc))
        /\ Cardinality({c} \X Outcome(c, pc)) = 1 * Cardinality(Outcome(c, pc))
    BY <1>2, <1>3, FS_Product
  <1>5. 1 * Cardinality(Outcome(c, pc)) = Cardinality(Outcome(c, pc))
    BY <1>2
  <1> QED
    BY <1>2, <1>4, <1>5

\* Every step counts a send, joins some, or leaves the two counters apart by the
\* sends that are still to be joined.
LEMMA SentStep == TypeOK /\ SentAccounting /\ [Next]_vars => SentAccounting'
  <1> SUFFICES ASSUME TypeOK, ~ CanReset, [Next]_vars,
                      stats.total_messages_sent
                        = stats.successful_broadcasts + Cardinality(In(send, {"ok"}))
               PROVE  stats'.total_messages_sent
                        = stats'.successful_broadcasts + Cardinality(In(send', {"ok"}))
    BY UnjoinedIn DEF SentAccounting
  <1>0. /\ stats \in BroadcastStats
        /\ stats.total_messages_sent \in Nat /\ stats.successful_broadcasts \in Nat
    BY StatsTyped DEF TypeOK, PeersTypeOK
  <1>n. /\ IsFiniteSet(In(send, {"ok"})) /\ Cardinality(In(send, {"ok"})) \in Nat
    BY InElements
  <1>1. CASE \/ Operate
             \/ \E d \in Dialer : Dial(d)
             \/ \E s \in Session : Serve(s)
             \/ UNCHANGED vars
    BY <1>1, OthersKeepCounters DEF CountersKept
  <1>2. ASSUME NEW c \in Caster, StartBroadcast(c)
        PROVE  stats'.total_messages_sent
                 = stats'.successful_broadcasts + Cardinality(In(send', {"ok"}))
    <2>1. {"ok"} \cap {"none", "attempt", "giveup"} = {}
      OBVIOUS
    <2>2. In(send', {"ok"}) = In(send, {"ok"}) /\ CountersKept
      BY <1>2, <2>1, Started
    <2> QED
      BY <2>2 DEF CountersKept
  <1>3. ASSUME NEW c \in Caster, NEW a \in Addr, SendStep(c, a)
        PROVE  stats'.total_messages_sent
                 = stats'.successful_broadcasts + Cardinality(In(send', {"ok"}))
    <2>1. PICK y : y = send'[c][a]
      OBVIOUS
    <2>2. send' = [send EXCEPT ![c][a] = y]
      BY <1>3, <2>1, SendMove
    <2>3. <<c, a>> \in In(send, {"ok"}) <=> send[c][a].pc = "ok"
      BY InElements
    <2>4. CASE /\ send[c][a].pc = "count" /\ y.pc = "ok"
               /\ stats' = [stats EXCEPT !.total_messages_sent = @ + 1]
      <3>1. In(send', {"ok"}) = In(send, {"ok"}) \cup {<<c, a>>}
        <4>1. y.pc \in {"ok"}
          BY <2>4
        <4> QED
          BY <2>2, <4>1, InMoved
      <3>2. <<c, a>> \notin In(send, {"ok"})
        BY <2>3, <2>4
      <3>3. Cardinality(In(send', {"ok"})) = Cardinality(In(send, {"ok"})) + 1
        BY <1>n, <3>1, <3>2, FS_AddElement
      <3>4. /\ stats'.total_messages_sent = stats.total_messages_sent + 1
            /\ stats'.successful_broadcasts = stats.successful_broadcasts
        BY <1>0, <2>4 DEF BroadcastStats
      <3>5. stats.total_messages_sent + 1
              = stats.successful_broadcasts + (Cardinality(In(send, {"ok"})) + 1)
        BY <1>0, <1>n
      <3> QED
        BY <3>3, <3>4, <3>5
    <2>5. CASE /\ send[c][a].pc # "ok" /\ y.pc # "ok"
               /\ CountersKept \/ stats' = [stats EXCEPT !.message_retries = @ + 1]
      <3>1. y.pc \notin {"ok"} /\ In(send, {"ok"}) \ {<<c, a>>} = In(send, {"ok"})
        BY <2>3, <2>5
      <3>2. In(send', {"ok"}) = In(send, {"ok"})
        BY <2>2, <3>1, InMoved
      <3>3. /\ stats'.total_messages_sent = stats.total_messages_sent
            /\ stats'.successful_broadcasts = stats.successful_broadcasts
        BY <1>0, <2>5 DEF CountersKept, BroadcastStats
      <3> QED
        BY <3>2, <3>3
    <2> QED
      BY <1>3, <2>1, <2>4, <2>5, SendMove
  <1>4. ASSUME NEW c \in Caster, FinishBroadcast(c)
        PROVE  stats'.total_messages_sent
                 = stats'.successful_broadcasts + Cardinality(In(send', {"ok"}))
    <2> DEFINE joined == {c} \X Outcome(c, "ok")
    <2>1. /\ In(send', {"ok"}) = In(send, {"ok"}) \ ({c} \X Addr)
          /\ In(send, {"ok"}) \cap ({c} \X Addr) = joined
      BY <1>4, InJoined
    <2>2. /\ IsFiniteSet(joined) /\ Cardinality(Outcome(c, "ok")) \in Nat
          /\ Cardinality(joined) = Cardinality(Outcome(c, "ok"))
      BY JoinedCount
    <2>3. Cardinality(In(send', {"ok"}))
            = Cardinality(In(send, {"ok"})) - Cardinality(Outcome(c, "ok"))
      <3>1. /\ In(send', {"ok"}) = In(send, {"ok"}) \ joined
            /\ In(send, {"ok"}) \cap joined = joined
        BY <2>1
      <3>2. Cardinality(In(send, {"ok"}) \ joined)
              = Cardinality(In(send, {"ok"})) - Cardinality(In(send, {"ok"}) \cap joined)
        BY <1>n, FS_Difference
      <3> QED
        BY <2>2, <3>1, <3>2
    <2>4. PICK n \in Nat : n = Cardinality(Outcome(c, "ok"))
      BY <2>2
    <2>5. /\ stats'.total_messages_sent = stats.total_messages_sent
          /\ stats'.successful_broadcasts = stats.successful_broadcasts + n
      BY <1>0, <1>4, <2>4 DEF FinishBroadcast, BroadcastStats
    <2>6. stats.total_messages_sent
            = (stats.successful_broadcasts + n) + (Cardinality(In(send, {"ok"})) - n)
      BY <1>0, <1>n
    <2> QED
      BY <2>3, <2>4, <2>5, <2>6
  <1> QED
    BY <1>1, <1>2, <1>3, <1>4 DEF Next, Broadcast, CasterStep

\* total_messages_sent, which each send counts, and successful_broadcasts, which
\* the caller adds when it joins them, differ by the sends still to be joined:
\* no send is counted twice or forgotten, whatever the sends and the broadcasts
\* of all callers interleave with.
THEOREM SendsAreCounted == Safe => []SentAccounting
  <1>1. Init => SentAccounting
    <2> SUFFICES ASSUME Init PROVE SentAccounting
      OBVIOUS
    <2>1. In(send, {"ok"}) = {}
      BY DEF In, Init, BroadcastInit, NoSend
    <2>2. stats.total_messages_sent = 0 /\ stats.successful_broadcasts = 0
      BY DEF Init, PeersInit, NoStats
    <2> QED
      BY <2>1, <2>2, UnjoinedIn, FS_EmptySet DEF SentAccounting
  <1> QED
    BY <1>1, SentStep, TypeCorrect, PTL DEF Safe

(* The attempts: message_retries counts those that failed. *)

\* The failed attempts of sends that are not joined: of each, the first, the
\* second, ...
AttemptsOf(sends) ==
    {u \in (Caster \X Addr) \X (1 .. MaxRetries) :
        u[2] <= sends[u[1][1]][u[1][2]].attempt}

\* The most a send that was not given up can fail.
Most == IF MaxRetries = 0 THEN 0 ELSE MaxRetries - 1

\* What a send's state says about the attempts it failed.
Fits(x) ==
    /\ x.pc = "none" => x.attempt = 0
    /\ x.pc \in {"attempt", "sleep", "count", "ok"} => x.attempt < MaxRetries
    /\ x.pc = "sleep" => x.attempt > 0
    /\ x.pc \in {"giveup", "failed"} => x.attempt = MaxRetries

SendsFit == \A c \in Caster, a \in Addr : Fits(send[c][a])

\* Retries that are made of n attempts of sends that are not joined, of
\* max_retries for each that was joined as failed, and of less for each other.
Made(retries, failed, others, n) ==
    /\ MaxRetries * failed + n <= retries
    /\ retries <= MaxRetries * failed + n + Most * others

RetriesKept ==
    Made(stats.message_retries, stats.failed_broadcasts, stats.successful_broadcasts,
         Cardinality(AttemptsOf(send)))

LEMMA AttemptsElements ==
    ASSUME NEW sends
    PROVE  /\ \A c, a, i : <<<<c, a>>, i>> \in AttemptsOf(sends)
                  <=> /\ c \in Caster /\ a \in Addr /\ i \in 1 .. MaxRetries
                      /\ i <= sends[c][a].attempt
           /\ \A u \in AttemptsOf(sends) :
                 \E c \in Caster, a \in Addr, i \in 1 .. MaxRetries : u = <<<<c, a>>, i>>
           /\ IsFiniteSet(AttemptsOf(sends))
           /\ Cardinality(AttemptsOf(sends)) \in Nat
  <1>1. AttemptsOf(sends) \in SUBSET ((Caster \X Addr) \X (1 .. MaxRetries))
    BY DEF AttemptsOf
  <1>2. IsFiniteSet(Caster \X Addr) /\ IsFiniteSet(1 .. MaxRetries)
    <2>1. IsFiniteSet(Caster \X Addr)
      BY CasterAssumption, AddrAssumption, FS_Product
    <2>2. IsFiniteSet(1 .. MaxRetries)
      BY RetryAssumption, FS_Interval
    <2> QED
      BY <2>1, <2>2
  <1>3. IsFiniteSet((Caster \X Addr) \X (1 .. MaxRetries))
    BY <1>2, FS_Product
  <1> QED
    BY <1>1, <1>3, FS_Subset, FS_CardinalityType DEF AttemptsOf

\* Of some sends, the first attempts.
LEMMA FirstAttempts ==
    ASSUME NEW sends \in SUBSET (Caster \X Addr), NEW n \in Nat
    PROVE  /\ IsFiniteSet(sends) /\ Cardinality(sends) \in Nat
           /\ IsFiniteSet(sends \X (1 .. n))
           /\ Cardinality(sends \X (1 .. n)) = n * Cardinality(sends)
  <1>1. IsFiniteSet(Caster \X Addr)
    BY CasterAssumption, AddrAssumption, FS_Product
  <1>2. IsFiniteSet(sends) /\ Cardinality(sends) \in Nat
    BY <1>1, FS_Subset, FS_CardinalityType
  <1>3. IsFiniteSet(1 .. n) /\ Cardinality(1 .. n) = n
    BY FS_Interval
  <1>4. /\ IsFiniteSet(sends \X (1 .. n))
        /\ Cardinality(sends \X (1 .. n)) = Cardinality(sends) * n
    BY <1>2, <1>3, FS_Product
  <1>5. Cardinality(sends) * n = n * Cardinality(sends)
    BY <1>2
  <1> QED
    BY <1>2, <1>4, <1>5

\* Some attempts, when each of the sends `out` made all of its attempts, each of
\* `once` made one, and each other send that made any is one of `others`.
LEMMA Between ==
    ASSUME NEW out \in SUBSET (Caster \X Addr), NEW once \in SUBSET (Caster \X Addr),
           NEW others \in SUBSET (Caster \X Addr), NEW attempts, IsFiniteSet(attempts),
           out \cap once = {}, out \cap others = {},
           out \X (1 .. MaxRetries) \subseteq attempts, once \X (1 .. 1) \subseteq attempts,
           attempts \subseteq (out \X (1 .. MaxRetries)) \cup (others \X (1 .. Most))
    PROVE  /\ MaxRetries * Cardinality(out) + Cardinality(once) <= Cardinality(attempts)
           /\ Cardinality(attempts)
                 <= MaxRetries * Cardinality(out) + Most * Cardinality(others)
  <1>0. Most \in Nat /\ MaxRetries \in Nat /\ Cardinality(attempts) \in Nat
    BY RetryAssumption, FS_CardinalityType DEF Most
  <1> DEFINE all == out \X (1 .. MaxRetries)
             first == once \X (1 .. 1)
             rest == others \X (1 .. Most)
  <1>1. IsFiniteSet(all) /\ Cardinality(all) = MaxRetries * Cardinality(out)
    BY <1>0, FirstAttempts
  <1>2. /\ IsFiniteSet(first) /\ Cardinality(once) \in Nat
        /\ Cardinality(first) = Cardinality(once)
    <2>1. /\ IsFiniteSet(first) /\ Cardinality(once) \in Nat
          /\ Cardinality(first) = 1 * Cardinality(once)
      BY FirstAttempts
    <2>2. 1 * Cardinality(once) = Cardinality(once)
      BY <2>1
    <2> QED
      BY <2>1, <2>2
  <1>3. IsFiniteSet(rest) /\ Cardinality(rest) = Most * Cardinality(others)
    BY <1>0, FirstAttempts
  <1>4. all \cap first = {} /\ all \cap rest = {}
    OBVIOUS
  <1>5. all \cup first \subseteq attempts /\ attempts \subseteq all \cup rest
    OBVIOUS
  <1> HIDE DEF all, first, rest
  <1>6. Cardinality(all) \in Nat /\ Cardinality(rest) \in Nat /\ Cardinality(first) \in Nat
    BY <1>1, <1>2, <1>3, FS_CardinalityType
  <1>7. Cardinality(all \cap first) = 0 /\ Cardinality(all \cap rest) = 0
    BY <1>4, FS_EmptySet
  <1>8. Cardinality(all \cup first) = Cardinality(all) + Cardinality(first)
    <2>1. Cardinality(all \cup first)
            = Cardinality(all) + Cardinality(first) - Cardinality(all \cap first)
      BY <1>1, <1>2, FS_Union
    <2> QED
      BY <1>6, <1>7, <2>1
  <1>9. /\ IsFiniteSet(all \cup rest)
        /\ Cardinality(all \cup rest) = Cardinality(all) + Cardinality(rest)
    <2>1. /\ IsFiniteSet(all \cup rest)
          /\ Cardinality(all \cup rest)
               = Cardinality(all) + Cardinality(rest) - Cardinality(all \cap rest)
      BY <1>1, <1>3, FS_Union
    <2> QED
      BY <1>6, <1>7, <2>1
  <1>10. Cardinality(all \cup first) <= Cardinality(attempts)
    BY <1>5, FS_Subset
  <1>11. Cardinality(attempts) <= Cardinality(all \cup rest)
    BY <1>5, <1>9, FS_Subset
  <1> QED
    BY <1>1, <1>2, <1>3, <1>8, <1>9, <1>10, <1>11

\* Every step keeps sends and their attempts together.
LEMMA FitsStep == TypeOK /\ ~ CanReset /\ SendsFit /\ [Next]_vars => SendsFit'
  <1> SUFFICES ASSUME TypeOK, ~ CanReset, SendsFit, [Next]_vars PROVE SendsFit'
    OBVIOUS
  <1>0. send \in [Caster -> [Addr -> SendTask]] /\ MaxRetries \in Nat
    BY RetryAssumption DEF TypeOK, BroadcastTypeOK
  <1>1. CASE \/ Operate
             \/ \E d \in Dialer : Dial(d)
             \/ \E s \in Session : Serve(s)
             \/ UNCHANGED vars
    BY <1>1, OthersKeepCounters DEF SendsFit
  <1>2. Fits(NoSend) /\ Fits(NewSend)
    BY <1>0 DEF Fits, NoSend, NewSend
  <1>3. ASSUME NEW c \in Caster, StartBroadcast(c) PROVE SendsFit'
    <2>1. \A d \in Caster, a \in Addr : send'[d][a] \in {NewSend, NoSend, send[d][a]}
      BY <1>3, Started
    <2> QED
      BY <1>2, <2>1 DEF SendsFit
  <1>4. ASSUME NEW c \in Caster, NEW a \in Addr, SendStep(c, a) PROVE SendsFit'
    <2>1. PICK x \in SendTask : x = send[c][a]
      BY <1>0
    <2>2. PICK y : y = send'[c][a]
      OBVIOUS
    <2>3. /\ send' = [send EXCEPT ![c][a] = y]
          /\ y.attempt = IF x.pc = "attempt" /\ y.pc \in {"sleep", "giveup"}
                         THEN x.attempt + 1 ELSE x.attempt
          /\ \/ x.pc = "attempt" /\ y.pc = "count"
             \/ x.pc = "count" /\ y.pc = "ok"
             \/ /\ x.pc = "attempt"
                /\ y.pc = IF x.attempt + 1 < MaxRetries THEN "sleep" ELSE "giveup"
             \/ x.pc = "sleep" /\ y.pc = "attempt"
             \/ x.pc = "giveup" /\ y.pc = "failed"
      BY <1>4, <2>1, <2>2, SendMove
    <2>4. Fits(x) /\ x.attempt \in Nat
      BY <1>0, <2>1 DEF SendsFit, SendTask
    <2>5. Fits(y)
      <3>1. CASE /\ x.pc = "attempt"
                 /\ y.pc = IF x.attempt + 1 < MaxRetries THEN "sleep" ELSE "giveup"
        <4>1. y.attempt = x.attempt + 1 /\ x.attempt < MaxRetries
          BY <2>3, <2>4, <3>1 DEF Fits
        <4>2. CASE x.attempt + 1 < MaxRetries
          <5>1. y.pc = "sleep" /\ y.attempt < MaxRetries /\ y.attempt > 0
            BY <2>4, <3>1, <4>1, <4>2
          <5> QED
            BY <5>1 DEF Fits
        <4>3. CASE ~ (x.attempt + 1 < MaxRetries)
          <5>1. y.pc = "giveup" /\ y.attempt = MaxRetries
            BY <1>0, <2>4, <3>1, <4>1, <4>3
          <5> QED
            BY <5>1 DEF Fits
        <4> QED
          BY <4>2, <4>3
      <3>2. CASE \/ x.pc = "attempt" /\ y.pc = "count"
                 \/ x.pc = "count" /\ y.pc = "ok"
                 \/ x.pc = "sleep" /\ y.pc = "attempt"
                 \/ x.pc = "giveup" /\ y.pc = "failed"
        <4>1. y.attempt = x.attempt
          BY <2>3, <3>2
        <4> QED
          BY <2>4, <3>2, <4>1 DEF Fits
      <3> QED
        BY <2>3, <3>1, <3>2
    <2>6. \A d \in Caster, b \in Addr : send'[d][b] \in {y, send[d][b]}
      BY <1>0, <2>3
    <2> QED
      BY <2>5, <2>6 DEF SendsFit
  <1>5. ASSUME NEW c \in Caster, FinishBroadcast(c) PROVE SendsFit'
    <2>1. \A d \in Caster, a \in Addr : send'[d][a] \in {NoSend, send[d][a]}
      <3>1. "none" \notin {}
        OBVIOUS
      <3>2. \A d \in Caster, a \in Addr : send'[d][a] = IF d = c THEN NoSend ELSE send[d][a]
        BY <1>5, <3>1, InJoined
      <3> QED
        BY <3>2
    <2> QED
      BY <1>2, <2>1 DEF SendsFit
  <1> QED
    BY <1>1, <1>3, <1>4, <1>5 DEF Next, Broadcast, CasterStep

\* The arithmetic: an attempt more, and sends that are joined.
LEMMA MadeOneMore ==
    ASSUME NEW r \in Nat, NEW f \in Nat, NEW s \in Nat, NEW n \in Nat, Made(r, f, s, n)
    PROVE  Made(r + 1, f, s, n + 1)
  <1>1. Most \in Nat /\ MaxRetries \in Nat
    BY RetryAssumption DEF Most
  <1>2. PICK p \in Nat, q \in Nat : p = MaxRetries * f /\ q = Most * s
    BY <1>1
  <1>3. p + n <= r /\ r <= p + n + q
    BY <1>2 DEF Made
  <1>4. p + (n + 1) <= r + 1 /\ r + 1 <= p + (n + 1) + q
    BY <1>3
  <1> QED
    BY <1>2, <1>4 DEF Made

LEMMA MadeJoined ==
    ASSUME NEW r \in Nat, NEW f \in Nat, NEW s \in Nat, NEW n \in Nat, Made(r, f, s, n),
           NEW failed \in Nat, NEW others \in Nat, NEW gone \in Nat, NEW left \in Nat,
           n = left + gone,
           MaxRetries * failed <= gone, gone <= MaxRetries * failed + Most * others
    PROVE  Made(r, f + failed, s + others, left)
  <1>1. Most \in Nat /\ MaxRetries \in Nat
    BY RetryAssumption DEF Most
  <1>2. PICK p \in Nat, q \in Nat, pf \in Nat, qo \in Nat :
           /\ p = MaxRetries * f /\ q = Most * s
           /\ pf = MaxRetries * failed /\ qo = Most * others
    BY <1>1
  <1>3. p + n <= r /\ r <= p + n + q
    BY <1>2 DEF Made
  <1>4. MaxRetries * (f + failed) = p + pf /\ Most * (s + others) = q + qo
    BY <1>1, <1>2
  <1>5. pf <= gone /\ gone <= pf + qo
    BY <1>2
  <1>6. p + pf + left <= r /\ r <= p + pf + left + (q + qo)
    BY <1>3, <1>5
  <1> QED
    BY <1>4, <1>6 DEF Made

\* Sends that failed as many attempts each.
LEMMA AttemptsSame ==
    ASSUME NEW old, NEW new,
           \A d \in Caster, b \in Addr : new[d][b].attempt = old[d][b].attempt
    PROVE  AttemptsOf(new) = AttemptsOf(old)
  <1>e. /\ \A d, b, i : <<<<d, b>>, i>> \in AttemptsOf(old)
              <=> d \in Caster /\ b \in Addr /\ i \in 1 .. MaxRetries /\ i <= old[d][b].attempt
        /\ \A d, b, i : <<<<d, b>>, i>> \in AttemptsOf(new)
              <=> d \in Caster /\ b \in Addr /\ i \in 1 .. MaxRetries /\ i <= new[d][b].attempt
        /\ \A u \in AttemptsOf(old) :
              \E d \in Caster, b \in Addr, i \in 1 .. MaxRetries : u = <<<<d, b>>, i>>
        /\ \A u \in AttemptsOf(new) :
              \E d \in Caster, b \in Addr, i \in 1 .. MaxRetries : u = <<<<d, b>>, i>>
    BY AttemptsElements
  <1>1. ASSUME NEW d \in Caster, NEW b \in Addr, NEW i
        PROVE  <<<<d, b>>, i>> \in AttemptsOf(new) <=> <<<<d, b>>, i>> \in AttemptsOf(old)
    BY <1>e
  <1> QED
    BY <1>e, <1>1

\* Sends of which one failed an attempt more.
LEMMA AttemptsAdded ==
    ASSUME NEW old, NEW new, NEW c \in Caster, NEW a \in Addr, NEW n \in Nat, n < MaxRetries,
           old[c][a].attempt = n, new[c][a].attempt = n + 1,
           \A d \in Caster, b \in Addr :
              <<d, b>> # <<c, a>> => new[d][b].attempt = old[d][b].attempt
    PROVE  Cardinality(AttemptsOf(new)) = Cardinality(AttemptsOf(old)) + 1
  <1> DEFINE one == <<<<c, a>>, n + 1>>
  <1>e. /\ \A d, b, i : <<<<d, b>>, i>> \in AttemptsOf(old)
              <=> d \in Caster /\ b \in Addr /\ i \in 1 .. MaxRetries /\ i <= old[d][b].attempt
        /\ \A d, b, i : <<<<d, b>>, i>> \in AttemptsOf(new)
              <=> d \in Caster /\ b \in Addr /\ i \in 1 .. MaxRetries /\ i <= new[d][b].attempt
        /\ \A u \in AttemptsOf(old) :
              \E d \in Caster, b \in Addr, i \in 1 .. MaxRetries : u = <<<<d, b>>, i>>
        /\ \A u \in AttemptsOf(new) :
              \E d \in Caster, b \in Addr, i \in 1 .. MaxRetries : u = <<<<d, b>>, i>>
        /\ IsFiniteSet(AttemptsOf(old)) /\ Cardinality(AttemptsOf(old)) \in Nat
    BY AttemptsElements
  <1>1. n + 1 \in 1 .. MaxRetries /\ ~ (n + 1 <= n) /\ n + 1 <= n + 1
    BY RetryAssumption
  <1>2. one \notin AttemptsOf(old) /\ one \in AttemptsOf(new)
    BY <1>e, <1>1
  <1>3. ASSUME NEW d \in Caster, NEW b \in Addr, NEW i \in 1 .. MaxRetries,
               <<<<d, b>>, i>> # one
        PROVE  <<<<d, b>>, i>> \in AttemptsOf(new) <=> <<<<d, b>>, i>> \in AttemptsOf(old)
    <2>1. CASE <<d, b>> = <<c, a>>
      <3>1. i # n + 1
        BY <1>3, <2>1
      <3>2. i <= n + 1 <=> i <= n
        BY <3>1, RetryAssumption
      <3>3. d = c /\ b = a
        BY <2>1
      <3> QED
        BY <1>e, <3>2, <3>3
    <2>2. CASE <<d, b>> # <<c, a>>
      <3>1. new[d][b].attempt = old[d][b].attempt
        BY <2>2
      <3> QED
        BY <1>e, <3>1
    <2> QED
      BY <2>1, <2>2
  <1> HIDE DEF one
  <1>4. AttemptsOf(new) = AttemptsOf(old) \cup {one}
    <2>1. ASSUME NEW u, u # one
          PROVE  u \in AttemptsOf(new) <=> u \in AttemptsOf(old)
      <3>1. CASE \E d \in Caster, b \in Addr, i \in 1 .. MaxRetries : u = <<<<d, b>>, i>>
        BY <1>3, <2>1, <3>1
      <3>2. CASE ~ \E d \in Caster, b \in Addr, i \in 1 .. MaxRetries : u = <<<<d, b>>, i>>
        BY <1>e, <3>2
      <3> QED
        BY <3>1, <3>2
    <2> QED
      BY <1>2, <2>1
  <1>5. IsFiniteSet(AttemptsOf(old)) /\ one \notin AttemptsOf(old)
    BY <1>e, <1>2
  <1>6. Cardinality(AttemptsOf(old) \cup {one}) = Cardinality(AttemptsOf(old)) + 1
    BY <1>5, FS_AddElement
  <1> QED
    BY <1>4, <1>6

\* A send that moves keeps its attempts, or adds one.
LEMMA AttemptsMoved ==
    ASSUME TypeOK, NEW c \in Caster, NEW a \in Addr, NEW y,
           send' = [send EXCEPT ![c][a] = y], NEW n \in Nat, n = send[c][a].attempt
    PROVE  /\ y.attempt = n => AttemptsOf(send') = AttemptsOf(send)
           /\ y.attempt = n + 1 /\ n < MaxRetries
                => Cardinality(AttemptsOf(send')) = Cardinality(AttemptsOf(send)) + 1
  <1>1. send \in [Caster -> [Addr -> SendTask]]
    BY DEF TypeOK, BroadcastTypeOK
  <1>2. /\ send'[c][a] = y
        /\ \A d \in Caster, b \in Addr : <<d, b>> # <<c, a>> => send'[d][b] = send[d][b]
    BY <1>1
  <1>3. ASSUME y.attempt = n PROVE AttemptsOf(send') = AttemptsOf(send)
    <2>1. \A d \in Caster, b \in Addr : send'[d][b].attempt = send[d][b].attempt
      BY <1>2, <1>3
    <2> QED
      BY <2>1, AttemptsSame
  <1>4. ASSUME y.attempt = n + 1, n < MaxRetries
        PROVE  Cardinality(AttemptsOf(send')) = Cardinality(AttemptsOf(send)) + 1
    <2>1. send[c][a].attempt = n /\ send'[c][a].attempt = n + 1
      BY <1>2, <1>4
    <2>2. \A d \in Caster, b \in Addr :
             <<d, b>> # <<c, a>> => send'[d][b].attempt = send[d][b].attempt
      BY <1>2
    <2> QED
      BY <1>4, <2>1, <2>2, AttemptsAdded
  <1> QED
    BY <1>3, <1>4

\* A send that starts has failed no attempt yet.
LEMMA AttemptsStarted ==
    ASSUME TypeOK, SendsFit, NEW c \in Caster, StartBroadcast(c)
    PROVE  AttemptsOf(send') = AttemptsOf(send)
  <1>1. \A b \in Addr : send[c][b].attempt = 0 /\ send'[c][b].attempt = 0
    BY Started DEF SendsFit, Fits, NewSend, NoSend
  <1>2. \A d \in Caster, b \in Addr : send'[d][b].attempt = send[d][b].attempt
    BY <1>1, Started
  <1> QED
    BY <1>2, AttemptsSame

\* The attempts of the sends that are joined: all of those that failed, and fewer
\* of those that did not.
LEMMA AttemptsJoined ==
    ASSUME TypeOK, SendsFit, NEW c \in Caster, FinishBroadcast(c)
    PROVE  \E gone \in Nat :
              /\ Cardinality(AttemptsOf(send)) = Cardinality(AttemptsOf(send')) + gone
              /\ MaxRetries * Cardinality(Outcome(c, "failed")) <= gone
              /\ gone <= MaxRetries * Cardinality(Outcome(c, "failed"))
                           + Most * Cardinality(Outcome(c, "ok"))
  <1> DEFINE failed == {c} \X Outcome(c, "failed")
             ok == {c} \X Outcome(c, "ok")
             gone == {u \in AttemptsOf(send) : u[1][1] = c}
  <1>e. /\ \A d, b, i : <<<<d, b>>, i>> \in AttemptsOf(send)
              <=> d \in Caster /\ b \in Addr /\ i \in 1 .. MaxRetries /\ i <= send[d][b].attempt
        /\ \A d, b, i : <<<<d, b>>, i>> \in AttemptsOf(send')
              <=> d \in Caster /\ b \in Addr /\ i \in 1 .. MaxRetries /\ i <= send'[d][b].attempt
        /\ \A u \in AttemptsOf(send) :
              \E d \in Caster, b \in Addr, i \in 1 .. MaxRetries : u = <<<<d, b>>, i>>
        /\ \A u \in AttemptsOf(send') :
              \E d \in Caster, b \in Addr, i \in 1 .. MaxRetries : u = <<<<d, b>>, i>>
        /\ IsFiniteSet(AttemptsOf(send)) /\ Cardinality(AttemptsOf(send)) \in Nat
    BY AttemptsElements
  <1>1. /\ \A b \in Addr : send[c][b].pc \in {"none", "ok", "failed"}
        /\ \A d \in Caster, b \in Addr : send'[d][b] = IF d = c THEN NoSend ELSE send[d][b]
    <2>1. "none" \notin {}
      OBVIOUS
    <2> QED
      BY <2>1, InJoined
  <1>2. AttemptsOf(send') = AttemptsOf(send) \ gone
    <2>1. ASSUME NEW d \in Caster, NEW b \in Addr, NEW i \in 1 .. MaxRetries
          PROVE  <<<<d, b>>, i>> \in AttemptsOf(send')
                   <=> d # c /\ <<<<d, b>>, i>> \in AttemptsOf(send)
      <3>1. CASE d = c
        <4>1. send'[d][b].attempt = 0 /\ ~ (i <= 0)
          BY <1>1, <3>1, RetryAssumption DEF NoSend
        <4> QED
          BY <1>e, <3>1, <4>1
      <3>2. CASE d # c
        BY <1>1, <1>e, <3>2
      <3> QED
        BY <3>1, <3>2
    <2> QED
      BY <1>e, <2>1
  <1>3. IsFiniteSet(gone) /\ Cardinality(gone) \in Nat /\ gone \in SUBSET AttemptsOf(send)
    <2>1. gone \in SUBSET AttemptsOf(send)
      OBVIOUS
    <2> QED
      BY <1>e, <2>1, FS_Subset, FS_CardinalityType
  <1>4. /\ failed \in SUBSET (Caster \X Addr) /\ ok \in SUBSET (Caster \X Addr)
        /\ failed \cap {} = {} /\ failed \cap ok = {} /\ {} \in SUBSET (Caster \X Addr)
        /\ {} \X (1 .. 1) \subseteq gone
    BY DEF Outcome
  <1>5. /\ \A b \in Outcome(c, "failed") : b \in Addr /\ send[c][b].attempt = MaxRetries
        /\ \A b \in Outcome(c, "ok") : b \in Addr /\ send[c][b].attempt < MaxRetries
        /\ \A b \in Addr : \/ b \in Outcome(c, "failed") \/ b \in Outcome(c, "ok")
                           \/ send[c][b].attempt = 0
    BY <1>1 DEF Outcome, SendsFit, Fits
  <1>6. failed \X (1 .. MaxRetries) \subseteq gone
    <2>1. ASSUME NEW b \in Outcome(c, "failed"), NEW i \in 1 .. MaxRetries
          PROVE  <<<<c, b>>, i>> \in gone
      <3>1. i <= send[c][b].attempt /\ b \in Addr
        BY <1>5, RetryAssumption
      <3> QED
        BY <1>e, <3>1
    <2> QED
      BY <2>1
  <1>7. gone \subseteq (failed \X (1 .. MaxRetries)) \cup (ok \X (1 .. Most))
    <2>1. ASSUME NEW b \in Addr, NEW i \in 1 .. MaxRetries, i <= send[c][b].attempt
          PROVE  \/ b \in Outcome(c, "failed")
                 \/ b \in Outcome(c, "ok") /\ i \in 1 .. Most
      <3>1. CASE b \in Outcome(c, "ok")
        <4>1. send[c][b].attempt \in Nat
          BY DEF TypeOK, BroadcastTypeOK, SendTask
        <4>2. i < MaxRetries
          BY <1>5, <2>1, <3>1, <4>1, RetryAssumption
        <4> QED
          BY <3>1, <4>2, RetryAssumption DEF Most
      <3>2. CASE send[c][b].attempt = 0
        BY <2>1, <3>2, RetryAssumption
      <3> QED
        BY <1>5, <3>1, <3>2
    <2>2. ASSUME NEW u \in gone
          PROVE  u \in (failed \X (1 .. MaxRetries)) \cup (ok \X (1 .. Most))
      <3>1. PICK d \in Caster, b \in Addr, i \in 1 .. MaxRetries : u = <<<<d, b>>, i>>
        BY <1>e
      <3>2. d = c /\ i <= send[c][b].attempt
        BY <1>e, <3>1
      <3> QED
        BY <2>1, <3>1, <3>2
    <2> QED
      BY <2>2
  <1> HIDE DEF gone, failed, ok
  <1>8. /\ MaxRetries * Cardinality(failed) + Cardinality({}) <= Cardinality(gone)
        /\ Cardinality(gone) <= MaxRetries * Cardinality(failed) + Most * Cardinality(ok)
    BY <1>3, <1>4, <1>6, <1>7, Between
  <1>9. /\ Cardinality(failed) = Cardinality(Outcome(c, "failed"))
        /\ Cardinality(ok) = Cardinality(Outcome(c, "ok"))
        /\ Cardinality(failed) \in Nat
    BY JoinedCount DEF failed, ok
  <1>10. Cardinality({}) = 0 /\ MaxRetries * Cardinality(failed) + 0 <= Cardinality(gone)
    BY <1>8, FS_EmptySet
  <1>11. MaxRetries * Cardinality(failed) <= Cardinality(gone)
    <2>1. MaxRetries * Cardinality(failed) \in Nat
      BY <1>9, RetryAssumption
    <2> QED
      BY <1>3, <1>10, <2>1
  <1>12. Cardinality(AttemptsOf(send)) = Cardinality(AttemptsOf(send')) + Cardinality(gone)
    <2>1. Cardinality(AttemptsOf(send) \ gone)
            = Cardinality(AttemptsOf(send)) - Cardinality(AttemptsOf(send) \cap gone)
      BY <1>e, FS_Difference
    <2>2. AttemptsOf(send) \cap gone = gone
      BY <1>3
    <2>3. Cardinality(AttemptsOf(send'))
            = Cardinality(AttemptsOf(send)) - Cardinality(gone)
      BY <1>2, <2>1, <2>2
    <2> QED
      BY <1>e, <1>3, <2>3
  <1> QED
    BY <1>3, <1>8, <1>9, <1>11, <1>12

RetryInv == ~ CanReset => SendsFit /\ RetriesKept

\* Every step counts an attempt that failed, joins some sends with theirs, or
\* leaves the attempts alone.
LEMMA RetriesStep == TypeOK /\ RetryInv /\ [Next]_vars => RetryInv'
  <1> SUFFICES ASSUME TypeOK, ~ CanReset, SendsFit, RetriesKept, [Next]_vars
               PROVE  SendsFit' /\ RetriesKept'
    BY DEF RetryInv
  <1>f. SendsFit'
    BY FitsStep
  <1>0. stats \in BroadcastStats
    BY DEF TypeOK, PeersTypeOK
  <1>n. PICK r \in Nat, f \in Nat, s \in Nat, n \in Nat :
           /\ r = stats.message_retries /\ f = stats.failed_broadcasts
           /\ s = stats.successful_broadcasts /\ n = Cardinality(AttemptsOf(send))
    BY <1>0, StatsTyped, AttemptsElements
  <1>m. Made(r, f, s, n)
    BY <1>n DEF RetriesKept
  <1>k. ASSUME CountersKept, AttemptsOf(send') = AttemptsOf(send) PROVE RetriesKept'
    BY <1>k, <1>n, <1>m DEF CountersKept, RetriesKept, Made
  <1>1. CASE \/ Operate
             \/ \E d \in Dialer : Dial(d)
             \/ \E t \in Session : Serve(t)
             \/ UNCHANGED vars
    <2>1. send' = send /\ CountersKept
      BY <1>1, OthersKeepCounters
    <2>2. AttemptsOf(send') = AttemptsOf(send)
      BY <2>1
    <2> QED
      BY <1>f, <1>k, <2>1, <2>2
  <1>2. ASSUME NEW c \in Caster, StartBroadcast(c) PROVE RetriesKept'
    BY <1>2, <1>k, Started, AttemptsStarted
  <1>3. ASSUME NEW c \in Caster, NEW a \in Addr, SendStep(c, a) PROVE RetriesKept'
    <2>1. PICK x \in SendTask : x = send[c][a]
      BY DEF TypeOK, BroadcastTypeOK
    <2>2. PICK y : y = send'[c][a]
      OBVIOUS
    <2>3. PICK i \in Nat : i = x.attempt /\ i = send[c][a].attempt
      BY <2>1, RetryAssumption DEF SendTask
    <2>4. send' = [send EXCEPT ![c][a] = y]
      BY <1>3, <2>2, SendMove
    <2>5. /\ y.attempt = IF x.pc = "attempt" /\ y.pc \in {"sleep", "giveup"}
                         THEN x.attempt + 1 ELSE x.attempt
          /\ \/ /\ x.pc = "attempt"
                /\ y.pc = IF x.attempt + 1 < MaxRetries THEN "sleep" ELSE "giveup"
                /\ stats' = [stats EXCEPT !.message_retries = @ + 1]
             \/ /\ y.pc \notin {"sleep", "giveup"}
                /\ CountersKept \/ stats' = [stats EXCEPT !.total_messages_sent = @ + 1]
      BY <1>3, <2>1, <2>2, SendMove
    <2>6. CASE /\ x.pc = "attempt"
               /\ y.pc = IF x.attempt + 1 < MaxRetries THEN "sleep" ELSE "giveup"
               /\ stats' = [stats EXCEPT !.message_retries = @ + 1]
      <3>1. y.attempt = i + 1
        BY <2>3, <2>5, <2>6
      <3>2. i < MaxRetries
        BY <2>1, <2>3, <2>6 DEF SendsFit, Fits
      <3>3. Cardinality(AttemptsOf(send')) = n + 1
        BY <1>n, <2>3, <2>4, <3>1, <3>2, AttemptsMoved
      <3>4. /\ stats'.message_retries = r + 1
            /\ stats'.failed_broadcasts = f /\ stats'.successful_broadcasts = s
        BY <1>0, <1>n, <2>6 DEF BroadcastStats
      <3>5. Made(r + 1, f, s, n + 1)
        BY <1>m, MadeOneMore
      <3> QED
        BY <3>3, <3>4, <3>5 DEF RetriesKept, Made
    <2>7. CASE /\ y.pc \notin {"sleep", "giveup"}
               /\ CountersKept \/ stats' = [stats EXCEPT !.total_messages_sent = @ + 1]
      <3>1. CountersKept \/ /\ stats'.message_retries = r
                            /\ stats'.failed_broadcasts = f /\ stats'.successful_broadcasts = s
        BY <1>0, <1>n, <2>7 DEF BroadcastStats
      <3>2. y.attempt = i
        BY <2>3, <2>5, <2>7
      <3>3. AttemptsOf(send') = AttemptsOf(send)
        BY <2>3, <2>4, <3>2, AttemptsMoved
      <3> QED
        BY <1>k, <1>n, <1>m, <3>1, <3>3 DEF RetriesKept, Made
    <2> QED
      BY <2>5, <2>6, <2>7
  <1>4. ASSUME NEW c \in Caster, FinishBroadcast(c) PROVE RetriesKept'
    <2>1. PICK failed \in Nat, ok \in Nat :
             failed = Cardinality(Outcome(c, "failed")) /\ ok = Cardinality(Outcome(c, "ok"))
      BY JoinedCount
    <2>2. PICK gone \in Nat :
             /\ n = Cardinality(AttemptsOf(send')) + gone
             /\ MaxRetries * failed <= gone
             /\ gone <= MaxRetries * failed + Most * ok
      BY <1>4, <1>n, <2>1, AttemptsJoined
    <2>3. PICK left \in Nat : left = Cardinality(AttemptsOf(send'))
      BY AttemptsElements
    <2>4. /\ stats'.message_retries = r
          /\ stats'.failed_broadcasts = f + failed /\ stats'.successful_broadcasts = s + ok
      BY <1>0, <1>4, <1>n, <2>1 DEF FinishBroadcast, BroadcastStats
    <2>5. Made(r, f + failed, s + ok, left)
      BY <1>m, <2>2, <2>3, MadeJoined
    <2> QED
      BY <2>3, <2>4, <2>5 DEF RetriesKept, Made
  <1>5. RetriesKept'
    BY <1>1, <1>2, <1>3, <1>4 DEF Next, Broadcast, CasterStep
  <1> QED
    BY <1>f, <1>5

\* What the invariant says of the sends by the states they are in.
LEMMA RetriesBounded == TypeOK /\ RetryInv => RetryAccounting
  <1> SUFFICES ASSUME TypeOK, RetryInv, ~ CanReset PROVE RetryAccounting
    BY DEF RetryAccounting
  <1>0. SendsFit /\ RetriesKept
    BY DEF RetryInv
  <1> DEFINE out == In(send, {"failed", "giveup"})
             once == In(send, {"sleep"})
             others == In(send, {"attempt", "sleep", "count", "ok"})
             attempts == AttemptsOf(send)
  <1>1. /\ out \in SUBSET (Caster \X Addr) /\ once \in SUBSET (Caster \X Addr)
        /\ others \in SUBSET (Caster \X Addr) /\ IsFiniteSet(attempts)
        /\ out \cap once = {} /\ out \cap others = {}
    BY AttemptsElements DEF In
  <1>e. /\ \A c, a, i : <<<<c, a>>, i>> \in attempts
              <=> c \in Caster /\ a \in Addr /\ i \in 1 .. MaxRetries /\ i <= send[c][a].attempt
        /\ \A u \in attempts :
              \E c \in Caster, a \in Addr, i \in 1 .. MaxRetries : u = <<<<c, a>>, i>>
    BY AttemptsElements
  <1>o. \A pcs : /\ \A c, a : <<c, a>> \in In(send, pcs)
                        <=> c \in Caster /\ a \in Addr /\ send[c][a].pc \in pcs
                 /\ \A t \in In(send, pcs) : \E c \in Caster, a \in Addr : t = <<c, a>>
    BY InElements
  <1>2. \A c \in Caster, a \in Addr :
           /\ send[c][a].attempt \in Nat
           /\ <<c, a>> \in out => send[c][a].attempt = MaxRetries
           /\ <<c, a>> \in once => send[c][a].attempt > 0 /\ send[c][a].attempt < MaxRetries
           /\ <<c, a>> \in others => send[c][a].attempt < MaxRetries
           /\ <<c, a>> \in out \/ <<c, a>> \in others \/ send[c][a].attempt = 0
    <2> SUFFICES ASSUME NEW c \in Caster, NEW a \in Addr
                 PROVE  /\ send[c][a].attempt \in Nat
                        /\ <<c, a>> \in out => send[c][a].attempt = MaxRetries
                        /\ <<c, a>> \in once
                             => send[c][a].attempt > 0 /\ send[c][a].attempt < MaxRetries
                        /\ <<c, a>> \in others => send[c][a].attempt < MaxRetries
                        /\ <<c, a>> \in out \/ <<c, a>> \in others \/ send[c][a].attempt = 0
      OBVIOUS
    <2>1. PICK x \in SendTask : x = send[c][a] /\ Fits(x)
      BY <1>0 DEF TypeOK, BroadcastTypeOK, SendsFit
    <2>2. /\ <<c, a>> \in out <=> x.pc \in {"failed", "giveup"}
          /\ <<c, a>> \in once <=> x.pc \in {"sleep"}
          /\ <<c, a>> \in others <=> x.pc \in {"attempt", "sleep", "count", "ok"}
      BY <1>o, <2>1
    <2> HIDE DEF out, once, others
    <2>3. x.attempt \in Nat /\ x.pc \in SendPc
      BY <2>1, RetryAssumption DEF SendTask
    <2> QED
      BY <2>1, <2>2, <2>3 DEF Fits, SendPc
  <1> DEFINE rows == out \X (1 .. MaxRetries)
             firsts == once \X (1 .. 1)
             rest == others \X (1 .. Most)
  <1>3. rows \subseteq attempts
    <2>1. ASSUME NEW c \in Caster, NEW a \in Addr, NEW i \in 1 .. MaxRetries, <<c, a>> \in out
          PROVE  <<<<c, a>>, i>> \in attempts
      <3>1. i <= send[c][a].attempt
        BY <1>2, <2>1, RetryAssumption
      <3> QED
        BY <1>e, <3>1
    <2> QED
      BY <1>o, <2>1
  <1>4. firsts \subseteq attempts
    <2>1. ASSUME NEW c \in Caster, NEW a \in Addr, <<c, a>> \in once
          PROVE  <<<<c, a>>, 1>> \in attempts
      <3>1. 1 <= send[c][a].attempt /\ 1 \in 1 .. MaxRetries
        BY <1>2, <2>1, RetryAssumption
      <3> QED
        BY <1>e, <3>1
    <2>2. \A i \in 1 .. 1 : i = 1
      OBVIOUS
    <2> QED
      BY <1>o, <2>1, <2>2
  <1>5. attempts \subseteq rows \cup rest
    <2>1. ASSUME NEW c \in Caster, NEW a \in Addr, NEW i \in 1 .. MaxRetries,
                 i <= send[c][a].attempt
          PROVE  <<c, a>> \in out \/ (<<c, a>> \in others /\ i \in 1 .. Most)
      <3>1. CASE <<c, a>> \in others
        <4>1. i < MaxRetries
          BY <1>2, <2>1, <3>1, RetryAssumption
        <4> QED
          BY <3>1, <4>1, RetryAssumption DEF Most
      <3>2. CASE send[c][a].attempt = 0
        BY <2>1, <3>2, RetryAssumption
      <3> QED
        BY <1>2, <3>1, <3>2
    <2>2. ASSUME NEW u \in attempts PROVE u \in rows \cup rest
      <3>1. PICK c \in Caster, a \in Addr, i \in 1 .. MaxRetries : u = <<<<c, a>>, i>>
        BY <1>e
      <3>2. i <= send[c][a].attempt
        BY <1>e, <3>1
      <3> HIDE DEF out, others
      <3> QED
        BY <2>1, <3>1, <3>2
    <2> QED
      BY <2>2
  <1>6. /\ Cardinality(out) \in Nat /\ Cardinality(once) \in Nat /\ Cardinality(others) \in Nat
        /\ Cardinality(attempts) \in Nat
    BY InElements, AttemptsElements
  <1>7. Cardinality(out) = Cardinality(Unjoined("failed")) + Cardinality(Unjoined("giveup"))
    <2>1. /\ IsFiniteSet(Unjoined("failed")) /\ Cardinality(Unjoined("failed")) \in Nat
          /\ IsFiniteSet(Unjoined("giveup")) /\ Cardinality(Unjoined("giveup")) \in Nat
      BY InElements, UnjoinedIn
    <2>2. /\ out = Unjoined("failed") \cup Unjoined("giveup")
          /\ Unjoined("failed") \cap Unjoined("giveup") = {}
      BY UnjoinedIn DEF In
    <2>3. Cardinality(Unjoined("failed") \cap Unjoined("giveup")) = 0
      BY <2>2, FS_EmptySet
    <2>4. Cardinality(Unjoined("failed") \cup Unjoined("giveup"))
            = Cardinality(Unjoined("failed")) + Cardinality(Unjoined("giveup"))
              - Cardinality(Unjoined("failed") \cap Unjoined("giveup"))
      BY <2>1, FS_Union
    <2>5. Cardinality(Unjoined("failed") \cup Unjoined("giveup"))
            = Cardinality(Unjoined("failed")) + Cardinality(Unjoined("giveup"))
      BY <2>1, <2>3, <2>4
    <2> HIDE DEF out
    <2> QED
      BY <2>2, <2>5
  <1>8. /\ once = Unjoined("sleep")
        /\ others = {t \in Caster \X Addr :
                        send[t[1]][t[2]].pc \in {"attempt", "sleep", "count", "ok"}}
    BY UnjoinedIn DEF In
  <1>9. /\ Cardinality(Unjoined("failed")) \in Nat /\ Cardinality(Unjoined("giveup")) \in Nat
    BY InElements, UnjoinedIn
  <1> HIDE DEF out, once, others, attempts
  <1>10. /\ MaxRetries * Cardinality(out) + Cardinality(once) <= Cardinality(attempts)
         /\ Cardinality(attempts)
               <= MaxRetries * Cardinality(out) + Most * Cardinality(others)
    BY <1>1, <1>3, <1>4, <1>5, Between
  <1>11. PICK r \in Nat, f \in Nat, s \in Nat, n \in Nat :
            /\ r = stats.message_retries /\ f = stats.failed_broadcasts
            /\ s = stats.successful_broadcasts /\ n = Cardinality(attempts)
    BY <1>6, StatsTyped DEF TypeOK, PeersTypeOK
  <1>12. PICK x \in Nat, y \in Nat, z \in Nat, w \in Nat :
            /\ x = Cardinality(Unjoined("failed")) /\ y = Cardinality(Unjoined("giveup"))
            /\ z = Cardinality(once) /\ w = Cardinality(others)
    BY <1>6, <1>9
  <1>13. /\ MaxRetries * f + n <= r /\ r <= MaxRetries * f + n + Most * s
    BY <1>0, <1>11 DEF RetriesKept, Made, attempts
  <1>14. MaxRetries * (x + y) + z <= n /\ n <= MaxRetries * (x + y) + Most * w
    BY <1>7, <1>10, <1>11, <1>12
  <1>15. /\ r >= MaxRetries * (f + x + y) + z
         /\ r <= MaxRetries * (f + x + y) + Most * (s + w)
    <2>1. Most \in Nat /\ MaxRetries \in Nat
      BY RetryAssumption DEF Most
    <2>2. PICK p \in Nat, q \in Nat, pf \in Nat, qo \in Nat :
             /\ p = MaxRetries * f /\ q = Most * s
             /\ pf = MaxRetries * (x + y) /\ qo = Most * w
      BY <2>1
    <2>3. MaxRetries * (f + x + y) = p + pf /\ Most * (s + w) = q + qo
      BY <2>1, <2>2
    <2>4. p + n <= r /\ r <= p + n + q /\ pf + z <= n /\ n <= pf + qo
      BY <1>13, <1>14, <2>2
    <2>5. r >= (p + pf) + z /\ r <= (p + pf) + (q + qo)
      BY <2>4
    <2> QED
      BY <2>3, <2>5
  <1> QED
    BY <1>8, <1>11, <1>12, <1>15 DEF RetryAccounting, Most

\* message_retries is what the sends failed: max_retries for each that was given
\* up, joined or not, at least one for each that sleeps, and less than
\* max_retries for each other.
THEOREM RetriesAreCounted == Safe => []RetryAccounting
  <1>1. Init => RetryInv
    <2> SUFFICES ASSUME Init PROVE SendsFit /\ RetriesKept
      BY DEF RetryInv
    <2>1. \A c \in Caster, a \in Addr : send[c][a] = NoSend
      BY DEF Init, BroadcastInit
    <2>2. SendsFit
      BY <2>1 DEF SendsFit, Fits, NoSend
    <2>3. AttemptsOf(send) = {}
      <3>1. ASSUME NEW c \in Caster, NEW a \in Addr, NEW i \in 1 .. MaxRetries
            PROVE  ~ (i <= send[c][a].attempt)
        BY <2>1, RetryAssumption DEF NoSend
      <3> QED
        BY <3>1 DEF AttemptsOf
    <2>4. Cardinality(AttemptsOf(send)) = 0
      BY <2>3, FS_EmptySet
    <2>5. /\ stats.message_retries = 0 /\ stats.failed_broadcasts = 0
          /\ stats.successful_broadcasts = 0
      BY DEF Init, PeersInit, NoStats
    <2>6. Most \in Nat /\ MaxRetries \in Nat
      BY RetryAssumption DEF Most
    <2>7. MaxRetries * 0 = 0 /\ Most * 0 = 0
      BY <2>6
    <2> QED
      BY <2>2, <2>4, <2>5, <2>7 DEF RetriesKept, Made
  <1> QED
    BY <1>1, RetriesStep, RetriesBounded, TypeCorrect, PTL DEF Safe
=============================================================================

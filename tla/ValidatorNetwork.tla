--------------------------- MODULE ValidatorNetwork ---------------------------
(***************************************************************************)
(* A ValidatorNetworkManager at work: dialers, inbound sessions and        *)
(* broadcasts interleave over one peer table, one set of statistics and    *)
(* one connection semaphore, while the operator adds, removes, disconnects *)
(* and cleans up peers.                                                    *)
(***************************************************************************)
EXTENDS ValidatorConnections, ValidatorBroadcast

vars == <<peers, stats, calls, dialer, session, permits, send>>

Init == PeersInit /\ ConnectionsInit /\ BroadcastInit

Operate == TableStep /\ UNCHANGED <<calls, connectionVars, send>>

Dial(d) == DialerStep(d) /\ UNCHANGED send

Serve(s) == SessionStep(s) /\ UNCHANGED send

Broadcast(c) == CasterStep(c) /\ UNCHANGED connectionVars

Next ==
    \/ Operate
    \/ \E d \in Dialer : Dial(d)
    \/ \E s \in Session : Serve(s)
    \/ \E c \in Caster : Broadcast(c)

Safe == Init /\ [][Next]_vars

(***************************************************************************)
(* Every await of connect_peer and of a send has a timeout, and the        *)
(* handshake of a session too, so these tasks go on; the semaphore is      *)
(* first come, first served, so a task is not passed over for ever.        *)
(* Nothing makes a remote speak or hang up: Receive and Close may never    *)
(* happen, and a session may hold its permit for ever.                     *)
(***************************************************************************)
Fairness ==
    /\ \A d \in Dialer :
          /\ WF_vars(DialerProgress(d) /\ UNCHANGED send)
          /\ SF_vars(AcquirePermit(d) /\ UNCHANGED send)
    /\ \A s \in Session :
          /\ WF_vars(SessionProgress(s) /\ UNCHANGED send)
          /\ SF_vars(AcquireSession(s) /\ UNCHANGED send)
    /\ \A c \in Caster :
          /\ \A a \in Addr : WF_vars(SendStep(c, a) /\ UNCHANGED connectionVars)
          /\ WF_vars(FinishBroadcast(c) /\ UNCHANGED connectionVars)

Spec == Safe /\ Fairness

-----------------------------------------------------------------------------
TypeOK == PeersTypeOK /\ ConnectionsTypeOK /\ BroadcastTypeOK

\* A send that attempts or sleeps has an attempt left: max_retries bounds the
\* sockets one send opens.
AttemptsLeft ==
    \A c \in Caster, a \in Addr :
        send[c][a].pc \in {"attempt", "sleep"} => send[c][a].attempt < MaxRetries

\* Whatever dials, sessions, failed sends and disconnects interleave, a peer
\* that the table shows as Connected ("Connected and handshaked") identified
\* itself in a handshake and has not failed more often than record_failure
\* tolerates.
ConnectedIsSound ==
    \A a \in Connected :
        /\ peers[a].handshaked
        /\ peers[a].failed_attempts <= FailLimit

\* Every return path of connect_peer and of a spawned session gives its
\* permit back exactly once: none leaks, none is returned twice.
PermitAccounting == permits = MaxPermits - Cardinality(Holders)

\* stats.peer_count, kept by hand in add_peer, remove_peer and
\* cleanup_stale_peers, never runs ahead of the table; only reset_stats makes
\* it fall behind.
PeerCountKept ==
    /\ stats.peer_count <= Cardinality(Known)
    /\ ~CanReset => stats.peer_count = Cardinality(Known)

\* A task that comes back from an await with an address writes through
\* get_mut: only add_peer creates an entry, and none that was removed or
\* cleaned up in the meantime comes back half-initialised.
OnlyAddPeerCreates ==
    [][\A a \in Addr :
          peers[a] = None /\ peers'[a] # None =>
              peers'[a] = NewPeer /\ stats'.peer_count = stats.peer_count + 1]_vars

\* Sends that some broadcast has not joined yet.
Unjoined(pc) ==
    {t \in Caster \X Addr : send[t[1]][t[2]].pc = pc}

\* total_messages_sent is counted by each send, successful_broadcasts by the
\* caller that joins it: the two differ by the sends still to be joined.
SentAccounting ==
    ~CanReset =>
        stats.total_messages_sent =
            stats.successful_broadcasts + Cardinality(Unjoined("ok"))

\* A send is given up only after max_retries failed attempts, and a
\* successful one failed fewer times: with the attempts of the sends still
\* running, message_retries lies between these bounds.
RetryAccounting ==
    LET failed == stats.failed_broadcasts + Cardinality(Unjoined("failed"))
                    + Cardinality(Unjoined("giveup"))
        retried == Cardinality(Unjoined("sleep"))
        others == stats.successful_broadcasts
                    + Cardinality({t \in Caster \X Addr :
                         send[t[1]][t[2]].pc \in
                            {"attempt", "sleep", "count", "ok"}})
    IN  ~CanReset =>
            /\ stats.message_retries >= MaxRetries * failed + retried
            /\ stats.message_retries <= 
                  MaxRetries * failed
                    + (IF MaxRetries = 0 THEN 0 ELSE MaxRetries - 1) * others

\* Dials and sessions together never hold more than MaxPermits connections,
\* and come and go one at a time: the semaphore's promise is kept.
Limiter == INSTANCE ConnectionLimit
               WITH Task <- Dialer \cup Session,
                    Limit <- MaxPermits,
                    holders <- Holders

ConnectionsAreLimited == Limiter!Spec

\* connect_peer returns, even behind a full semaphore, as long as sessions,
\* which a remote may keep open for ever, cannot take every permit.
ConnectReturns ==
    \A d \in Dialer : dialer[d].pc = "permit" ~> dialer[d].pc = "idle"

\* An accepted socket is served, under the same condition.
SessionServed ==
    \A s \in Session : session[s].pc = "permit" ~> session[s].pc = "handshake"

\* A broadcast ends: each send succeeds or uses up its attempts, and the
\* caller joins them all, whatever happens to the peers meanwhile.
BroadcastReturns ==
    \A c \in Caster : Targets(c) # {} ~> Targets(c) = {}
=============================================================================

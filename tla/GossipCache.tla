------------------------------ MODULE GossipCache ------------------------------
(***************************************************************************)
(* GossipCache: GossipProtocol, the topics a node is subscribed to and the *)
(* cache by which it recognises messages it has already seen.              *)
(*                                                                         *)
(* All operations but broadcast have the protocol to themselves (&mut      *)
(* self), and broadcast keeps the lock of the cache until it returns, so   *)
(* each operation is one action.  A call that is refused (no such topic, a *)
(* type of message that is not broadcast, a message too large) changes     *)
(* nothing.  Left out: payloads and byte counts, seen_count and            *)
(* last_activity, which nothing reads.                                     *)
(***************************************************************************)
EXTENDS Integers, FiniteSets

CONSTANTS
    Topic,           \* topics one can subscribe to
    Standard,        \* the topics broadcast chooses from
    Id,              \* message ids, whether hashed or copied from the data
    MaxCache,        \* max_cache_size
    Fraction,        \* 10: an eviction takes one entry in so many
    TTL,             \* cache_ttl
    MaxTime,         \* bound: how far the clock goes
    MaxMessages      \* bound: messages counted in the statistics

ASSUME TopicAssumption == Standard \subseteq Topic /\ IsFiniteSet(Topic)
ASSUME SizeAssumption == MaxCache \in Nat /\ Fraction \in Nat \ {0}
ASSUME BoundAssumption == TTL \in Nat /\ MaxTime \in Nat /\ MaxMessages \in Nat

VARIABLES
    topics,          \* messages_sent and messages_received of each subscription
    message_cache,   \* cached_at of each message in the cache
    total_sent,
    total_received,
    total_deduplicated,
    now

stats == <<total_sent, total_received, total_deduplicated>>
vars == <<topics, message_cache, stats, now>>

Counter == 0 .. MaxMessages
TopicInfo == [messages_sent : Counter, messages_received : Counter]

Subscribed == DOMAIN topics
Cached == DOMAIN message_cache

TypeOK ==
    /\ topics \in UNION {[S -> TopicInfo] : S \in SUBSET Topic}
    /\ Cached \subseteq Id /\ IsFiniteSet(Cached)
    /\ message_cache \in [Cached -> 0 .. now]
    /\ total_sent \in Counter /\ total_received \in Counter
    /\ total_deduplicated \in Counter
    /\ now \in 0 .. MaxTime

Init ==
    /\ topics = [t \in {} |-> [messages_sent |-> 0, messages_received |-> 0]]
    /\ message_cache = [m \in {} |-> 0]
    /\ total_sent = 0 /\ total_received = 0 /\ total_deduplicated = 0
    /\ now = 0

(***************************************************************************)
(* Topics.                                                                 *)
(***************************************************************************)
Subscribe(t) ==
    /\ t \notin Subscribed
    /\ topics' = [s \in Subscribed \cup {t} |->
                     IF s = t THEN [messages_sent |-> 0, messages_received |-> 0]
                     ELSE topics[s]]
    /\ UNCHANGED <<message_cache, stats, now>>

Unsubscribe(t) ==
    /\ t \in Subscribed
    /\ topics' = [s \in Subscribed \ {t} |-> topics[s]]
    /\ UNCHANGED <<message_cache, stats, now>>

\* The message is handed out for publishing; the cache does not learn of it.
PrepareMessage(t) ==
    /\ t \in Subscribed /\ total_sent < MaxMessages
    /\ topics' = [topics EXCEPT ![t].messages_sent = @ + 1]
    /\ total_sent' = total_sent + 1
    /\ UNCHANGED <<message_cache, total_received, total_deduplicated, now>>

(***************************************************************************)
(* The cache.                                                              *)
(***************************************************************************)
\* Variant: full one entry too late.
FullLate(S) == Cardinality(S) > MaxCache

Full(S) == Cardinality(S) >= MaxCache

Young(m) == now - message_cache[m] < TTL

\* Variant: the entries sorted the wrong way round.
NewestOf(S, n) ==
    {V \in SUBSET S : /\ Cardinality(V) = n
                      /\ \A v \in V, s \in S \ V : message_cache[v] >= message_cache[s]}

\* The n oldest of S: the order of entries of the same age is the hash map's.
OldestOf(S, n) ==
    {V \in SUBSET S : /\ Cardinality(V) = n
                      /\ \A v \in V, s \in S \ V : message_cache[v] <= message_cache[s]}

\* The most entries one operation takes from a cache of young messages.
Batch == IF MaxCache < Fraction THEN 1 ELSE MaxCache \div Fraction

\* evict_old_messages: what may be left of the cache.
Evict ==
    LET young == {m \in Cached : Young(m)}
    IN  IF Full(young) THEN {young \ V : V \in OldestOf(young, MaxCache \div Fraction)}
        ELSE {young}

\* Variant: the time of expiry in the place of the time of arrival.
InsertExpiry(kept, m) ==
    message_cache' = [k \in kept \cup {m} |->
                         IF k = m THEN now + TTL ELSE message_cache[k]]

Insert(kept, m) ==
    message_cache' = [k \in kept \cup {m} |-> IF k = m THEN now ELSE message_cache[k]]

\* Variant: only messages on a subscribed topic are counted.
HandleNewUncounted(m, t) ==
    /\ m \notin Cached /\ total_received < MaxMessages
    /\ topics' = [s \in Subscribed |->
                     IF s = t THEN [topics[s] EXCEPT !.messages_received = @ + 1]
                     ELSE topics[s]]
    /\ total_received' = total_received + (IF t \in Subscribed THEN 1 ELSE 0)
    /\ \E kept \in IF Full(Cached) THEN Evict ELSE {Cached} : Insert(kept, m)
    /\ UNCHANGED <<total_sent, total_deduplicated, now>>

\* A message that turns out not to be readable is counted and cached all the
\* same: only the answer to the caller differs.
HandleNew(m, t) ==
    /\ m \notin Cached /\ total_received < MaxMessages
    /\ topics' = [s \in Subscribed |->
                     IF s = t THEN [topics[s] EXCEPT !.messages_received = @ + 1]
                     ELSE topics[s]]
    /\ total_received' = total_received + 1
    /\ \E kept \in IF Full(Cached) THEN Evict ELSE {Cached} : Insert(kept, m)
    /\ UNCHANGED <<total_sent, total_deduplicated, now>>

\* An entry counts as long as it is there, whatever its age.
HandleDuplicate(m) ==
    /\ m \in Cached /\ total_deduplicated < MaxMessages
    /\ total_deduplicated' = total_deduplicated + 1
    /\ UNCHANGED <<topics, message_cache, total_sent, total_received, now>>

\* A full cache gives up its oldest entry.  The statistics of the topic do
\* not change, and nothing is done for a message that is in the cache.
Broadcast(m, t) ==
    /\ t \in Standard \cap Subscribed
    /\ m \notin Cached /\ total_sent < MaxMessages
    /\ \E kept \in IF Full(Cached) /\ Cached # {}
                   THEN {Cached \ V : V \in OldestOf(Cached, 1)} ELSE {Cached} :
          Insert(kept, m)
    /\ total_sent' = total_sent + 1
    /\ UNCHANGED <<topics, total_received, total_deduplicated, now>>

ClearCache ==
    /\ message_cache' = [m \in {} |-> 0]
    /\ UNCHANGED <<topics, stats, now>>

Tick ==
    /\ now < MaxTime
    /\ now' = now + 1
    /\ UNCHANGED <<topics, message_cache, stats>>

Next ==
    \/ \E t \in Topic : Subscribe(t) \/ Unsubscribe(t) \/ PrepareMessage(t)
    \/ \E m \in Id, t \in Topic : HandleNew(m, t) \/ Broadcast(m, t)
    \/ \E m \in Id : HandleDuplicate(m)
    \/ ClearCache
    \/ Tick

Spec == Init /\ [][Next]_vars

(***************************************************************************)
(* Properties.                                                             *)
(***************************************************************************)
\* max_cache_size is the largest size of the cache, whichever of its two
\* writers fills it and however many entries share an age.  It needs a size
\* of at least 10: for a smaller one evict_old_messages removes 10% = 0
\* entries of a cache that is full of young ones, and cache_message inserts.
CacheBounded ==
    MaxCache >= Fraction => Cardinality(Cached) <= MaxCache

\* Unless the cache is cleared, a message is forgotten before its TTL only to
\* make room: the messages that stay and are at least as young fill the cache
\* up to the tenth that an eviction may take (or the one that broadcast takes).
\* A duplicate gets through within the TTL only after that many newer messages.
RememberedWhileYoung ==
    [][\A m \in Cached \ Cached' :
          \/ Cached' = {}
          \/ ~Young(m)
          \/ Cardinality({k \in Cached \cap Cached' : message_cache[k] >= message_cache[m]})
                >= MaxCache - Batch]_vars

\* The messages that counters of topics tell of: of each topic the first, the
\* second, and so on, so that there are as many as the counters add up to.
MessagesOf(counter) == UNION {{t} \X (1 .. counter[t]) : t \in DOMAIN counter}

\* The statistics of the protocol cover those of its topics and its cache:
\* messages counted by the current subscriptions and messages in the cache
\* were all counted by total_received or total_sent, across subscriptions
\* that ended, messages that were evicted and topics nobody subscribed to.
TotalsCoverTopics ==
    /\ Cardinality(MessagesOf([t \in Subscribed |-> topics[t].messages_received]))
          <= total_received
    /\ Cardinality(MessagesOf([t \in Subscribed |-> topics[t].messages_sent])) <= total_sent
    /\ Cardinality(Cached) <= total_received + total_sent
=============================================================================

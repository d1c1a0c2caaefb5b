--------------------------- MODULE GossipCacheProofs --------------------------
(***************************************************************************)
(* Proofs about GossipCache, for any topics and messages, any size of the  *)
(* cache and any share of it that an eviction takes: the cache keeps to    *)
(* its size and forgets no young message but to make room, and the totals  *)
(* cover the topics and the cache.                                         *)
(***************************************************************************)
EXTENDS GossipCache, FiniteSetTheorems, TLAPS

\* What the operations on the cache need to know of it.
CacheShape ==
    /\ Cached \subseteq Id /\ IsFiniteSet(Cached)
    /\ message_cache \in [Cached -> Nat]
    /\ now \in Nat

CacheInv == CacheShape /\ CacheBounded

\* The step property of RememberedWhileYoung.
ForgetsOldest ==
    \A m \in Cached \ Cached' :
       \/ Cached' = {}
       \/ ~Young(m)
       \/ Cardinality({k \in Cached \cap Cached' : message_cache[k] >= message_cache[m]})
             >= MaxCache - Batch

\* What may leave the cache before a message is inserted: kept is what stays.
Forgets(kept, m) ==
    \/ ~Young(m)
    \/ Cardinality({k \in kept : message_cache[k] >= message_cache[m]})
          >= MaxCache - Batch

MakesRoom(kept) ==
    /\ kept \subseteq Cached
    /\ MaxCache >= Fraction /\ Cardinality(Cached) <= MaxCache
          => Cardinality(kept) < MaxCache
    /\ \A m \in Cached \ kept : Forgets(kept, m)

\* The part an eviction takes lies between nothing and the batch, and is
\* nothing only of a cache that is smaller than Fraction.
LEMMA Quotient ==
    /\ MaxCache \div Fraction \in Nat
    /\ MaxCache \div Fraction <= MaxCache
    /\ MaxCache \div Fraction <= Batch
    /\ Batch \in Nat \ {0}
    /\ MaxCache >= Fraction => MaxCache \div Fraction >= 1
<1>1. MaxCache \in Nat /\ Fraction \in Nat \ {0}
  BY SizeAssumption
<1>2. MaxCache \div Fraction \in Nat
  BY <1>1, SMT
<1>3. MaxCache \div Fraction <= MaxCache
  BY <1>1, SMT
<1>4. MaxCache >= Fraction => MaxCache \div Fraction >= 1
  BY <1>1, SMT
<1>5. MaxCache < Fraction => MaxCache \div Fraction = 0
  BY <1>1, SMT
<1>6. MaxCache \div Fraction <= Batch /\ Batch \in Nat \ {0}
  <2>1. CASE MaxCache < Fraction
    BY <2>1, <1>5 DEF Batch
  <2>2. CASE ~(MaxCache < Fraction)
    BY <2>2, <1>1, <1>2, <1>4 DEF Batch
  <2> QED
    BY <2>1, <2>2
<1> QED
  BY <1>2, <1>3, <1>4, <1>6

\* Taking n oldest entries out of S leaves n fewer, and whatever is left is at
\* least as young as each entry that was taken.
LEMMA OldestTaken ==
    ASSUME NEW S, IsFiniteSet(S), NEW n \in Nat, NEW V \in OldestOf(S, n)
    PROVE  /\ V \subseteq S
           /\ IsFiniteSet(S \ V)
           /\ Cardinality(S \ V) = Cardinality(S) - n
           /\ \A v \in V : {k \in S \ V : message_cache[v] <= message_cache[k]} = S \ V
<1>1. /\ V \subseteq S /\ Cardinality(V) = n
      /\ \A v \in V, s \in S \ V : message_cache[v] <= message_cache[s]
  BY DEF OldestOf
<1>2. S \cap V = V
  BY <1>1
<1>3. IsFiniteSet(S \ V) /\ Cardinality(S \ V) = Cardinality(S) - Cardinality(S \cap V)
  BY FS_Difference
<1>4. ASSUME NEW v \in V
      PROVE  {k \in S \ V : message_cache[v] <= message_cache[k]} = S \ V
  BY <1>1
<1> QED
  BY <1>1, <1>2, <1>3, <1>4

\* What evict_old_messages leaves of a full cache has room for a message,
\* if a tenth of the cache is an entry at least, and what it takes is expired
\* or among the oldest.
LEMMA EvictMakesRoom ==
    ASSUME CacheShape, NEW kept \in Evict
    PROVE  MakesRoom(kept)
<1> DEFINE young == {m \in Cached : Young(m)}
<1> DEFINE n == MaxCache \div Fraction
<1>1. IsFiniteSet(Cached) /\ young \subseteq Cached
  BY DEF CacheShape
<1>2. IsFiniteSet(young) /\ Cardinality(young) <= Cardinality(Cached)
  BY <1>1, FS_Subset
<1>3. /\ Cardinality(young) \in Nat /\ Cardinality(Cached) \in Nat
      /\ MaxCache \in Nat /\ Fraction \in Nat
  BY <1>1, <1>2, FS_CardinalityType, SizeAssumption
<1>4. n \in Nat /\ n <= Batch /\ Batch \in Nat /\ (MaxCache >= Fraction => n >= 1)
  BY Quotient
<1>5. kept \in IF Full(young) THEN {young \ V : V \in OldestOf(young, n)} ELSE {young}
  BY DEF Evict
<1>6. \A m \in Cached \ young : Forgets(kept, m)
  BY DEF Forgets
<1>7. CASE ~Full(young)
  <2>1. kept = young
    BY <1>5, <1>7
  <2>2. Cardinality(young) < MaxCache
    BY <1>3, <1>7 DEF Full
  <2> QED
    BY <1>1, <1>6, <2>1, <2>2 DEF MakesRoom
<1>8. CASE Full(young)
  <2>1. PICK V \in OldestOf(young, n) : kept = young \ V
    BY <1>5, <1>8
  <2> HIDE DEF young, n
  <2>2. /\ V \subseteq young /\ Cardinality(kept) = Cardinality(young) - n
        /\ \A v \in V : {k \in kept : message_cache[v] <= message_cache[k]} = kept
    BY <1>2, <1>4, <2>1, OldestTaken
  <2>3. Cardinality(young) >= MaxCache
    BY <1>8 DEF Full
  <2>4. Cardinality(kept) >= MaxCache - Batch
    BY <1>3, <1>4, <2>2, <2>3
  <2>5. MaxCache >= Fraction /\ Cardinality(Cached) <= MaxCache
          => Cardinality(kept) < MaxCache
    BY <1>2, <1>3, <1>4, <2>2
  <2>6. kept \subseteq Cached
    BY <1>1, <2>1
  <2>7. ASSUME NEW m \in V
        PROVE  Forgets(kept, m)
    <3>1. message_cache[m] \in Nat /\ \A k \in kept : message_cache[k] \in Nat
      BY <1>1, <2>2, <2>6 DEF CacheShape
    <3>2. {k \in kept : message_cache[k] >= message_cache[m]}
            = {k \in kept : message_cache[m] <= message_cache[k]}
      BY <3>1
    <3>3. {k \in kept : message_cache[k] >= message_cache[m]} = kept
      BY <2>2, <3>2
    <3> QED
      BY <2>4, <3>3 DEF Forgets
  <2>8. Cached \ kept = (Cached \ young) \cup V
    BY <1>1, <2>1, <2>2
  <2>9. \A m \in Cached \ kept : Forgets(kept, m)
    BY <1>6, <2>7, <2>8
  <2> QED
    BY <2>5, <2>6, <2>9 DEF MakesRoom
<1> QED
  BY <1>7, <1>8

\* What broadcast leaves of a full cache: all but one oldest entry.
LEMMA BroadcastMakesRoom ==
    ASSUME CacheShape, Full(Cached), NEW V \in OldestOf(Cached, 1)
    PROVE  MakesRoom(Cached \ V)
<1> DEFINE kept == Cached \ V
<1>1. IsFiniteSet(Cached) /\ Cardinality(Cached) \in Nat /\ Cardinality(Cached) >= MaxCache
  BY FS_CardinalityType DEF CacheShape, Full
<1>2. /\ V \subseteq Cached /\ Cardinality(kept) = Cardinality(Cached) - 1
      /\ \A v \in V : {k \in kept : message_cache[v] <= message_cache[k]} = kept
  BY <1>1, OldestTaken
<1>3. Batch \in Nat \ {0} /\ MaxCache \in Nat
  BY Quotient, SizeAssumption
<1>4. Cardinality(kept) >= MaxCache - Batch
  <2> HIDE DEF kept
  <2> QED
    BY <1>1, <1>2, <1>3
<1>5. Cardinality(Cached) <= MaxCache => Cardinality(kept) < MaxCache
  <2> HIDE DEF kept
  <2> QED
    BY <1>1, <1>2, <1>3
<1>6. ASSUME NEW m \in V
      PROVE  Forgets(kept, m)
  <2>1. message_cache[m] \in Nat /\ \A k \in kept : message_cache[k] \in Nat
    BY <1>2 DEF CacheShape
  <2>2. {k \in kept : message_cache[k] >= message_cache[m]}
          = {k \in kept : message_cache[m] <= message_cache[k]}
    BY <2>1
  <2>3. {k \in kept : message_cache[k] >= message_cache[m]} = kept
    BY <1>2, <2>2
  <2> QED
    BY <1>4, <2>3 DEF Forgets
<1>7. Cached \ kept = V
  BY <1>2
<1> QED
  BY <1>5, <1>6, <1>7 DEF MakesRoom

\* A message inserted where room was made keeps the shape and the bound of the
\* cache, and what left before was expired or made room.
LEMMA InsertKeeps ==
    ASSUME CacheInv, NEW kept, MakesRoom(kept), NEW m \in Id \ Cached, Insert(kept, m),
           UNCHANGED now
    PROVE  CacheInv' /\ ForgetsOldest
<1>1. /\ Cached' = kept \cup {m}
      /\ \A k \in kept : message_cache'[k] = message_cache[k]
      /\ message_cache' = [k \in Cached' |-> IF k = m THEN now ELSE message_cache[k]]
  BY DEF Insert, Cached, MakesRoom
<1>2. kept \subseteq Cached /\ IsFiniteSet(Cached) /\ Cached \subseteq Id
  BY DEF MakesRoom, CacheInv, CacheShape
<1>3. IsFiniteSet(kept)
  BY <1>2, FS_Subset
<1>4. CacheShape'
  <2>1. Cached' \subseteq Id /\ IsFiniteSet(Cached')
    BY <1>1, <1>2, <1>3, FS_AddElement
  <2>2. message_cache' \in [Cached' -> Nat]
    BY <1>1, <1>2 DEF CacheInv, CacheShape
  <2> QED
    BY <2>1, <2>2 DEF CacheInv, CacheShape
<1>5. CacheBounded'
  <2> SUFFICES ASSUME MaxCache >= Fraction
               PROVE  Cardinality(Cached') <= MaxCache
    BY DEF CacheBounded
  <2>1. Cardinality(kept) < MaxCache
    BY DEF CacheInv, CacheBounded, MakesRoom
  <2>2. Cardinality(kept) \in Nat /\ MaxCache \in Nat
    BY <1>3, FS_CardinalityType, SizeAssumption
  <2>3. Cardinality(kept \cup {m})
          = IF m \in kept THEN Cardinality(kept) ELSE Cardinality(kept) + 1
    BY <1>3, FS_AddElement
  <2> QED
    BY <1>1, <2>1, <2>2, <2>3
<1>6. ForgetsOldest
  <2> SUFFICES ASSUME NEW k \in Cached \ Cached'
               PROVE  \/ ~Young(k)
                      \/ Cardinality({j \in Cached \cap Cached' :
                                         message_cache[j] >= message_cache[k]})
                            >= MaxCache - Batch
    BY DEF ForgetsOldest
  <2>1. Cached \cap Cached' = kept
    BY <1>1, <1>2
  <2>2. Forgets(kept, k)
    BY <1>1 DEF MakesRoom
  <2> QED
    BY <2>1, <2>2 DEF Forgets
<1> QED
  BY <1>4, <1>5, <1>6 DEF CacheInv

\* A step that leaves the cache alone keeps its invariant and forgets nothing.
LEMMA CacheUntouched ==
    ASSUME CacheInv, UNCHANGED message_cache, now' \in Nat
    PROVE  CacheInv' /\ ForgetsOldest
BY DEF CacheInv, CacheShape, CacheBounded, ForgetsOldest, Cached

\* Every step keeps the invariant of the cache and forgets no young message but
\* to make room.
LEMMA CacheStep ==
    ASSUME CacheInv, [Next]_vars
    PROVE  CacheInv' /\ ForgetsOldest
<1>0. now \in Nat
  BY DEF CacheInv, CacheShape
<1>1. CASE \E t \in Topic : Subscribe(t) \/ Unsubscribe(t) \/ PrepareMessage(t)
  BY <1>0, <1>1, CacheUntouched DEF Subscribe, Unsubscribe, PrepareMessage
<1>2. ASSUME NEW m \in Id, NEW t \in Topic, HandleNew(m, t)
      PROVE  CacheInv' /\ ForgetsOldest
  <2>1. m \notin Cached /\ UNCHANGED now
    BY <1>2 DEF HandleNew
  <2>2. PICK kept \in IF Full(Cached) THEN Evict ELSE {Cached} : Insert(kept, m)
    BY <1>2 DEF HandleNew
  <2>3. CASE Full(Cached)
    BY <2>1, <2>2, <2>3, EvictMakesRoom, InsertKeeps DEF CacheInv
  <2>4. CASE ~Full(Cached)
    <3>1. kept = Cached
      BY <2>2, <2>4
    <3>2. Cardinality(Cached) < MaxCache
      BY <2>4, FS_CardinalityType, SizeAssumption DEF Full, CacheInv, CacheShape
    <3>3. MakesRoom(kept)
      BY <3>1, <3>2 DEF MakesRoom
    <3> QED
      BY <2>1, <2>2, <3>3, InsertKeeps
  <2> QED
    BY <2>3, <2>4
<1>3. ASSUME NEW m \in Id, NEW t \in Topic, Broadcast(m, t)
      PROVE  CacheInv' /\ ForgetsOldest
  <2>1. m \notin Cached /\ UNCHANGED now
    BY <1>3 DEF Broadcast
  <2>2. PICK kept \in IF Full(Cached) /\ Cached # {}
                      THEN {Cached \ V : V \in OldestOf(Cached, 1)} ELSE {Cached} :
               Insert(kept, m)
    BY <1>3 DEF Broadcast
  <2>3. CASE Full(Cached) /\ Cached # {}
    BY <2>1, <2>2, <2>3, BroadcastMakesRoom, InsertKeeps DEF CacheInv
  <2>4. CASE ~(Full(Cached) /\ Cached # {})
    <3>1. kept = Cached
      BY <2>2, <2>4
    <3>2. MaxCache >= Fraction => Cardinality(Cached) < MaxCache
      <4>1. Cardinality(Cached) \in Nat /\ MaxCache \in Nat /\ Fraction \in Nat \ {0}
        BY FS_CardinalityType, SizeAssumption DEF CacheInv, CacheShape
      <4>2. Cached = {} => Cardinality(Cached) = 0
        BY FS_EmptySet
      <4> QED
        BY <2>4, <4>1, <4>2 DEF Full
    <3>3. MakesRoom(kept)
      BY <3>1, <3>2 DEF MakesRoom
    <3> QED
      BY <2>1, <2>2, <3>3, InsertKeeps
  <2> QED
    BY <2>3, <2>4
<1>4. CASE \E m \in Id : HandleDuplicate(m)
  BY <1>0, <1>4, CacheUntouched DEF HandleDuplicate
<1>5. CASE ClearCache
  <2>1. message_cache' = [m \in {} |-> 0] /\ now' = now
    BY <1>5 DEF ClearCache
  <2>2. Cached' = {}
    BY <2>1 DEF Cached
  <2>3. message_cache' \in [Cached' -> Nat]
    BY <2>1, <2>2
  <2>4. CacheShape'
    BY <1>0, <2>1, <2>2, <2>3, FS_EmptySet DEF CacheShape
  <2>5. CacheBounded'
    BY <2>2, FS_EmptySet, SizeAssumption DEF CacheBounded
  <2> QED
    BY <2>2, <2>4, <2>5 DEF CacheInv, ForgetsOldest
<1>6. CASE Tick
  BY <1>0, <1>6, CacheUntouched DEF Tick
<1>7. CASE UNCHANGED vars
  BY <1>0, <1>7, CacheUntouched DEF vars
<1> QED
  BY <1>1, <1>2, <1>3, <1>4, <1>5, <1>6, <1>7 DEF Next

\* A cache that is empty is within its bounds.
LEMMA CacheInit == Init => CacheInv
<1> SUFFICES ASSUME Init
             PROVE  CacheInv
  OBVIOUS
<1>1. Cached = {} /\ message_cache \in [Cached -> Nat] /\ now \in Nat
  BY DEF Init, Cached
<1> QED
  BY <1>1, FS_EmptySet, SizeAssumption DEF CacheInv, CacheShape, CacheBounded

\* The cache never holds more than max_cache_size messages, whoever fills it,
\* for every size that is not smaller than the divisor of an eviction.
THEOREM CacheKeepsItsSize == Spec => []CacheBounded
<1>1. CacheInv /\ [Next]_vars => CacheInv'
  BY CacheStep
<1>2. CacheInv => CacheBounded
  BY DEF CacheInv
<1> QED
  BY <1>1, <1>2, CacheInit, PTL DEF Spec

\* A message is forgotten within its TTL only when younger ones fill the cache,
\* up to what one operation takes; with a cache smaller than the divisor too.
THEOREM YoungAreRemembered == Spec => RememberedWhileYoung
<1>1. CacheInv /\ [Next]_vars => CacheInv'
  BY CacheStep
<1>2. CacheInv /\ [Next]_vars =>
         [\A m \in Cached \ Cached' :
             \/ Cached' = {}
             \/ ~Young(m)
             \/ Cardinality({k \in Cached \cap Cached' :
                                message_cache[k] >= message_cache[m]})
                   >= MaxCache - Batch]_vars
  BY CacheStep DEF ForgetsOldest
<1> QED
  BY <1>1, <1>2, CacheInit, PTL DEF Spec, RememberedWhileYoung

-----------------------------------------------------------------------------
(***************************************************************************)
(* The statistics.  Counters that add up are compared as sets that hold    *)
(* one element for each unit of each counter.                              *)
(***************************************************************************)
LEMMA MessagesElements ==
    ASSUME NEW c
    PROVE  /\ \A t, i : <<t, i>> \in MessagesOf(c) <=> t \in DOMAIN c /\ i \in 1 .. c[t]
           /\ \A r \in MessagesOf(c) : \E t \in DOMAIN c : \E i \in 1 .. c[t] : r = <<t, i>>
BY DEF MessagesOf

\* The counters of finitely many topics tell of finitely many messages, and no
\* counter of more than all.
LEMMA MessagesFinite ==
    ASSUME NEW S, IsFiniteSet(S), NEW c \in [S -> Nat]
    PROVE  /\ IsFiniteSet(MessagesOf(c)) /\ Cardinality(MessagesOf(c)) \in Nat
           /\ \A t \in S : c[t] <= Cardinality(MessagesOf(c))
<1> DEFINE Of(t) == {t} \X (1 .. c[t])
<1>1. ASSUME NEW t \in S
      PROVE  IsFiniteSet(Of(t)) /\ Cardinality(Of(t)) = c[t]
  <2>1. IsFiniteSet({t}) /\ Cardinality({t}) = 1
    BY FS_Singleton
  <2>2. IsFiniteSet(1 .. c[t]) /\ Cardinality(1 .. c[t]) = c[t]
    BY FS_Interval
  <2>3. c[t] \in Nat /\ 1 * c[t] = c[t]
    OBVIOUS
  <2>4. /\ IsFiniteSet({t} \X (1 .. c[t]))
        /\ Cardinality({t} \X (1 .. c[t])) = Cardinality({t}) * Cardinality(1 .. c[t])
    BY <2>1, <2>2, FS_Product
  <2> QED
    BY <2>1, <2>2, <2>3, <2>4
<1>2. MessagesOf(c) = UNION {Of(t) : t \in S}
  BY DEF MessagesOf
<1> HIDE DEF Of
<1>3. IsFiniteSet({Of(t) : t \in S})
  <2> DEFINE T == {Of(t) : t \in S}
             f == [t \in S |-> Of(t)]
  <2>1. f \in Surjection(S, T)
    BY DEF Surjection
  <2> HIDE DEF T, f
  <2> QED
    BY <2>1, FS_Surjection DEF T
<1>4. IsFiniteSet(UNION {Of(t) : t \in S})
  BY <1>1, <1>3, FS_UNION
<1>5. IsFiniteSet(MessagesOf(c)) /\ Cardinality(MessagesOf(c)) \in Nat
  BY <1>2, <1>4, FS_CardinalityType
<1>6. ASSUME NEW t \in S
      PROVE  c[t] <= Cardinality(MessagesOf(c))
  <2>1. Of(t) \in SUBSET MessagesOf(c)
    BY <1>2
  <2> QED
    BY <1>1, <1>5, <2>1, FS_Subset
<1> QED
  BY <1>5, <1>6

\* One unit more of one counter is one message more.
LEMMA MessagesAdd ==
    ASSUME NEW S, IsFiniteSet(S), NEW c \in [S -> Nat], NEW d \in [S -> Nat], NEW t \in S,
           d[t] = c[t] + 1, \A s \in S \ {t} : d[s] = c[s]
    PROVE  Cardinality(MessagesOf(d)) = Cardinality(MessagesOf(c)) + 1
<1>1. ASSUME NEW s, NEW i
      PROVE  <<s, i>> \in MessagesOf(d)
                <=> <<s, i>> \in MessagesOf(c) \/ <<s, i>> = <<t, c[t] + 1>>
  <2>1. CASE s = t
    <3>1. i \in 1 .. (c[t] + 1) <=> i \in 1 .. c[t] \/ i = c[t] + 1
      OBVIOUS
    <3> QED
      BY <2>1, <3>1, MessagesElements
  <2>2. CASE s # t
    BY <2>2, MessagesElements
  <2> QED
    BY <2>1, <2>2
<1>2. MessagesOf(d) = MessagesOf(c) \cup {<<t, c[t] + 1>>}
  <2>1. \A r \in MessagesOf(d) : \E s, i : r = <<s, i>>
    BY MessagesElements
  <2>2. \A r \in MessagesOf(c) : \E s, i : r = <<s, i>>
    BY MessagesElements
  <2> QED
    BY <1>1, <2>1, <2>2
<1>3. <<t, c[t] + 1>> \notin MessagesOf(c)
  BY MessagesElements
<1> QED
  BY <1>2, <1>3, MessagesFinite, FS_AddElement

\* Topics that are there no more, and topics with a counter at zero, tell of
\* no message.
LEMMA MessagesFewer ==
    ASSUME NEW S, IsFiniteSet(S), NEW c \in [S -> Nat], NEW T, NEW d \in [T -> Nat],
           \A t \in T : d[t] = 0 \/ (t \in S /\ d[t] = c[t])
    PROVE  Cardinality(MessagesOf(d)) <= Cardinality(MessagesOf(c))
<1>1. \A t \in T : d[t] = 0 => ~ \E i \in 1 .. d[t] : TRUE
  OBVIOUS
<1>2. MessagesOf(d) \in SUBSET MessagesOf(c)
  <2>1. ASSUME NEW r \in MessagesOf(d) PROVE r \in MessagesOf(c)
    <3>1. PICK t \in T : \E i \in 1 .. d[t] : r = <<t, i>>
      BY MessagesElements
    <3>2. PICK i \in 1 .. d[t] : r = <<t, i>>
      BY <3>1
    <3>3. t \in S /\ d[t] = c[t]
      BY <1>1, <3>2
    <3> QED
      BY <3>2, <3>3, MessagesElements
  <2> QED
    BY <2>1
<1> QED
  BY <1>2, MessagesFinite, FS_Subset

-----------------------------------------------------------------------------
ReceivedOf == [t \in Subscribed |-> topics[t].messages_received]
SentOf == [t \in Subscribed |-> topics[t].messages_sent]

TopicsTyped == Subscribed \in SUBSET Topic /\ topics \in [Subscribed -> TopicInfo]

Totals ==
    /\ TopicsTyped
    /\ total_sent \in Counter /\ total_received \in Counter
    /\ total_deduplicated \in Counter
    /\ Cardinality(MessagesOf(ReceivedOf)) <= total_received
    /\ Cardinality(MessagesOf(SentOf)) <= total_sent

CacheTotals ==
    /\ message_cache \in [Cached -> 0 .. now] /\ now \in 0 .. MaxTime
    /\ Cardinality(Cached) <= total_received + total_sent

LEMMA TopicsAre ==
    ASSUME TopicsTyped
    PROVE  /\ IsFiniteSet(Subscribed)
           /\ ReceivedOf \in [Subscribed -> Nat] /\ SentOf \in [Subscribed -> Nat]
           /\ \A t \in Subscribed : topics[t] \in TopicInfo
<1>1. Counter \subseteq Nat
  BY BoundAssumption DEF Counter
<1>2. IsFiniteSet(Subscribed)
  BY TopicAssumption, FS_Subset DEF TopicsTyped
<1> QED
  BY <1>1, <1>2 DEF TopicsTyped, TopicInfo, ReceivedOf, SentOf

\* The topics as a step leaves them.
LEMMA TopicsNext ==
    ASSUME NEW S \in SUBSET Topic, topics' \in [S -> TopicInfo]
    PROVE  /\ Subscribed' = S /\ TopicsTyped'
           /\ ReceivedOf' \in [S -> Nat] /\ SentOf' \in [S -> Nat]
           /\ ReceivedOf' = [t \in S |-> topics'[t].messages_received]
           /\ SentOf' = [t \in S |-> topics'[t].messages_sent]
<1>1. Counter \subseteq Nat
  BY BoundAssumption DEF Counter
<1>2. Subscribed' = S
  BY DEF Subscribed
<1> QED
  BY <1>1, <1>2 DEF TopicsTyped, TopicInfo, ReceivedOf, SentOf

\* Subscribing and unsubscribing count no message.
LEMMA SubscribeTotals ==
    ASSUME Totals, NEW S \in SUBSET Topic, topics' \in [S -> TopicInfo],
           \A t \in S : \/ topics'[t] = [messages_sent |-> 0, messages_received |-> 0]
                        \/ t \in Subscribed /\ topics'[t] = topics[t],
           UNCHANGED stats
    PROVE  Totals'
<1>1. /\ IsFiniteSet(Subscribed) /\ ReceivedOf \in [Subscribed -> Nat]
      /\ SentOf \in [Subscribed -> Nat]
  BY TopicsAre DEF Totals
<1>2. /\ TopicsTyped' /\ ReceivedOf' \in [S -> Nat] /\ SentOf' \in [S -> Nat]
      /\ ReceivedOf' = [t \in S |-> topics'[t].messages_received]
      /\ SentOf' = [t \in S |-> topics'[t].messages_sent]
  BY TopicsNext
<1>3. \A t \in S : /\ ReceivedOf'[t] = 0 \/ (t \in Subscribed /\ ReceivedOf'[t] = ReceivedOf[t])
                   /\ SentOf'[t] = 0 \/ (t \in Subscribed /\ SentOf'[t] = SentOf[t])
  BY <1>2 DEF ReceivedOf, SentOf
<1>4. PICK R, Q : R = ReceivedOf' /\ Q = SentOf'
  OBVIOUS
<1>5. /\ Cardinality(MessagesOf(R)) <= Cardinality(MessagesOf(ReceivedOf))
      /\ Cardinality(MessagesOf(Q)) <= Cardinality(MessagesOf(SentOf))
  BY <1>1, <1>2, <1>3, <1>4, MessagesFewer
<1>6. /\ Cardinality(MessagesOf(R)) \in Nat /\ Cardinality(MessagesOf(ReceivedOf)) \in Nat
      /\ Cardinality(MessagesOf(Q)) \in Nat /\ Cardinality(MessagesOf(SentOf)) \in Nat
  <2>1. IsFiniteSet(S)
    BY TopicAssumption, FS_Subset
  <2> QED
    BY <1>1, <1>2, <1>4, <2>1, MessagesFinite
<1>7. total_received \in Nat /\ total_sent \in Nat
  BY BoundAssumption DEF Totals, Counter
<1>8. Cardinality(MessagesOf(R)) <= total_received /\ Cardinality(MessagesOf(Q)) <= total_sent
  BY <1>5, <1>6, <1>7 DEF Totals
<1>9. UNCHANGED <<total_sent, total_received, total_deduplicated>>
  BY DEF stats
<1> QED
  BY <1>2, <1>4, <1>8, <1>9 DEF Totals

\* A message that is sent on a topic.
LEMMA PrepareTotals ==
    ASSUME Totals, NEW t \in Topic, PrepareMessage(t)
    PROVE  Totals'
<1>1. /\ IsFiniteSet(Subscribed) /\ ReceivedOf \in [Subscribed -> Nat]
      /\ SentOf \in [Subscribed -> Nat] /\ Subscribed \in SUBSET Topic
      /\ topics \in [Subscribed -> TopicInfo] /\ t \in Subscribed /\ topics[t] \in TopicInfo
  BY TopicsAre DEF Totals, PrepareMessage, TopicsTyped
<1>2. total_sent \in Nat /\ total_sent < MaxMessages /\ total_sent' = total_sent + 1
      /\ UNCHANGED <<total_received, total_deduplicated>>
  BY BoundAssumption DEF Totals, Counter, PrepareMessage
<1>3. SentOf[t] = topics[t].messages_sent /\ SentOf[t] <= Cardinality(MessagesOf(SentOf))
      /\ Cardinality(MessagesOf(SentOf)) \in Nat /\ SentOf[t] \in Nat
  BY <1>1, MessagesFinite DEF SentOf
<1>4. topics[t].messages_sent + 1 \in Counter
  BY <1>2, <1>3, BoundAssumption DEF Totals, Counter
<1>5. PICK info : info = [topics[t] EXCEPT !.messages_sent = @ + 1]
  OBVIOUS
<1>6. /\ info \in TopicInfo /\ info.messages_sent = topics[t].messages_sent + 1
      /\ info.messages_received = topics[t].messages_received
  BY <1>1, <1>4, <1>5 DEF TopicInfo
<1>7. topics' = [topics EXCEPT ![t] = info]
  BY <1>5 DEF PrepareMessage
<1>8. topics' \in [Subscribed -> TopicInfo]
  BY <1>1, <1>6, <1>7
<1>9. /\ TopicsTyped' /\ ReceivedOf' \in [Subscribed -> Nat] /\ SentOf' \in [Subscribed -> Nat]
      /\ ReceivedOf' = [s \in Subscribed |-> topics'[s].messages_received]
      /\ SentOf' = [s \in Subscribed |-> topics'[s].messages_sent]
  BY <1>1, <1>8, TopicsNext
<1>10. ReceivedOf' = ReceivedOf
  BY <1>1, <1>6, <1>7, <1>9 DEF ReceivedOf
<1>11. SentOf'[t] = SentOf[t] + 1 /\ \A s \in Subscribed \ {t} : SentOf'[s] = SentOf[s]
  BY <1>1, <1>6, <1>7, <1>9 DEF SentOf
<1>12. PICK Q : Q = SentOf'
  OBVIOUS
<1>13. Cardinality(MessagesOf(Q)) = Cardinality(MessagesOf(SentOf)) + 1
  BY <1>1, <1>9, <1>11, <1>12, MessagesAdd
<1>14. Cardinality(MessagesOf(Q)) <= total_sent' /\ total_sent' \in Counter
  BY <1>2, <1>3, <1>13, BoundAssumption DEF Totals, Counter
<1> QED
  BY <1>2, <1>9, <1>10, <1>12, <1>14 DEF Totals

\* A message that arrives, on a topic of ours or on another.
LEMMA ReceiveTotals ==
    ASSUME Totals, NEW m, NEW t \in Topic, HandleNew(m, t)
    PROVE  Totals'
<1>1. /\ IsFiniteSet(Subscribed) /\ ReceivedOf \in [Subscribed -> Nat]
      /\ SentOf \in [Subscribed -> Nat] /\ Subscribed \in SUBSET Topic
      /\ topics \in [Subscribed -> TopicInfo]
      /\ \A s \in Subscribed : topics[s] \in TopicInfo
  BY TopicsAre DEF Totals, TopicsTyped
<1>2. total_received \in Nat /\ total_received < MaxMessages
      /\ total_received' = total_received + 1
      /\ UNCHANGED <<total_sent, total_deduplicated>>
  BY BoundAssumption DEF Totals, Counter, HandleNew
<1>3. /\ \A s \in Subscribed : /\ ReceivedOf[s] = topics[s].messages_received
                               /\ ReceivedOf[s] <= Cardinality(MessagesOf(ReceivedOf))
                               /\ ReceivedOf[s] \in Nat
      /\ Cardinality(MessagesOf(ReceivedOf)) \in Nat
  BY <1>1, MessagesFinite DEF ReceivedOf
<1>4. \A s \in Subscribed : topics[s].messages_received + 1 \in Counter
  BY <1>2, <1>3, BoundAssumption DEF Totals, Counter
<1>5. \A s \in Subscribed :
         /\ [topics[s] EXCEPT !.messages_received = @ + 1] \in TopicInfo
         /\ [topics[s] EXCEPT !.messages_received = @ + 1].messages_sent
               = topics[s].messages_sent
         /\ [topics[s] EXCEPT !.messages_received = @ + 1].messages_received
               = topics[s].messages_received + 1
  BY <1>1, <1>4 DEF TopicInfo
<1>6. topics' = [s \in Subscribed |->
                     IF s = t THEN [topics[s] EXCEPT !.messages_received = @ + 1]
                     ELSE topics[s]]
  BY DEF HandleNew
<1>7. topics' \in [Subscribed -> TopicInfo]
  BY <1>1, <1>5, <1>6
<1>8. /\ TopicsTyped' /\ ReceivedOf' \in [Subscribed -> Nat] /\ SentOf' \in [Subscribed -> Nat]
      /\ ReceivedOf' = [s \in Subscribed |-> topics'[s].messages_received]
      /\ SentOf' = [s \in Subscribed |-> topics'[s].messages_sent]
  BY <1>1, <1>7, TopicsNext
<1>9. SentOf' = SentOf
  BY <1>5, <1>6, <1>8 DEF SentOf
<1>10. \A s \in Subscribed : ReceivedOf'[s] = IF s = t THEN ReceivedOf[s] + 1 ELSE ReceivedOf[s]
  BY <1>3, <1>5, <1>6, <1>8
<1>11. PICK R : R = ReceivedOf'
  OBVIOUS
<1>12. \/ Cardinality(MessagesOf(R)) = Cardinality(MessagesOf(ReceivedOf)) + 1
       \/ Cardinality(MessagesOf(R)) = Cardinality(MessagesOf(ReceivedOf))
  <2>1. CASE t \in Subscribed
    BY <1>1, <1>8, <1>10, <1>11, <2>1, MessagesAdd
  <2>2. CASE t \notin Subscribed
    <3>1. R = ReceivedOf
      BY <1>1, <1>8, <1>10, <1>11, <2>2
    <3> QED
      BY <3>1
  <2> QED
    BY <2>1, <2>2
<1>13. Cardinality(MessagesOf(R)) <= total_received' /\ total_received' \in Counter
  BY <1>2, <1>3, <1>12, BoundAssumption DEF Totals, Counter
<1> QED
  BY <1>2, <1>8, <1>9, <1>11, <1>13 DEF Totals

LEMMA OtherTotals ==
    ASSUME Totals, UNCHANGED topics, total_sent' \in Counter, total_sent <= total_sent',
           total_received' = total_received, total_deduplicated' \in Counter
    PROVE  Totals'
<1>1. Subscribed' = Subscribed /\ ReceivedOf' = ReceivedOf /\ SentOf' = SentOf
  BY DEF Subscribed, ReceivedOf, SentOf
<1>2. TopicsTyped'
  BY <1>1 DEF Totals, TopicsTyped
<1>3. Cardinality(MessagesOf(SentOf)) \in Nat
  BY TopicsAre, MessagesFinite DEF Totals
<1>4. Cardinality(MessagesOf(SentOf)) <= total_sent'
  BY <1>3, BoundAssumption DEF Totals, Counter
<1> QED
  BY <1>1, <1>2, <1>4 DEF Totals

\* The cache grows by one message that is counted with it.
LEMMA InsertTotals ==
    ASSUME CacheInv, Totals, CacheTotals, NEW kept, MakesRoom(kept), NEW m, Insert(kept, m),
           UNCHANGED now,
           total_received' \in Nat, total_sent' \in Nat,
           total_received' + total_sent' = total_received + total_sent + 1
    PROVE  CacheTotals'
<1>1. /\ Cached' = kept \cup {m}
      /\ message_cache' = [k \in Cached' |-> IF k = m THEN now ELSE message_cache[k]]
  BY DEF Insert, Cached
<1>2. kept \subseteq Cached /\ IsFiniteSet(Cached) /\ Cardinality(Cached) \in Nat
  BY FS_CardinalityType DEF MakesRoom, CacheInv, CacheShape
<1>3. /\ IsFiniteSet(kept) /\ Cardinality(kept) \in Nat
      /\ Cardinality(kept) <= Cardinality(Cached)
  BY <1>2, FS_Subset, FS_CardinalityType
<1>4. Cardinality(kept \cup {m})
         = IF m \in kept THEN Cardinality(kept) ELSE Cardinality(kept) + 1
  BY <1>3, FS_AddElement
<1>5. total_received \in Nat /\ total_sent \in Nat
  BY BoundAssumption DEF Totals, Counter
<1>6. Cardinality(Cached') <= total_received' + total_sent'
  <2>1. /\ Cardinality(kept \cup {m}) \in Nat
        /\ Cardinality(kept \cup {m}) <= Cardinality(Cached) + 1
    BY <1>2, <1>3, <1>4
  <2>2. Cardinality(Cached) <= total_received + total_sent
    BY DEF CacheTotals
  <2>3. PICK p \in Nat, q \in Nat : p = total_received' /\ q = total_sent'
    OBVIOUS
  <2>4. p + q = total_received + total_sent + 1
    BY <2>3
  <2>5. Cardinality(kept \cup {m}) <= p + q
    BY <1>2, <1>5, <2>1, <2>2, <2>4
  <2> QED
    BY <1>1, <2>3, <2>5
<1>7. message_cache' \in [Cached' -> 0 .. now]
  BY <1>1, <1>2, BoundAssumption DEF CacheTotals
<1> QED
  BY <1>6, <1>7 DEF CacheTotals

\* What a message that arrives, or that is broadcast, leaves of the cache.
LEMMA ArrivalMakesRoom ==
    ASSUME CacheInv, NEW kept \in IF Full(Cached) THEN Evict ELSE {Cached}
    PROVE  MakesRoom(kept)
<1>1. CASE Full(Cached)
  BY <1>1, EvictMakesRoom DEF CacheInv
<1>2. CASE ~Full(Cached)
  <2>1. Cardinality(Cached) < MaxCache
    BY <1>2, FS_CardinalityType, SizeAssumption DEF Full, CacheInv, CacheShape
  <2> QED
    BY <1>2, <2>1 DEF MakesRoom
<1> QED
  BY <1>1, <1>2

LEMMA DepartureMakesRoom ==
    ASSUME CacheInv,
           NEW kept \in IF Full(Cached) /\ Cached # {}
                        THEN {Cached \ V : V \in OldestOf(Cached, 1)} ELSE {Cached}
    PROVE  MakesRoom(kept)
<1>1. CASE Full(Cached) /\ Cached # {}
  BY <1>1, BroadcastMakesRoom DEF CacheInv
<1>2. CASE ~(Full(Cached) /\ Cached # {})
  <2>1. Cardinality(Cached) \in Nat /\ MaxCache \in Nat /\ Fraction \in Nat \ {0}
    BY FS_CardinalityType, SizeAssumption DEF CacheInv, CacheShape
  <2>2. Cached = {} => Cardinality(Cached) = 0
    BY FS_EmptySet
  <2>3. MaxCache >= Fraction => Cardinality(Cached) < MaxCache
    BY <1>2, <2>1, <2>2 DEF Full
  <2> QED
    BY <1>2, <2>3 DEF MakesRoom
<1> QED
  BY <1>1, <1>2

LEMMA CacheTotalsKept ==
    ASSUME CacheTotals, UNCHANGED <<message_cache, now>>,
           total_received' + total_sent' >= total_received + total_sent, CacheInv,
           total_received \in Nat, total_sent \in Nat,
           total_received' \in Nat, total_sent' \in Nat
    PROVE  CacheTotals'
<1>1. Cached' = Cached /\ Cardinality(Cached) \in Nat
  BY FS_CardinalityType DEF Cached, CacheInv, CacheShape
<1>0. Cardinality(Cached) \in Nat
  BY <1>1
<1>2. Cardinality(Cached) <= total_received' + total_sent'
  <2>1. Cardinality(Cached) <= total_received + total_sent
    BY DEF CacheTotals
  <2>2. PICK p \in Nat, q \in Nat : p = total_received' /\ q = total_sent'
    OBVIOUS
  <2>3. p + q >= total_received + total_sent
    BY <2>2
  <2>4. Cardinality(Cached) <= p + q
    BY <1>0, <2>1, <2>3
  <2> QED
    BY <2>2, <2>4
<1>3. message_cache' \in [Cached' -> 0 .. now'] /\ now' \in 0 .. MaxTime
  BY <1>1 DEF CacheTotals
<1> QED
  BY <1>1, <1>2, <1>3 DEF CacheTotals

TotalsInv == CacheInv /\ Totals /\ CacheTotals

LEMMA TotalsStep ==
    ASSUME TotalsInv, [Next]_vars
    PROVE  Totals' /\ CacheTotals'
<1>1. /\ total_sent \in Counter /\ total_received \in Counter /\ total_deduplicated \in Counter
      /\ total_received \in Nat /\ total_sent \in Nat /\ Counter \subseteq Nat
      /\ CacheInv /\ Totals /\ CacheTotals
  BY BoundAssumption DEF TotalsInv, Totals, Counter
<1>2. /\ topics \in [Subscribed -> TopicInfo] /\ Subscribed \in SUBSET Topic
      /\ [messages_sent |-> 0, messages_received |-> 0] \in TopicInfo
  BY <1>1, BoundAssumption DEF Totals, TopicsTyped, TopicInfo, Counter
<1>3. ASSUME NEW t \in Topic, Subscribe(t) PROVE Totals' /\ CacheTotals'
  <2>1. PICK S \in SUBSET Topic : S = Subscribed \cup {t}
    BY <1>2
  <2>2. topics' = [s \in S |-> IF s = t THEN [messages_sent |-> 0, messages_received |-> 0]
                               ELSE topics[s]]
    BY <1>3, <2>1 DEF Subscribe
  <2>3. Totals'
    BY <1>1, <1>2, <1>3, <2>1, <2>2, SubscribeTotals DEF Subscribe
  <2>4. CacheTotals'
    BY <1>1, <1>3, CacheTotalsKept DEF Subscribe, stats
  <2> QED
    BY <2>3, <2>4
<1>4. ASSUME NEW t \in Topic, Unsubscribe(t) PROVE Totals' /\ CacheTotals'
  <2>1. PICK S \in SUBSET Topic : S = Subscribed \ {t}
    BY <1>2
  <2>2. topics' = [s \in S |-> topics[s]]
    BY <1>4, <2>1 DEF Unsubscribe
  <2>3. Totals'
    BY <1>1, <1>2, <1>4, <2>1, <2>2, SubscribeTotals DEF Unsubscribe
  <2>4. CacheTotals'
    BY <1>1, <1>4, CacheTotalsKept DEF Unsubscribe, stats
  <2> QED
    BY <2>3, <2>4
<1>5. ASSUME NEW t \in Topic, PrepareMessage(t) PROVE Totals' /\ CacheTotals'
  <2>1. total_sent' = total_sent + 1 /\ UNCHANGED <<total_received, message_cache, now>>
    BY <1>5 DEF PrepareMessage
  <2> QED
    BY <1>1, <1>5, <2>1, PrepareTotals, CacheTotalsKept
<1>6. ASSUME NEW m \in Id, NEW t \in Topic, HandleNew(m, t) PROVE Totals' /\ CacheTotals'
  <2>1. PICK kept \in IF Full(Cached) THEN Evict ELSE {Cached} : Insert(kept, m)
    BY <1>6 DEF HandleNew
  <2>2. total_received' = total_received + 1 /\ UNCHANGED <<total_sent, now>>
    BY <1>6 DEF HandleNew
  <2>3. MakesRoom(kept)
    BY <1>1, ArrivalMakesRoom
  <2>4. CacheTotals'
    BY <1>1, <2>1, <2>2, <2>3, InsertTotals
  <2> QED
    BY <1>1, <1>6, <2>4, ReceiveTotals
<1>7. ASSUME NEW m \in Id, NEW t \in Topic, Broadcast(m, t) PROVE Totals' /\ CacheTotals'
  <2>1. PICK kept \in IF Full(Cached) /\ Cached # {}
                      THEN {Cached \ V : V \in OldestOf(Cached, 1)} ELSE {Cached} :
               Insert(kept, m)
    BY <1>7 DEF Broadcast
  <2>2. /\ total_sent' = total_sent + 1 /\ total_sent < MaxMessages
        /\ UNCHANGED <<topics, total_received, total_deduplicated, now>>
    BY <1>7 DEF Broadcast
  <2>3. MakesRoom(kept)
    BY <1>1, <2>1, DepartureMakesRoom
  <2>4. CacheTotals'
    BY <1>1, <2>1, <2>2, <2>3, InsertTotals
  <2>5. total_sent' \in Counter /\ total_sent <= total_sent'
    BY <1>1, <2>2, BoundAssumption DEF Counter
  <2> QED
    BY <1>1, <2>2, <2>4, <2>5, OtherTotals
<1>8. ASSUME NEW m \in Id, HandleDuplicate(m) PROVE Totals' /\ CacheTotals'
  <2>1. total_deduplicated' \in Counter
    BY <1>1, <1>8, BoundAssumption DEF HandleDuplicate, Counter
  <2>2. UNCHANGED <<topics, message_cache, total_sent, total_received, now>>
    BY <1>8 DEF HandleDuplicate
  <2> QED
    BY <1>1, <2>1, <2>2, OtherTotals, CacheTotalsKept
<1>9. CASE ClearCache
  <2>1. message_cache' = [m \in {} |-> 0] /\ UNCHANGED <<topics, stats, now>>
    BY <1>9 DEF ClearCache
  <2>2. Cached' = {}
    BY <2>1 DEF Cached
  <2>3. message_cache' \in [Cached' -> 0 .. now']
    BY <2>1, <2>2
  <2>4. CacheTotals'
    BY <1>1, <2>1, <2>2, <2>3, FS_EmptySet DEF CacheTotals, stats
  <2> QED
    BY <1>1, <2>1, <2>4, OtherTotals DEF stats
<1>10. CASE Tick
  <2>1. /\ now' = now + 1 /\ now < MaxTime
        /\ UNCHANGED <<topics, message_cache, total_sent, total_received, total_deduplicated>>
    BY <1>10 DEF Tick, stats
  <2>2. Cached' = Cached
    BY <2>1 DEF Cached
  <2>3. message_cache' \in [Cached' -> 0 .. now'] /\ now' \in 0 .. MaxTime
    BY <1>1, <2>1, <2>2, BoundAssumption DEF CacheTotals
  <2>4. CacheTotals'
    BY <1>1, <2>1, <2>2, <2>3 DEF CacheTotals
  <2> QED
    BY <1>1, <2>1, <2>4, OtherTotals
<1>11. CASE UNCHANGED vars
  <2>1. UNCHANGED <<topics, message_cache, total_sent, total_received, total_deduplicated, now>>
    BY <1>11 DEF vars, stats
  <2> QED
    BY <1>1, <2>1, OtherTotals, CacheTotalsKept
<1> QED
  BY <1>3, <1>4, <1>5, <1>6, <1>7, <1>8, <1>9, <1>10, <1>11 DEF Next

LEMMA TotalsInit == Init => Totals /\ CacheTotals
<1> SUFFICES ASSUME Init PROVE Totals /\ CacheTotals
  OBVIOUS
<1>1. Subscribed = {} /\ Cached = {} /\ 0 \in Counter /\ 0 \in 0 .. MaxTime
  BY BoundAssumption DEF Init, Subscribed, Cached, Counter
<1>2. TopicsTyped
  BY <1>1 DEF Init, TopicsTyped
<1>3. MessagesOf(ReceivedOf) = {} /\ MessagesOf(SentOf) = {}
  BY <1>1 DEF MessagesOf, ReceivedOf, SentOf
<1>4. Cardinality(MessagesOf(ReceivedOf)) = 0 /\ Cardinality(MessagesOf(SentOf)) = 0
      /\ Cardinality(Cached) = 0
  BY <1>1, <1>3, FS_EmptySet
<1>5. message_cache \in [Cached -> 0 .. now]
  BY <1>1 DEF Init
<1> QED
  BY <1>1, <1>2, <1>4, <1>5 DEF Init, Totals, CacheTotals

\* The counters of topics, the totals and the cache go together: no message is
\* counted or cached that the totals have not, across subscriptions that end and
\* messages that are evicted.
THEOREM TotalsCover == Spec => []TotalsCoverTopics
<1>1. TotalsInv /\ [Next]_vars => TotalsInv'
  BY TotalsStep, CacheStep DEF TotalsInv
<1>2. Init => TotalsInv
  BY TotalsInit, CacheInit DEF TotalsInv
<1>3. TotalsInv => TotalsCoverTopics
  BY DEF TotalsInv, Totals, CacheTotals, TotalsCoverTopics, ReceivedOf, SentOf
<1> QED
  BY <1>1, <1>2, <1>3, PTL DEF Spec

\* Topics, statistics and the cache keep their types; no entry of the cache is
\* from the future.
THEOREM TypeCorrect == Spec => []TypeOK
<1>1. TotalsInv /\ [Next]_vars => TotalsInv'
  BY TotalsStep, CacheStep DEF TotalsInv
<1>2. Init => TotalsInv
  BY TotalsInit, CacheInit DEF TotalsInv
<1>3. TotalsInv => TypeOK
  BY DEF TotalsInv, Totals, TopicsTyped, CacheTotals, CacheInv, CacheShape, TypeOK
<1> QED
  BY <1>1, <1>2, <1>3, PTL DEF Spec
=============================================================================

# silver-network: verification development

TLA+ models of `silver-network`, the networking crate of a blockchain node
(Rust, tokio, libp2p), checked with TLC and, for the core, proved with TLAPS.
Source lines are those of `src/src/*.rs`.

## 1. Inventory

| Component | State | Operations | Interacts with |
|---|---|---|---|
| Validator network manager (`validator_sync.rs`) | peer table `RwLock<HashMap<SocketAddr, PeerInfo>>`, `RwLock<BroadcastStats>`, `connection_semaphore` (100 permits) | `add_peer`, `remove_peer`, `connect_peer`, `disconnect_peer`, `reconnect_failed_peers`, `cleanup_stale_peers`, `accept_connections`, `broadcast_*`, `reset_stats`, readers | spawned tokio tasks share all three; TCP sockets to remote validators |
| Validator wire format (`validator_sync.rs` 28-130, 268-366) | none | length-prefixed frames, envelopes | every socket of the manager |
| State synchronisation (`sync.rs`) | `SyncState`, pending requests, snapshots to verify, downloaded transactions | start, answer, verification result, application result, timeouts | its caller, which verifies, applies and retries what `SyncAction` asks |
| Mining pool (`mining_pool.rs`) | `DashMap` of miners and of work, statistics behind a `RwLock` | distribute work, submit share, count miners, clean up | miners, over the RPC layer |
| Peer security (`security.rs`) | reputations and blocklist (`DashMap`s); windows of the rate limiter | reward, penalise, ban, unban, check, clean up; count a message | every message handler |
| Peer manager (`peer.rs`) | `DashMap` of peers | add, remove, status, reputation, ban | discovery, the swarm |
| Gossip (`gossip.rs`) | seen-message cache, statistics | broadcast, receive, evict | libp2p gossipsub |
| Error handling (`error_handling.rs`, `error_recovery.rs`, `error_logging.rs`, `error.rs`) | backoff and error count of each peer (`RwLock`s), counters (atomics), the last errors (`Mutex`) | classify, back off, reconnect or ban, alert, log, reset, clear | every component that fails |
| Compression and batching (`compression.rs`) | pending batch, its size, statistics | compress, decompress; add, flush, unbatch | whoever sends small messages |
| Discovery (`discovery.rs`) | pending queries, known peers | bootstrap, query results | Kademlia |
| Behaviour, messages, configuration, crate root | none of their own | wiring, range checks | libp2p |

### What is hard, and what makes each part correct

- **Validator network manager.** A dial, an inbound session, a broadcast and the
  operator interleave at every `await`; a task keeps an address across awaits
  while the entry may be removed, reconnected or failed by another; every
  return path owes a permit; counters are kept in two critical sections.
  Correct: no permit leaks or is returned twice; a task never recreates an
  entry; a peer shown as Connected was handshaked and is within the failure
  limit; counters add up; dials and broadcasts end.
- **State synchronisation.** Answers may be late, duplicated, partial, or come
  from another peer; timeouts race them; a request can be refused after the
  state has changed. Correct: what is applied is what was verified; every phase
  waits for something that is outstanding; requests end.
- **Mining pool, peer security, peer manager.** `DashMap` shards are locked one
  at a time, so check-then-act sequences interleave, and holding one guard
  while asking the map for another deadlocks. Correct: limits hold, bans last as
  long as they should, no operation waits for itself.
- **Gossip.** The cache decides what is delivered. Correct: bounded, at most one
  delivery while remembered, nothing lost because of a message that did not parse.
- **Error handling.** An error touches two locks, eight atomics and a ring one after
  the other, while other threads do the same, reset and clear. Correct: counters and
  history agree with the errors that were logged; a peer is granted no more
  reconnections than allowed; delays grow; no thread waits for ever.
- **Batching.** A size kept by hand, two limits and an early return; at the other end,
  buffers that may hold less or more than a batch. Correct: nothing lost, doubled or
  reordered; batches within their limits; full ones do not linger.

The full list, each at its line, is `hazards` in `PROJECT.json`.

## 2. Modules

| Module | Models |
|---|---|
| `ValidatorPeers` | The shared peer table and statistics: `PeerInfo`, its methods, and the calls that are one critical section |
| `ValidatorConnections` | `connect_peer` and `reconnect_failed_peers` (dialers), `accept_connections` and `handle_peer_connection` (sessions), the semaphore |
| `ValidatorBroadcast` | `broadcast_message` and `send_message_with_retry_real` (casters and their sends) |
| `ValidatorNetwork` | The three together: next-state relation, fairness, properties |
| `ConnectionLimit` | What the semaphore promises: an abstract set of holders with a limit |
| `ValidatorNetworkProofs` | Theorems about `ValidatorNetwork` |
| `StateSync` | `StateSync` with its caller's verdicts and applications outstanding and answers that come late, twice, never or unasked |
| `StateSyncProofs` | Theorems about `StateSync` |
| `MiningPool` | `MiningPoolManager` shared by threads, with the shard locks of its maps |
| `MiningPoolProofs` | Theorems about `MiningPool` |
| `GossipCache` | `GossipProtocol`: subscriptions, the cache of seen messages with its two ways of evicting, the statistics |
| `GossipCacheProofs` | Theorems about `GossipCache` |
| `PeerSecurity` | `PeerReputation`: scores, decay, bans, unbans, expiry and cleanup, by threads |
| `PeerSecurityProofs` | Theorems about `PeerSecurity` |
| `PeerManager` | `PeerManager`: the table of peers, `add_peer` and `remove_timed_out_peers` in their steps |
| `PeerManagerProofs` | Theorems about `PeerManager` |
| `MessageStream` | What batching promises: an abstract stream of messages |
| `Batching` | `MessageBatcher`, a link, and `unbatch` at its other end |
| `BatchingProofs` | Theorems about `Batching` |
| `NetworkErrors` | Kinds of errors, their categories and strategies |
| `ErrorRecovery` | `ErrorRecoveryManager`: backoff and counts of errors |
| `ErrorLogging` | `ErrorLogger`: counters and the history |
| `ErrorHandling` | `ComprehensiveErrorHandler`: threads that use the two together |
| `ErrorHandlingProofs` | Theorems about `ErrorHandling` |
| `MCValidatorNetwork`, `MCStateSync`, `MCMiningPool`, `MCGossipCache`, `MCPeerSecurity`, `MCPeerManager`, `MCBatching`, `MCErrorHandling` | Instances for TLC |

### How the validator network corresponds to the code

A step runs from one `await` to the next: the outcome the task waited for and
the critical section that follows. A section that holds `peers` and takes
`stats` inside is one step, which is sound because nothing takes `peers` while
holding `stats`. Sections that take the locks one after the other
(record a send, then count it; record a received message, then count it) are two
steps, and other tasks run between them.

- A *dialer* is a task in `connect_peer`: `permit` (semaphore), `table` (write
  lock), `connect` (`TcpStream::connect`), `handshake` (the answer), then `ok` or
  `err`. `todo` is what is left of the list of `reconnect_failed_peers`.
- A *session* is a task spawned by `accept_connections`; its address is the
  remote address of the socket, which may or may not have an entry. It holds its
  permit from `handshake` until it has written Disconnected.
- A *send* belongs to a caster and an address; `attempt` and `backoff` are the
  loop variables. Sends open sockets of their own and hold no permit.
- `AddPeer`, `RemovePeer`, `DisconnectPeer`, `CleanupStalePeers`, `ResetStats` are
  operator calls; a call that finds nothing to do changes nothing and is not an
  action. `GrowStale` is five minutes without `update_last_seen`.

Abstracted: `validator_id.is_some()` is `handshaked`, `is_stale()` is `stale`;
byte and message counters of a peer, latencies, version and capabilities are left
out, time is a choice of when timeouts happen. Definitions whose comment starts
with "Variant" are deliberate mistakes in the definition next to them; no
action uses them, the runs must tell them apart.

### How state synchronisation corresponds to the code

`StateSync` has `&mut self` methods and no tasks: each method is one action. What
makes it hard is its caller and its peers, so those are state too. A snapshot
answer hands the caller a verification (`verifying`), enough transactions hand it
an application (`applying`); the caller reports each once, in any order, however
late. Answers are not held against requests: `HandleSnapshot` and
`HandleTransactions` take them in every state, for a request that was given up, retried or
reset, and for none. `handle_timeouts` finds any set
of pending requests late, since time is a choice. Peer identities are only logged
by the code and left out. The range of a transaction request is one that a
caller means, `from <= to`; with a reversed range `to - from + 1` overflows, in a way
that depends on the build.

### How the mining pool corresponds to the code

A step is one lock taken, or one pass over a shard. A call on one key of a `DashMap`
locks that shard and is one step; `len()` and `retain()` go from shard to shard and
are a step for each. The guard `entry()` returns and the statistics lock live to
the end of `submit_share`, so they are state (`shard_guard`, `stats_guard`).
Since a share keeps both for ever, an account never sees a second share, and
`active_miners` stays 0: the branch of `FinishCount` that sets it is the code's, and no
behaviour takes it (`ShareNeverReturns`). The clock is in seconds; ages are unsigned
differences modulo `Width`, as in a build without overflow checks.

### How gossip corresponds to the code

`GossipCache` has one action per method: those that take `&mut self` have the protocol
to themselves, and `broadcast` holds the lock of the cache from its look at the
cache to its return. Calls that are refused change nothing and are no actions. The
cache is a function from the messages in it to `cached_at`. `Evict` is
`evict_old_messages`: expired entries go first, then the oldest tenth (`Fraction`
is 10 in the code); entries of one age leave in any order, as the hash map has them.
`HandleNew` evicts that way, `Broadcast` one entry of whatever age. A message is a
duplicate as long as it is in the cache, also past its TTL: only a full cache looks
at ages. Ids are members of one set whether the caller hashed them (as the message id
function of `behaviour.rs` 56-62 does) or `broadcast` copied them from the data.

### How peer security corresponds to the code

The actions of `PeerSecurity` are the stretches between two guards of a `DashMap`.
`increase_reputation` keeps the guard `entry()` returned and is one step;
`decrease_reputation` gives it back before `ban_peer` (`ban`), which reads the clock,
inserts the ban (`insert`) and zeroes the score (`zero`). `is_banned` of an expired ban
lets its guard go (`lift`) and removes whatever ban it then finds; `unban_peer` removes
first and resets the score afterwards (`neutral`). `cleanup_expired_bans` reads the clock
and then comes to the peers in the order of the shards they hash to, which may be any
order. Ages are `Instant` differences, which saturate at zero. The clock of the model
is in fractions of an hour, and hours are cut to `Byte` (256), as the cast to `u8` does.
`leftLow` is history for `LowIsBanned`: a cleanup took the ban of the peer off and left
the score, or a thread in `ban_peer` zeroed it when the ban was gone. A report below the
threshold, a new ban and a reset of the score end it, so that what follows an earlier ban
is held to the property like the first one.

### How the peer manager corresponds to the code

`add_peer` is a `len()` (one step for each shard), a `contains_key` and an `insert`, with
other threads in between; `remove_timed_out_peers` reads the clock and sweeps shard by
shard. A call on one peer is one step. `Touch` stands for the four calls that refresh
`last_seen` and write only what the model leaves out.

### How batching corresponds to the code

`Batching` has `add_message` and `flush` as they are, with `&mut self`. A message is its
place in the order and its size; a batch is the sequence of its messages. `End` and
`Bytes` are the layout `flush` writes: a count, then a length and the bytes of each message.
`unbatch` walks over that layout in a buffer that may have been cut at any byte or be
followed by the next batch, of which it takes no notice. `taken`, history, counts the
messages of the buffers that were read, received or not, and `whole` tells whether the last
buffer held one batch, and all of it. With them, `InOrder` is `MessageStream` over the same
variables, `pending` and `link` hidden: the order is kept, nothing comes twice, nothing is
lost in the batcher nor by a whole read; a cut buffer may lose its messages and one of two
batches the second, but none of another buffer. The sizes of messages
add up as the number of their bytes (`BytesOf`), a set that `current_size` is compared with.

### How error handling corresponds to the code

A thread in `handle_error` decides (one step, through the lock of the manager that its
strategy needs), then walks through `log_error`: the total, the category, `recovered`,
the history, one atomic or lock each. `send_operator_alert` puts an entry of its own before
that. `reset_error_count` is two steps: it holds the lock of the counts (`countsHeld`)
while it takes the one of the backoff. Strategies that change no state
(throttle, retry, wait, alert without alerts, startup, log) are `DecideAtOnce`. The jitter
is any value the remainder by a tenth of the delay can have. `log`, `cleared`,
`lastDelay` and `reconnects` are history for the properties.

## 3. Runs

| Run | Instance | Shows |
|---|---|---|
| `connections` | 2 addresses, 2 dialers, 1 session, 1 permit, 3 calls | `ConnectedIsSound`, `PermitAccounting`, `PeerCountKept`, `OnlyAddPeerCreates`, `ConnectionsAreLimited` (refinement of `ConnectionLimit`) |
| `returns` | 1 address, 2 dialers, 1 session, 2 permits, resets allowed | liveness: `ConnectReturns`, `SessionServed`; `PeerCountKept` under resets |
| `broadcast` | 2 addresses, 1 dialer, 2 casters, 3 attempts, 3 calls | `TypeOK`, `SentAccounting`, `RetryAccounting`; liveness: `BroadcastReturns` |
| `sync` | 2 sequences, 3 contents (one invalid), 2 transactions, limit of 1 request, 1 retry, 2 answers | `TypeOK`, `PhaseHasWork`, `RequestsBounded`; liveness: `RequestsEnd` |
| `pool` | 3 threads, 2 miners in different shards, 2 packages, 3 shares, 2 seconds | `TypeOK`, `PackagesCounted`, `SharesCounted`, `InsertsAreNew` |
| `gossip` | 5 messages, 4 places, evictions of 2, TTL 2 of 3 ticks, 2 topics, 3 messages counted each way | `TypeOK`, `CacheBounded`, `TotalsCoverTopics`, `RememberedWhileYoung` |
| `security` | 1 peer, 3 threads, scores 0 to 4, amounts 1 and 3, bans of 2 of 5 ticks, bytes of 5 | `TypeOK`, `LowIsBanned`, `BansLast`, `DecayTowardsNeutral` |
| `peers` | 3 peers in 2 shards, 2 threads, limit of 1 peer, 2 ticks | `TypeOK`, `OvershootBounded`, `SweepsOnlySilent` |
| `batches` | 5 messages of sizes 0, 1, 2, 4, batches of 3 bytes or 3 messages, 2 batches on the link | `BatchesFit`, `FullIsAlone`, `Accounting`, `InOrder` (refinement of `MessageStream`) |
| `errors` | 1 peer, 2 threads, 3 errors of 4 strategies, limit of 1 reconnection, history of 2 | `CountersMatchLog`, `HistoryIsNewest`, `ReconnectsBounded`, `BackoffGrows`; liveness: `HandleReturns` |
| `sync_verified`, `pool_share` | the smallest that show it | expected violations, section 5 |

**Bounds.** `MaxCalls` bounds connect, reconnect and broadcast calls together,
`MaxReceived` the messages counted as received; table operations are not
bounded. Three calls let two dials fail and a third reconnect, or one dial connect a
peer to which two broadcasts then send side by side; with three attempts the
sleep before the last reaches the cap. `FailLimit` is 1 instead of 5
so that a second failure crosses it; the comparison is the code's. One permit for
three tasks makes every task wait for every other; two permits for three
tasks show the limit away from one. Two casters and two addresses let every
send race a second one for the same peer. Addresses and tasks of a kind are
interchangeable, so safety runs use symmetry; the liveness runs do not. Passing
runs check for deadlock, but for `pool`: the mining pool really does stop.

In `sync`, two answers, asked for or not, are what it takes to overtake a verification, and two
sequences to have a second download beside it; a limit of one request (10 in the
code) is reached at once, and one retry (3 in the code) separates the first timeout
from the last. `MaxId` and `MaxAnswers` end the run, not the program. In `pool` three
threads suffice for one that holds locks, one that waits for them and one that
sweeps or counts; packages are spread over the shards by their ids. In `gossip` six
messages pass through four places, so that entries are evicted by both writers, while
young, expired and of the same age; an eviction of half the cache (a tenth in the
code) takes two entries at once. `MaxMessages` ends the run, not the program.

In `security` peers do not interact, so one is enough; three threads let a ban, an
is_banned that saw the ban before it and a cleanup with an older clock overlap. Five
ticks see a ban run out, another begin and the hours wrap around a byte of 5. In `peers`
the second shard holds two peers, so that a count passes one shard before and one after an
insertion; a limit of one with two threads reaches the overshoot of one that the
property allows. In `batches` the sizes are nothing, a fitting message, one that fills a
batch with another, and one larger than a batch; five messages fill three batches. In
`errors` three errors overflow the history and pass the limit of reconnections, and the
third delay is at the cap; the strategies are those with state, the one that alerts, and one
that does nothing. With alerts on, a critical error makes two entries.

**Fairness.** Every await of `connect_peer` and of a send is under `timeout` or a
local write, so dialers and sends are weakly fair, and so is a session until its
handshake is over and from the end of its socket on. The tokio semaphore is first
come, first served: a task that is granted a permit again and again is not
passed over, hence strong fairness for the two acquire actions. Nothing makes
a remote speak or hang up: `Receive` and `Close` have no fairness. A remote that
sends a message every 30 seconds keeps its permit for ever; that is why
`ConnectReturns` needs more permits than such sessions (in the `returns` run 2
against 1), and holds under no weaker condition. The caller of `StateSync` polls
`handle_timeouts`: a request that stays pending is found late again and again (weak
fairness for each request). No peer has to answer and no caller to report.
`RequestsEnd` allows a snapshot request to live on if its download is started over
and over, since the code forgets the retries then. In `errors` the threads run (weak fairness), and a
thread that waits for the lock of the counts is handed it in the end (strong fairness:
`parking_lot` locks are eventually fair). The threads of the mining pool
run and get locks that are free again and again (strong fairness); the violation of
`ShareReturns` has a single thread, which no scheduler can help.

## 4. Proofs

`ValidatorNetworkProofs` holds for every finite set of addresses and tasks, every
limit and every bound, from the assumptions named in the modules (finite sets,
numeric limits, at least one permit, dialers and sessions distinct, `None` not an
entry).

- `NetworkInvariant`, `TypeCorrect`, `PermitsBalanced`: the inductive invariant is
  `TypeOK /\ AttemptsLeft /\ PermitAccounting`. `TypeOK` alone is not inductive:
  a returned permit stays below `MaxPermits` only because its task was among the
  holders, and an attempt number stays in range only because a send that attempts
  or sleeps has an attempt left. The lemmas `DialerEffect`, `SessionEffect` and
  `PermitEffect` show that every step enters one task among the holders, takes one
  out, or leaves holders and permits alone.
- `LimitImplemented`: the refinement of `ConnectionLimit`, from the same three
  cases; an entry finds room because the accounts balance.
- `ConnectedSound`: inductive above `TypeOK`. `TaskEffect` shows that tasks write
  the table only through `get_mut` with one of the methods of `PeerInfo`,
  `MethodsSound` that none of them makes an entry unsound.
- `PeerCountExact`, `NoResurrection`: from `TaskEffect` and `WritesKeepKnown`, the
  set of entries changes in operator calls only.
- `SendsAreCounted`, `RetriesAreCounted`: a step moves one send between the sets the two
  property counts, and at most one counter with it. For retries the invariant `RetryInv`
  says what `message_retries` is made of: the failed attempts of the sends that are not
  joined, each a pair of a send and a number (`AttemptsOf`), all attempts of the sends joined
  as failed, and fewer for each other one. Bounds on the pairs are inclusions of sets
  (`Between`), so no sum over sends is needed.

`StateSyncProofs` holds for any finite set of sequences, any contents and limits:
`SyncTypes`, `SyncWaitsForWork` and `SyncRequestsBounded`, from the invariant
`SyncInv == TypeOK /\ PhaseHasWork /\ RequestsBounded`. `PhaseHasWork` survives a
verdict about a snapshot that was stored twice because such a verdict leaves the
state alone only when nothing is stored for its sequence, so the state is about
another one (`VerificationInv`); `TypeOK` needs that the phase of a transaction
download has both ends of its range (`TransactionsHaveRange`). The bound is kept by
`StaysWithin`: a set of requests shrinks, or gains one below the limit.

`MiningPoolProofs` holds for any finite sets of threads and miners, any number of
shards and any assignment of miners to them. `UniqueIds`: the invariant `IdsUnused`
says that an id above the counter, and an id a thread has not inserted yet, is nobody
else's. `ShareNeverReturns` proves for all sizes what the run `pool_share` shows for
one thread: by `ShareHoldsShard` a count for a share has not passed the shard the
share itself holds, so it never gets to the end. `PackagesAreCounted` follows the set of
calls that took an id and have not counted their package: a call enters it as
`next_work_id` grows, leaves it as `total_work_packages` does, and no other step of any
thread touches the three. `SharesAreCounted` does the same with the shares that miners'
accounts record, the first of a miner, the second, ... (`RecordedShares`). `TypeCorrect`
rests on both, since the totals of the statistics are in range because they are behind what was
recorded, and on `CountsBounded`: a count of miners that has come to a shard is at most the
number of miners in the shards before it.

`GossipCacheProofs` holds for any topics and messages, and any size and divisor:
`CacheKeepsItsSize` and `YoungAreRemembered`, both from what either writer leaves of
a full cache (`MakesRoom`): there is room for one more if the divisor is at most the
size, and whatever left was expired, or the entries that stay are at least as young
and fill the cache up to one eviction (`EvictMakesRoom`, `BroadcastMakesRoom`).
`TotalsCover`: the messages the topics have counted are a set of pairs of a topic and a number
(`MessagesOf`), which a subscription that ends makes smaller, and a message larger by one
pair, together with the total. `TypeCorrect` is from the same invariant (`TotalsInv`).

`PeerSecurityProofs` holds for any peers, threads, amounts, rates and durations.
`LowScoresAreBanned` (for a threshold that is not above the neutral score, as 10 is below
50) needs no strengthening beyond types and that a thread at work has its peer. An action that
leaves a low score found one, or sends its thread to ban, or follows a ban that is on the
list or has gone (`ReportStep`, `BanLowStep`); one that takes a ban off goes on to reset the score
(`UnbanLowStep`) or is a cleanup; and no step takes another thread off its way
(`ReasonStays`).
`BansAreKept`: a sweep's clock is never ahead of `now`, so a ban that
is old by it is old, and only `LiftBan` and `UnbanPeer` remain. `ScoresDecay`
(`DecayTowardsNeutral`): a tick takes the quotient by `Hour` to itself or the next one and its
remainder by `Byte` to itself, the next, or zero (`NextQuotient`, `HoursGoOn`); more hours never
decay less, and neither branch of `apply_decay` passes neutral (`AgedCloser`).

`PeerManagerProofs` holds for any peers, threads, shards and limits: `TypeCorrect`, and
`SweepIsSound` with the invariant that the clock a sweep read is not ahead of `now`.
`OvershootIsBounded` needs what no variable tells: when each thread began to count, and when
and by whom each peer came. The invariant `Remembered` says that some history fits the
state (`Remembers`): a count covers the peers of the shards it has passed that were there when
it began and still are; before the latest of the admitted threads began there was room; since
then every thread has inserted at most one peer. Each step extends the history. At that
time the table was below `max_peers`, by one at least, and each thread has added at most one
peer to it: the bound is an injection from the later peers into the threads.

`BatchingProofs` holds for any sizes and limits: `TypeCorrect`, and `FullBatchesLeave`, for
which `FullIsAlone` is inductive: a batch grows beyond one message in `Collect` only, which
has just found it below both limits. `CountersFollowMessages` and `BatchesKeepLimits`: a
message put at the end adds its bytes to a disjoint set, and a batch leaves as it was.
`BatchingIsStream` is the refinement: the invariant `InStream` says that batches on the link and
the pending one are cut from `sent` at offsets that begin at `taken` and end at its length
(`Cut`), so that what `Read` keeps of a buffer is the next piece of the stream. That a
buffer with one whole batch keeps all of it is `WholeUnbatches`: the bytes of its first
messages are a subset of the bytes of all, so each message ends within the buffer.

`ErrorHandlingProofs` holds for any peers, threads, errors and limits: `TypeCorrect`, which
needs that a thread at work has its peer and its error (`TasksSound`), and
`ReconnectionsAreBounded`, from `ReconnectsCounted`: a peer's reconnections are at most its
counted errors as well as at most the limit, so that the count that is compared with the
limit bounds the reconnection it grants. `CountersFollowLog` (for a finite set of threads,
`ThreadsAssumption`) has a case for each counter: a step of `log_error` takes a thread into or
out of the threads that are ahead of the log, together with the counter or the entry it
belongs to, and no step of another thread touches either. `RingHoldsNewest`: a push to a full
ring moves the suffix of the log by one, for any limit; zero acts as one. `DelaysGrow`: a last
delay was granted for one attempt fewer than the peer now counts (`BackoffFits`), the delay of
the next attempt is twice as long or the cap (`DelayGrows`), and jitter takes less from it
than that (`JitterKeepsOrder`). Powers of two are handled as numbers of subsets
(`PowerDoubles`).

So every invariant and every action property of the passing runs is a theorem, each for all
values of the constants that satisfy the named assumptions. Model-checked only is liveness
(`ConnectReturns`, `SessionServed`, `BroadcastReturns`, `RequestsEnd`, `HandleReturns`): it needs
`ENABLED` and fairness, which the installed provers do not reach. Induction over data is out of
their reach too, which is why sums are stated as numbers of elements (shares, messages, bytes,
attempts) and not as folds: a step adds or takes elements, and the laws of finite sets say what
that does to their number. The two violations of section 5 are TLC's; `ShareNeverReturns`
is the proved counterpart of one of them.

## 5. Where documentation and code differ

Each has a run that finds it violated.

- `sync_verified`: a second answer for a sequence replaces the snapshot that is being
  verified; the verdict about the first applies the second (`sync.rs` 238, 264).
- `pool_share`: `submit_share` asks for the length of the map while it holds a shard of
  it: it never returns, and what needs the statistics waits for ever.

Seen while modelling, without a run of their own:

- Validators: `connect_peer` returns `Ok` for a peer it has just marked Failed because the
  handshake answer was lost (`validator_sync.rs` 809-819), and `reconnect_failed_peers`
  counts it as reconnected; its loop sets a peer that was connected since the list was
  read back to Connecting; `message_retries` counts every failed attempt; the "max 5
  seconds" cuts the doubled backoff, not the first one.
- State synchronisation: `handle_transactions` does not remove the request it answers
  (`sync.rs` 370-411), which is retried, given up, and sets the state to Idle whatever it is
  by then; the number of transactions is compared with the number of sequences, so that
  a snapshot's download ends with its first transaction (396); `start_snapshot_download`
  sets the state before its request may be refused, and leaves it set.
- Mining pool: `cleanup_old_work` drops a package that was created a second after it read
  the clock, since the unsigned age wraps around (`mining_pool.rs` 218).
- Gossip: a cache of a size below ten never evicts a young entry, since a tenth of its
  size is zero, and grows past `max_cache_size` (`gossip.rs` 262); `broadcast` caches and
  counts a message as published without publishing it (330-386).
- Peer security: an `is_banned` that saw a ban run out removes the ban that was put in its
  place since (`security.rs` 301-308); a reputation "below this = banned"
  (111) is also that of peers that are free: `cleanup_expired_bans` (323-342) takes a ban off and
  leaves its score of 0, which `unban_peer` would have reset to 50 (280-297); and a `ban_peer`
  that zeroes the score when its ban has been taken off leaves 0 too (257-278). The next report
  that leaves such a peer below the threshold bans it. A ban put between the two steps of an unban stays
  on the list beside a neutral score; 256 hours after its last report a score is read as if
  no time had passed (186).
- Peer manager: two threads that add one peer make one entry, and the second insertion
  undoes what happened to the first, a ban included (`peer.rs` 153-159); the table may
  exceed `max_peers` while several threads add.
- Errors: the jitter, "±10%" by its comment, runs from -5% to +5% and may exceed
  `max_delay_ms`; for a delay below ten milliseconds it is a remainder by zero
  (`error_recovery.rs` 54-63); errors are logged as recovered when their kind is
  recoverable, also if the peer is banned for them, and critical errors whenever they
  raise an alert; `Serialization`, `Deserialization` and `InvalidMessage` fall into the
  category Other (`error_logging.rs` 103); a history of size zero keeps one entry;
  `ResourceExhaustion` is critical but raises no alert (`error.rs` 219-240).
- Batching: a message that overflows a batch and fills the next one alone waits for another
  message or a flush (`compression.rs` 290-294); `unbatch` of a buffer with two batches returns the
first and drops the second without an error (363-417).

## 6. Plan

The modules of sections 2 to 4 cover the components with state of their own. What is left,
in order of use:

1. What does hold of verified snapshots, as a theorem beside the violation: the snapshot
   that is applied is the last one stored for its sequence, and the verified one unless a second
   answer came in between.
2. The rate limiter of `security.rs` (a window per peer) and the wire format as frames
   against partial and merged reads, composed with broadcast and session (a broadcast's
   first frame is read as a handshake answer).
3. An abstract synchronisation round that `StateSync` implements where it does.

## 7. Not modelled

- `security.rs` `RateLimiter`: every call is one guard of one peer's window; nothing
  interleaves in it.
- `compression.rs` `MessageCompressor`: a library call, a header and statistics.
- `discovery.rs`: outstanding queries around libp2p's Kademlia; an entry goes with the
  first result of whatever kind.
- The wire format of validators (conversion of bytes), and the unused parts of their manager
  (`pending_messages`, `message_sequence`, `send_message_real`, the event channel),
  and `start_listener`, which fills a slot once.
- `behaviour.rs`, `message.rs`, `config.rs`, `lib.rs`: wiring, definitions and range checks,
  without state of their own. `test_introspect.rs` and `test_struct.rs` are empty scaffolding.
- libp2p itself, serialisation formats, TLS, clocks as numbers, logging.

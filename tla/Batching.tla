-------------------------------- MODULE Batching -------------------------------
(***************************************************************************)
(* MessageBatcher: small messages are gathered into batches, which unbatch *)
(* takes apart at the other end.                                           *)
(*                                                                         *)
(* A batch is the sequence of its messages, and its bytes are counted: a   *)
(* count of 4 bytes, and 4 bytes of length before each message.  The link  *)
(* between the two ends is not part of the crate: it keeps the order, and  *)
(* a read may find less than a batch in its buffer, or two.                *)
(***************************************************************************)
EXTENDS Naturals, FiniteSets, Sequences, Functions

CONSTANTS
    Sizes,           \* sizes of messages
    MaxBatchSize,    \* max_batch_size
    MaxMessages,     \* max_messages
    MaxSent,         \* bound: messages given to the batcher
    MaxLink          \* bound: batches on their way

ASSUME SizeAssumption == Sizes \subseteq Nat
ASSUME LimitAssumption == MaxBatchSize \in Nat /\ MaxMessages \in Nat
ASSUME BoundAssumption == MaxSent \in Nat /\ MaxLink \in Nat

VARIABLES
    pending,         \* the messages of the next batch
    current_size,
    messages_batched,
    link,            \* batches on their way
    sent, received,  \* history: what the batcher was given, what unbatch returned
    taken,           \* history: how many messages were read from the link
    whole            \* history: the last read found one batch, and all of it

batcher == <<pending, current_size, messages_batched>>
vars == <<batcher, link, sent, received, taken, whole>>

Message == [id : 1 .. MaxSent, size : Sizes]

TypeOK ==
    /\ pending \in Seq(Message) /\ current_size \in Nat
    /\ messages_batched \in Nat
    /\ link \in Seq(Seq(Message))
    /\ sent \in Seq(Message) /\ received \in Seq(Message) /\ taken \in Nat
    /\ whole \in BOOLEAN

Init ==
    /\ pending = <<>> /\ current_size = 0 /\ messages_batched = 0
    /\ link = <<>> /\ sent = <<>> /\ received = <<>> /\ taken = 0
    /\ whole = TRUE

(***************************************************************************)
(* The batcher.                                                            *)
(***************************************************************************)
\* Variant: the size of the message itself is forgotten.
OverflowsLate(m) ==
    /\ pending # <<>>
    /\ current_size > MaxBatchSize \/ Len(pending) >= MaxMessages

\* The message does not fit beside what is pending.
Overflows(m) ==
    /\ pending # <<>>
    /\ current_size + m.size > MaxBatchSize \/ Len(pending) >= MaxMessages

\* Variant: a batch is ready when it is past a limit, not at it.
ReadyLate(size, n) == size > MaxBatchSize \/ n > MaxMessages

Ready(size, n) == size >= MaxBatchSize \/ n >= MaxMessages

\* Variant: the message that did not fit is forgotten.
StartNextEmpty(m) ==
    /\ pending' = <<>> /\ current_size' = 0
    /\ messages_batched' = messages_batched + Len(pending)
    /\ link' = Append(link, pending)

\* Variant: the size of the batch that has left stays.
StartNextStale(m) ==
    /\ pending' = <<m>> /\ current_size' = current_size + m.size
    /\ messages_batched' = messages_batched + Len(pending)
    /\ link' = Append(link, pending)

\* The pending batch leaves, and the message starts the next one: that one is
\* not looked at again, even if the message alone fills it.
StartNext(m) ==
    /\ pending' = <<m>> /\ current_size' = m.size
    /\ messages_batched' = messages_batched + Len(pending)
    /\ link' = Append(link, pending)

Collect(m) ==
    LET batch == Append(pending, m)
    IN  IF Ready(current_size + m.size, Len(batch))
        THEN /\ pending' = <<>> /\ current_size' = 0
             /\ messages_batched' = messages_batched + Len(batch)
             /\ link' = Append(link, batch)
        ELSE /\ pending' = batch /\ current_size' = current_size + m.size
             /\ UNCHANGED <<messages_batched, link>>

\* The caller sends the batch it gets.
AddMessage(size) ==
    /\ Len(sent) < MaxSent /\ Len(link) < MaxLink
    /\ LET m == [id |-> Len(sent) + 1, size |-> size]
       IN  /\ sent' = Append(sent, m)
           /\ \/ Overflows(m) /\ StartNext(m)
              \/ ~ Overflows(m) /\ Collect(m)
    /\ UNCHANGED <<received, taken, whole>>

\* Of nothing, flush makes an empty vector, which is not a batch.
Flush ==
    /\ Len(link) < MaxLink
    /\ pending' = <<>> /\ current_size' = 0
    /\ messages_batched' = messages_batched + Len(pending)
    /\ link' = Append(link, pending)
    /\ UNCHANGED <<sent, received, taken, whole>>

(***************************************************************************)
(* The other end.                                                          *)
(***************************************************************************)
\* The bytes of some messages: of the i-th, the first, the second, ...
BytesOf(messages) == UNION {{i} \X (1 .. messages[i].size) : i \in DOMAIN messages}

Size(messages) == Cardinality(BytesOf(messages))

\* Where in its batch the i-th message ends: after the count, i lengths and the
\* messages up to it.
End(batch, i) == 4 + 4 * i + Size(SubSeq(batch, 1, i))

Bytes(batch) == IF batch = <<>> THEN 0 ELSE End(batch, Len(batch))

\* Variant: the last byte of the buffer is not taken for a message's.
UnbatchesShort(batch, n) ==
    /\ n >= 4
    /\ \A i \in 1 .. Len(batch) : End(batch, i - 1) + 4 <= n /\ End(batch, i) < n

\* unbatch of a buffer of n bytes that starts with the batch: it walks from
\* length to length, and finds too little or returns every message.  It does
\* not look at what follows.
Unbatches(batch, n) ==
    /\ n >= 4
    /\ \A i \in 1 .. Len(batch) : End(batch, i - 1) + 4 <= n /\ End(batch, i) <= n

\* The batch that a read of some batches of the link finds first: what flush makes
\* of nothing has no bytes.
First(batches) == IF batches = 2 /\ link[1] = <<>> THEN link[2] ELSE link[1]

\* A read of the first batches on the link that leaves a buffer of n bytes.
Read(batches, n) ==
    /\ batches <= Len(link)
    /\ n <= SumFunction([i \in 1 .. batches |-> Bytes(link[i])])
    /\ received' = IF Unbatches(First(batches), n)
                   THEN received \o First(batches) ELSE received
    /\ taken' = taken + Len(link[1]) + (IF batches = 2 THEN Len(link[2]) ELSE 0)
    /\ link' = SubSeq(link, batches + 1, Len(link))
    /\ whole' = (batches = 1 /\ n = Bytes(link[1]))
    /\ UNCHANGED <<batcher, sent>>

Largest == 2 * End([i \in 1 .. MaxSent |-> [size |-> CHOOSE s \in Sizes : \A r \in Sizes : r <= s]],
                   MaxSent)

Next ==
    \/ \E size \in Sizes : AddMessage(size)
    \/ Flush
    \/ \E n \in 0 .. Largest : Read(1, n) \/ Read(2, n)

Spec == Init /\ [][Next]_vars

(***************************************************************************)
(* Properties.                                                             *)
(***************************************************************************)
\* Whatever limit ends it, a batch carries no more than max_batch_size bytes of
\* messages, unless it is a single message, and no more than max_messages.
BatchesFit ==
    \A i \in DOMAIN link :
       Len(link[i]) > 1 => Size(link[i]) <= MaxBatchSize /\ Len(link[i]) <= MaxMessages

\* Messages that fill a batch are not held back for another message or a flush,
\* but for one that had to start a batch by itself.
FullIsAlone ==
    Len(pending) > 1 => current_size < MaxBatchSize /\ Len(pending) < MaxMessages

\* The counters follow the messages, through overflows and flushes of nothing.
Accounting ==
    /\ current_size = Size(pending)
    /\ messages_batched + Len(pending) = Len(sent)

\* Batching is a stream of messages: none is lost in the batcher, none doubled or
\* overtaken.  A buffer that holds one batch, whole, loses none; one that is cut
\* short or holds two may lose messages of its own, the last ones, and no others.
Stream == INSTANCE MessageStream

InOrder == Stream!Spec
=============================================================================

----------------------------- MODULE BatchingProofs ----------------------------
(***************************************************************************)
(* Proofs about Batching: its types, that a batch which is full waits only *)
(* when it is a single message, that the counters follow the messages, that *)
(* batches keep to their limits, and that batching is a stream of messages. *)
(***************************************************************************)
EXTENDS Batching, FiniteSetTheorems, SequenceTheorems, TLAPS

\* What the batcher makes of the messages it is given.
LEMMA MessageType ==
    ASSUME NEW size \in Sizes, TypeOK, Len(sent) < MaxSent
    PROVE  [id |-> Len(sent) + 1, size |-> size] \in Message
<1>1. Len(sent) + 1 \in 1 .. MaxSent
  BY BoundAssumption DEF TypeOK
<1> QED BY <1>1 DEF Message

\* The batches that are left are batches.
LEMMA RestType ==
    ASSUME TypeOK, NEW n \in Nat, n <= Len(link)
    PROVE  SubSeq(link, n + 1, Len(link)) \in Seq(Seq(Message))
<1>1. link \in Seq(Seq(Message))
  BY DEF TypeOK
<1> QED BY <1>1

\* A message the batcher adds keeps the types.
LEMMA AddType ==
    ASSUME TypeOK, NEW m \in Message, StartNext(m) \/ Collect(m)
    PROVE  /\ pending' \in Seq(Message) /\ current_size' \in Nat
           /\ messages_batched' \in Nat /\ link' \in Seq(Seq(Message))
<1>1. m.size \in Nat
  BY SizeAssumption DEF Message
<1>2. /\ pending \in Seq(Message) /\ current_size \in Nat /\ messages_batched \in Nat
      /\ link \in Seq(Seq(Message)) /\ <<>> \in Seq(Message) /\ <<m>> \in Seq(Message)
  BY DEF TypeOK
<1>3. CASE StartNext(m)
  <2>1. Append(link, pending) \in Seq(Seq(Message)) /\ messages_batched + Len(pending) \in Nat
    BY <1>2
  <2> QED BY <1>1, <1>2, <1>3, <2>1 DEF StartNext
<1>4. CASE Collect(m)
  <2> DEFINE batch == Append(pending, m)
  <2>1. batch \in Seq(Message) /\ current_size + m.size \in Nat
    BY <1>1, <1>2
  <2>2. Append(link, batch) \in Seq(Seq(Message)) /\ messages_batched + Len(batch) \in Nat
    BY <1>2, <2>1
  <2>3. \/ /\ pending' = <<>> /\ current_size' = 0
           /\ messages_batched' = messages_batched + Len(batch)
           /\ link' = Append(link, batch)
        \/ /\ pending' = batch /\ current_size' = current_size + m.size
           /\ UNCHANGED <<messages_batched, link>>
    BY <1>4 DEF Collect
  <2> HIDE DEF batch
  <2>4. ASSUME pending' = <<>>, current_size' = 0,
               messages_batched' = messages_batched + Len(batch), link' = Append(link, batch)
        PROVE  /\ pending' \in Seq(Message) /\ current_size' \in Nat
               /\ messages_batched' \in Nat /\ link' \in Seq(Seq(Message))
    BY <1>2, <2>2, <2>4
  <2>5. ASSUME pending' = batch, current_size' = current_size + m.size,
               UNCHANGED <<messages_batched, link>>
        PROVE  /\ pending' \in Seq(Message) /\ current_size' \in Nat
               /\ messages_batched' \in Nat /\ link' \in Seq(Seq(Message))
    BY <1>2, <2>1, <2>5
  <2> QED BY <2>3, <2>4, <2>5
<1> QED BY <1>3, <1>4

\* Every step keeps the types; what unbatch returns is made of messages because
\* the batches on the link are.
LEMMA TypeStep == TypeOK /\ [Next]_vars => TypeOK'
<1> SUFFICES ASSUME TypeOK, [Next]_vars PROVE TypeOK'
  OBVIOUS
<1>1. ASSUME NEW size \in Sizes, AddMessage(size) PROVE TypeOK'
  <2> DEFINE m == [id |-> Len(sent) + 1, size |-> size]
  <2>1. m \in Message
    BY <1>1, MessageType DEF AddMessage
  <2>2. /\ sent' = Append(sent, m) /\ received' = received /\ taken' = taken /\ whole' = whole
        /\ StartNext(m) \/ Collect(m)
    BY <1>1 DEF AddMessage
  <2> HIDE DEF m
  <2>3. sent' \in Seq(Message) /\ received' \in Seq(Message) /\ taken' \in Nat /\ whole' \in BOOLEAN
    BY <2>1, <2>2 DEF TypeOK
  <2> QED BY <2>1, <2>2, <2>3, AddType DEF TypeOK
<1>2. ASSUME Flush PROVE TypeOK'
  BY <1>2 DEF Flush, TypeOK
<1>3. ASSUME NEW k \in {1, 2}, NEW n, Read(k, n) PROVE TypeOK'
  <2>1. link' \in Seq(Seq(Message))
    BY <1>3, RestType DEF Read
  <2>2. link \in Seq(Seq(Message)) /\ Len(link) \in Nat /\ k <= Len(link)
    BY <1>3 DEF Read, TypeOK
  <2>3. 1 \in 1 .. Len(link) /\ (k = 2 => 2 \in 1 .. Len(link))
    BY <2>2
  <2>4. link[1] \in Seq(Message) /\ (k = 2 => link[2] \in Seq(Message))
    BY <2>2, <2>3, ElementOfSeq
  <2>5. First(k) \in Seq(Message)
    BY <2>4 DEF First
  <2>6. received \o First(k) \in Seq(Message) /\ received \in Seq(Message)
    BY <2>5, ConcatProperties DEF TypeOK
  <2>7. received' \in Seq(Message)
    BY <1>3, <2>6 DEF Read
  <2>8. taken' \in Nat
    <3>1. Len(link[1]) \in Nat /\ (k = 2 => Len(link[2]) \in Nat) /\ taken \in Nat
      BY <2>4 DEF TypeOK
    <3>2. taken' = taken + Len(link[1]) + (IF k = 2 THEN Len(link[2]) ELSE 0)
      BY <1>3 DEF Read
    <3>3. PICK one \in Nat, two \in Nat : taken' = taken + one + two
      BY <3>1, <3>2
    <3> QED BY <3>1, <3>3
  <2>9. whole' \in BOOLEAN
    BY <1>3 DEF Read
  <2> QED BY <1>3, <2>1, <2>7, <2>8, <2>9 DEF Read, TypeOK, batcher
<1>4. ASSUME UNCHANGED vars PROVE TypeOK'
  BY <1>4 DEF vars, batcher, TypeOK
<1> QED BY <1>1, <1>2, <1>3, <1>4 DEF Next

\* The types, through every way of reading the link.
THEOREM TypeCorrect == Spec => []TypeOK
<1>1. Init => TypeOK
  BY DEF Init, TypeOK
<1> QED BY <1>1, TypeStep, PTL DEF Spec

\* One step leaves more than one message pending only if they fill no batch.
LEMMA FullStep == TypeOK /\ FullIsAlone /\ [Next]_vars => FullIsAlone'
<1> SUFFICES ASSUME TypeOK, FullIsAlone, [Next]_vars PROVE FullIsAlone'
  OBVIOUS
<1>1. ASSUME NEW m \in Message, StartNext(m) PROVE FullIsAlone'
  <2>1. Len(pending') = 1
    BY <1>1 DEF StartNext
  <2> QED BY <2>1 DEF FullIsAlone
<1>2. ASSUME NEW m \in Message, Collect(m) PROVE FullIsAlone'
  <2> DEFINE batch == Append(pending, m)
  <2>1. CASE Ready(current_size + m.size, Len(batch))
    <3>1. Len(pending') = 0
      BY <1>2, <2>1 DEF Collect
    <3> QED BY <3>1 DEF FullIsAlone
  <2>2. CASE ~ Ready(current_size + m.size, Len(batch))
    <3>1. pending' = batch /\ current_size' = current_size + m.size
      BY <1>2, <2>2 DEF Collect
    <3>2. /\ current_size + m.size \in Nat /\ Len(batch) \in Nat
          /\ MaxBatchSize \in Nat /\ MaxMessages \in Nat
      <4>1. pending \in Seq(Message) /\ current_size \in Nat /\ m.size \in Nat
        BY SizeAssumption DEF TypeOK, Message
      <4>2. Len(batch) = Len(pending) + 1
        BY <4>1, AppendProperties
      <4>3. Len(pending) \in Nat
        BY <4>1
      <4> HIDE DEF batch
      <4> QED BY <4>1, <4>2, <4>3, LimitAssumption
    <3>3. current_size + m.size < MaxBatchSize /\ Len(batch) < MaxMessages
      BY <2>2, <3>2 DEF Ready
    <3> QED BY <3>1, <3>3 DEF FullIsAlone
  <2> QED BY <2>1, <2>2
<1>3. ASSUME NEW size \in Sizes, AddMessage(size) PROVE FullIsAlone'
  <2>1. [id |-> Len(sent) + 1, size |-> size] \in Message
    BY <1>3, MessageType DEF AddMessage
  <2> QED BY <1>1, <1>2, <1>3, <2>1 DEF AddMessage
<1>4. ASSUME Flush PROVE FullIsAlone'
  <2>1. Len(pending') = 0
    BY <1>4 DEF Flush
  <2> QED BY <2>1 DEF FullIsAlone
<1>5. ASSUME NEW k \in {1, 2}, NEW n, Read(k, n) PROVE FullIsAlone'
  BY <1>5 DEF Read, batcher, FullIsAlone
<1>6. ASSUME UNCHANGED vars PROVE FullIsAlone'
  BY <1>6 DEF vars, batcher, FullIsAlone
<1> QED BY <1>3, <1>4, <1>5, <1>6 DEF Next

\* add_message looks at its limits before it adds and after it, but not after an
\* overflow: whatever the sizes, a batch that has reached a limit is only held
\* back when it is one message.
THEOREM FullBatchesLeave == Spec => []FullIsAlone
<1>1. Init => TypeOK /\ FullIsAlone
  BY DEF Init, TypeOK, FullIsAlone
<1>2. TypeOK /\ FullIsAlone /\ [Next]_vars => (TypeOK /\ FullIsAlone)'
  BY TypeStep, FullStep
<1> QED BY <1>1, <1>2, PTL DEF Spec

(***************************************************************************)
(* The sizes: what the batcher adds up in current_size is the size of the  *)
(* messages that are pending.                                              *)
(***************************************************************************)
\* What the bytes of some messages are.
LEMMA BytesElements ==
    ASSUME NEW messages
    PROVE  /\ \A i, k : <<i, k>> \in BytesOf(messages)
                          <=> i \in DOMAIN messages /\ k \in 1 .. messages[i].size
           /\ \A b \in BytesOf(messages) : \E i, k : b = <<i, k>>
BY DEF BytesOf

\* No messages have no bytes.
LEMMA NoBytes == IsFiniteSet(BytesOf(<<>>)) /\ Size(<<>>) = 0
<1>1. BytesOf(<<>>) = {}
  BY DEF BytesOf
<1> QED BY <1>1, FS_EmptySet DEF Size

\* A message more is its bytes more.
LEMMA BytesAppended ==
    ASSUME NEW messages \in Seq(Message), NEW m \in Message, IsFiniteSet(BytesOf(messages))
    PROVE  /\ IsFiniteSet(BytesOf(Append(messages, m)))
           /\ Size(messages) \in Nat
           /\ Size(Append(messages, m)) = Size(messages) + m.size
<1> DEFINE n == Len(messages) + 1
           more == Append(messages, m)
           own == {n} \X (1 .. m.size)
<1>1. m.size \in Nat
  BY SizeAssumption DEF Message
<1>2. /\ n \in Nat \ {0} /\ DOMAIN messages = 1 .. (n - 1) /\ DOMAIN more = 1 .. n
      /\ more[n] = m /\ \A i \in 1 .. (n - 1) : more[i] = messages[i]
  BY AppendProperties
<1> HIDE DEF n, more
<1>3. \A i : i \in 1 .. n <=> i \in 1 .. (n - 1) \/ i = n
  BY <1>2
<1>4. BytesOf(more) = BytesOf(messages) \cup own
  <2>1. ASSUME NEW i, NEW k
        PROVE  <<i, k>> \in BytesOf(more)
                  <=> <<i, k>> \in BytesOf(messages) \/ <<i, k>> \in own
    <3>1. <<i, k>> \in own <=> i = n /\ k \in 1 .. m.size
      OBVIOUS
    <3>2. CASE i \in 1 .. (n - 1)
      <4>1. i # n
        BY <1>2, <3>2
      <4> QED BY <1>2, <1>3, <3>1, <3>2, <4>1, BytesElements
    <3>3. CASE i \notin 1 .. (n - 1)
      BY <1>2, <1>3, <3>1, <3>3, BytesElements
    <3> QED BY <3>2, <3>3
  <2>2. \A b \in own : \E i, k : b = <<i, k>>
    OBVIOUS
  <2>3. \A b \in BytesOf(more) : \E i, k : b = <<i, k>>
    BY BytesElements
  <2>4. \A b \in BytesOf(messages) : \E i, k : b = <<i, k>>
    BY BytesElements
  <2> HIDE DEF own
  <2> QED BY <2>1, <2>2, <2>3, <2>4
<1>5. IsFiniteSet(own) /\ Cardinality(own) = m.size
  <2>1. IsFiniteSet(1 .. m.size) /\ Cardinality(1 .. m.size) = m.size
    <3>1. PICK size \in Nat : size = m.size
      BY <1>1
    <3>2. IsFiniteSet(1 .. size) /\ Cardinality(1 .. size) = size
      BY FS_Interval
    <3> QED BY <3>1, <3>2
  <2>2. IsFiniteSet({n}) /\ Cardinality({n}) = 1
    BY FS_Singleton
  <2>3. IsFiniteSet(own) /\ Cardinality(own) = 1 * m.size
    BY <2>1, <2>2, FS_Product
  <2>4. 1 * m.size = m.size
    BY <1>1
  <2> QED BY <2>3, <2>4
<1>6. BytesOf(messages) \cap own = {}
  <2>1. ASSUME NEW k PROVE <<n, k>> \notin BytesOf(messages)
    <3>1. n \notin 1 .. (n - 1)
      BY <1>2
    <3> QED BY <1>2, <3>1, BytesElements
  <2>2. \A b \in own : \E k : b = <<n, k>>
    OBVIOUS
  <2> HIDE DEF own
  <2> QED BY <2>1, <2>2
<1> HIDE DEF own
<1>7. Cardinality(BytesOf(messages)) \in Nat
  BY FS_CardinalityType
<1>8. /\ IsFiniteSet(BytesOf(messages) \cup own)
      /\ Cardinality(BytesOf(messages) \cup own)
            = Cardinality(BytesOf(messages)) + Cardinality(own)
              - Cardinality(BytesOf(messages) \cap own)
  BY <1>5, FS_Union
<1>9. Cardinality(BytesOf(messages) \cap own) = 0
  BY <1>6, FS_EmptySet
<1>10. Cardinality(BytesOf(more)) = Cardinality(BytesOf(messages)) + m.size
  BY <1>1, <1>4, <1>5, <1>7, <1>8, <1>9
<1> QED BY <1>4, <1>7, <1>8, <1>10 DEF Size, more

\* A message by itself has its own size.
LEMMA BytesOfOne ==
    ASSUME NEW m \in Message
    PROVE  IsFiniteSet(BytesOf(<<m>>)) /\ Size(<<m>>) = m.size
<1>1. <<>> \in Seq(Message) /\ Append(<<>>, m) = <<m>>
  OBVIOUS
<1>2. m.size \in Nat
  BY SizeAssumption DEF Message
<1>3. /\ IsFiniteSet(BytesOf(Append(<<>>, m))) /\ Size(Append(<<>>, m)) = Size(<<>>) + m.size
  BY <1>1, NoBytes, BytesAppended
<1> QED BY <1>1, <1>2, <1>3, NoBytes

\* The invariant of the counters: there are finitely many bytes to count.
Accounted == IsFiniteSet(BytesOf(pending)) /\ Accounting

LEMMA InitAccounted == Init => TypeOK /\ Accounted
<1> SUFFICES ASSUME Init PROVE TypeOK /\ Accounted
  OBVIOUS
<1>1. TypeOK
  BY DEF Init, TypeOK
<1>2. /\ pending = <<>> /\ sent = <<>> /\ current_size = 0 /\ messages_batched = 0
  BY DEF Init
<1>3. Len(pending) = 0 /\ Len(sent) = 0
  BY <1>2
<1> QED BY <1>1, <1>2, <1>3, NoBytes DEF Accounted, Accounting

\* Every step accounts for the messages it adds and the batch it takes away.
LEMMA AccountedStep == TypeOK /\ Accounted /\ [Next]_vars => Accounted'
<1> SUFFICES ASSUME TypeOK, Accounted, [Next]_vars PROVE Accounted'
  OBVIOUS
<1>1. /\ IsFiniteSet(BytesOf(pending)) /\ current_size = Size(pending)
      /\ messages_batched + Len(pending) = Len(sent)
      /\ pending \in Seq(Message) /\ sent \in Seq(Message)
      /\ current_size \in Nat /\ messages_batched \in Nat
      /\ Len(pending) \in Nat /\ Len(sent) \in Nat
  BY DEF Accounted, Accounting, TypeOK
<1>2. ASSUME NEW m \in Message, sent' = Append(sent, m), StartNext(m) PROVE Accounted'
  <2>1. pending' = <<m>> /\ current_size' = m.size /\ Len(pending') = 1
        /\ messages_batched' = messages_batched + Len(pending)
    BY <1>2 DEF StartNext
  <2>2. Len(sent') = Len(sent) + 1
    BY <1>1, <1>2, AppendProperties
  <2>3. messages_batched' + Len(pending') = Len(sent')
    BY <1>1, <2>1, <2>2
  <2>4. IsFiniteSet(BytesOf(pending')) /\ current_size' = Size(pending')
    BY <2>1, BytesOfOne
  <2> QED BY <2>3, <2>4 DEF Accounted, Accounting, Size, BytesOf
<1>3. ASSUME NEW m \in Message, sent' = Append(sent, m), Collect(m) PROVE Accounted'
  <2> DEFINE batch == Append(pending, m)
  <2>1. Len(sent') = Len(sent) + 1 /\ Len(batch) = Len(pending) + 1
    BY <1>1, <1>3, AppendProperties
  <2>2. /\ IsFiniteSet(BytesOf(batch)) /\ Size(batch) = current_size + m.size
    BY <1>1, BytesAppended
  <2>3. \/ /\ pending' = <<>> /\ current_size' = 0
           /\ messages_batched' = messages_batched + Len(batch)
        \/ /\ pending' = batch /\ current_size' = current_size + m.size
           /\ messages_batched' = messages_batched
    BY <1>3 DEF Collect
  <2> HIDE DEF batch
  <2>4. CASE /\ pending' = <<>> /\ current_size' = 0
             /\ messages_batched' = messages_batched + Len(batch)
    <3>1. Len(pending') = 0
      BY <2>4
    <3>2. messages_batched' + Len(pending') = Len(sent')
      BY <1>1, <2>1, <2>4, <3>1
    <3>3. IsFiniteSet(BytesOf(pending')) /\ current_size' = Size(pending')
      BY <2>4, NoBytes
    <3> QED BY <3>2, <3>3 DEF Accounted, Accounting, Size, BytesOf
  <2>5. CASE /\ pending' = batch /\ current_size' = current_size + m.size
             /\ messages_batched' = messages_batched
    <3>1. messages_batched' + Len(pending') = Len(sent')
      BY <1>1, <2>1, <2>5
    <3>2. IsFiniteSet(BytesOf(pending')) /\ current_size' = Size(pending')
      BY <2>2, <2>5
    <3> QED BY <3>1, <3>2 DEF Accounted, Accounting, Size, BytesOf
  <2> QED BY <2>3, <2>4, <2>5
<1>4. ASSUME NEW size \in Sizes, AddMessage(size) PROVE Accounted'
  <2> DEFINE m == [id |-> Len(sent) + 1, size |-> size]
  <2>1. m \in Message
    BY <1>4, MessageType DEF AddMessage
  <2>2. sent' = Append(sent, m) /\ (StartNext(m) \/ Collect(m))
    BY <1>4 DEF AddMessage
  <2> HIDE DEF m
  <2> QED BY <1>2, <1>3, <2>1, <2>2
<1>5. ASSUME Flush PROVE Accounted'
  <2>1. /\ pending' = <<>> /\ current_size' = 0 /\ sent' = sent
        /\ messages_batched' = messages_batched + Len(pending)
    BY <1>5 DEF Flush
  <2>2. Len(pending') = 0
    BY <2>1
  <2>3. messages_batched' + Len(pending') = Len(sent')
    BY <1>1, <2>1, <2>2
  <2>4. IsFiniteSet(BytesOf(pending')) /\ current_size' = Size(pending')
    BY <2>1, NoBytes
  <2> QED BY <2>3, <2>4 DEF Accounted, Accounting, Size, BytesOf
<1>6. ASSUME UNCHANGED <<batcher, sent>> PROVE Accounted'
  <2>1. pending' = pending /\ current_size' = current_size
        /\ messages_batched' = messages_batched /\ sent' = sent
    BY <1>6 DEF batcher
  <2> QED BY <1>1, <2>1 DEF Accounted, Accounting, Size, BytesOf
<1>7. ASSUME NEW k \in {1, 2}, NEW n, Read(k, n) PROVE Accounted'
  BY <1>6, <1>7 DEF Read
<1>8. ASSUME UNCHANGED vars PROVE Accounted'
  BY <1>6, <1>8 DEF vars
<1> QED BY <1>4, <1>5, <1>7, <1>8 DEF Next

\* current_size and messages_batched follow the messages through overflows, full
\* batches and flushes of nothing: no message is counted twice or missed, and
\* the size a batch is ended by is the size of its messages.
THEOREM CountersFollowMessages == Spec => []Accounting
<1>1. Init => TypeOK /\ Accounted
  BY InitAccounted
<1>2. TypeOK /\ Accounted /\ [Next]_vars => (TypeOK /\ Accounted)'
  BY TypeStep, AccountedStep
<1>3. TypeOK /\ Accounted => Accounting
  BY DEF Accounted
<1> QED BY <1>1, <1>2, <1>3, PTL DEF Spec

(***************************************************************************)
(* The batches: what they carry.                                           *)
(***************************************************************************)
\* What BatchesFit says of one batch.
Fits(batch) == Len(batch) > 1 => Size(batch) <= MaxBatchSize /\ Len(batch) <= MaxMessages

\* What is pending fits a batch, so that it may leave at any time.
LEMMA PendingFits ==
    ASSUME TypeOK, FullIsAlone, Accounted
    PROVE  Fits(pending)
<1>1. /\ current_size \in Nat /\ Len(pending) \in Nat /\ current_size = Size(pending)
      /\ MaxBatchSize \in Nat /\ MaxMessages \in Nat
  BY LimitAssumption DEF TypeOK, Accounted, Accounting
<1>2. Len(pending) > 1 => current_size < MaxBatchSize /\ Len(pending) < MaxMessages
  BY DEF FullIsAlone
<1> QED BY <1>1, <1>2 DEF Fits

\* So does what is pending with a message that does not overflow it.
LEMMA CollectedFits ==
    ASSUME TypeOK, Accounted, NEW m \in Message, ~ Overflows(m)
    PROVE  Fits(Append(pending, m))
<1> DEFINE batch == Append(pending, m)
<1>0. m.size \in Nat
  BY SizeAssumption DEF Message
<1>1. /\ pending \in Seq(Message) /\ Len(pending) \in Nat
      /\ MaxBatchSize \in Nat /\ MaxMessages \in Nat
      /\ current_size \in Nat /\ m.size \in Nat
  BY <1>0, LimitAssumption DEF TypeOK
<1>2. Len(batch) = Len(pending) + 1 /\ Size(batch) = current_size + m.size
  BY <1>1, AppendProperties, BytesAppended DEF Accounted, Accounting
<1> HIDE DEF batch
<1>3. CASE pending = <<>>
  <2>1. Len(batch) = 1
    BY <1>2, <1>3
  <2> QED BY <2>1 DEF Fits, batch
<1>4. CASE pending # <<>>
  <2>1. /\ ~ (current_size + m.size > MaxBatchSize) /\ ~ (Len(pending) >= MaxMessages)
    BY <1>4 DEF Overflows
  <2>2. Size(batch) <= MaxBatchSize /\ Len(batch) <= MaxMessages
    BY <1>1, <1>2, <2>1
  <2> QED BY <2>2 DEF Fits, batch
<1> QED BY <1>3, <1>4

\* A batch more on the link, or some less.
LEMMA LinkFits ==
    ASSUME TypeOK, BatchesFit
    PROVE  /\ \A batch : Fits(batch) /\ link' = Append(link, batch) => BatchesFit'
           /\ \A k \in {1, 2} :
                 k <= Len(link) /\ link' = SubSeq(link, k + 1, Len(link)) => BatchesFit'
           /\ link' = link => BatchesFit'
<1>1. link \in Seq(Seq(Message)) /\ Len(link) \in Nat
  BY DEF TypeOK
<1>2. \A i \in 1 .. Len(link) : Fits(link[i])
  BY <1>1 DEF BatchesFit, Fits
<1>3. ASSUME \A i \in DOMAIN link' : Fits(link'[i])
      PROVE  BatchesFit'
  BY <1>3 DEF BatchesFit, Fits, Size, BytesOf
<1>4. ASSUME NEW batch, Fits(batch), link' = Append(link, batch)
      PROVE  BatchesFit'
  <2> SUFFICES ASSUME NEW i \in DOMAIN link' PROVE Fits(link'[i])
    BY <1>3
  <2>1. /\ DOMAIN link' = 1 .. (Len(link) + 1) /\ link'[Len(link) + 1] = batch
        /\ \A j \in 1 .. Len(link) : link'[j] = link[j]
    BY <1>1, <1>4
  <2>2. i \in 1 .. Len(link) \/ i = Len(link) + 1
    BY <1>1, <2>1
  <2> QED BY <1>2, <1>4, <2>1, <2>2
<1>5. ASSUME NEW k \in {1, 2}, k <= Len(link), link' = SubSeq(link, k + 1, Len(link))
      PROVE  BatchesFit'
  <2> SUFFICES ASSUME NEW i \in DOMAIN link' PROVE Fits(link'[i])
    BY <1>3
  <2>1. /\ DOMAIN link' = 1 .. (Len(link) - k)
        /\ \A j \in 1 .. (Len(link) - k) : link'[j] = link[j + k]
    BY <1>1, <1>5
  <2>2. i + k \in 1 .. Len(link)
    BY <1>1, <1>5, <2>1
  <2> QED BY <1>2, <2>1, <2>2
<1>6. link' = link => BatchesFit'
  BY <1>2, <1>3 DEF Fits, BatchesFit
<1> QED BY <1>4, <1>5, <1>6

\* What a step puts on the link fits: with what is pending, or without.
LEMMA FitStep ==
    TypeOK /\ FullIsAlone /\ Accounted /\ BatchesFit /\ [Next]_vars => BatchesFit'
<1> SUFFICES ASSUME TypeOK, FullIsAlone, Accounted, BatchesFit, [Next]_vars PROVE BatchesFit'
  OBVIOUS
<1>1. ASSUME NEW size \in Sizes, AddMessage(size) PROVE BatchesFit'
  <2> DEFINE m == [id |-> Len(sent) + 1, size |-> size]
  <2>1. m \in Message
    BY <1>1, MessageType DEF AddMessage
  <2>2. StartNext(m) \/ (~ Overflows(m) /\ Collect(m))
    BY <1>1 DEF AddMessage
  <2> HIDE DEF m
  <2>3. CASE StartNext(m)
    BY <2>3, PendingFits, LinkFits DEF StartNext
  <2>4. CASE ~ Overflows(m) /\ Collect(m)
    <3>1. link' = Append(link, Append(pending, m)) \/ link' = link
      BY <2>4 DEF Collect
    <3> QED BY <2>1, <2>4, <3>1, CollectedFits, LinkFits
  <2> QED BY <2>2, <2>3, <2>4
<1>2. ASSUME Flush PROVE BatchesFit'
  BY <1>2, PendingFits, LinkFits DEF Flush
<1>3. ASSUME NEW k \in {1, 2}, NEW n, Read(k, n) PROVE BatchesFit'
  BY <1>3, LinkFits DEF Read
<1>4. ASSUME UNCHANGED vars PROVE BatchesFit'
  BY <1>4, LinkFits DEF vars
<1> QED BY <1>1, <1>2, <1>3, <1>4 DEF Next

\* A batch keeps to both limits unless it is one message, whatever ended it: a
\* message that did not fit, a limit that was reached, or a flush.  It takes the
\* two other invariants: flush looks at no limit, so what is pending must fit at
\* all times (FullIsAlone), by its messages and not only by current_size
\* (Accounting).
THEOREM BatchesKeepLimits == Spec => []BatchesFit
<1>1. Init => BatchesFit
  BY DEF Init, BatchesFit
<1>2. BatchesFit /\ TypeOK /\ FullIsAlone /\ Accounted /\ [Next]_vars => BatchesFit'
  BY FitStep
<1>3. Init => TypeOK /\ FullIsAlone /\ Accounted
  BY InitAccounted DEF Init, FullIsAlone
<1>4. TypeOK /\ FullIsAlone /\ Accounted /\ [Next]_vars => (TypeOK /\ FullIsAlone /\ Accounted)'
  BY TypeStep, FullStep, AccountedStep
<1> QED BY <1>1, <1>2, <1>3, <1>4, PTL DEF Spec

(***************************************************************************)
(* The stream: cut into batches, the messages that were given and not yet  *)
(* taken are on the link and pending, in their order.                      *)
(***************************************************************************)
\* A batch holds the given messages that follow the first `start` of them.
Continues(batch, start, given) ==
    /\ start + Len(batch) <= Len(given)
    /\ \A k \in 1 .. Len(batch) : batch[k] = given[start + k]

\* Where each batch starts, and what is pending.
Cut(start) ==
    /\ start \in [1 .. Len(link) + 1 -> Nat]
    /\ start[1] = taken
    /\ \A i \in 1 .. Len(link) :
          start[i + 1] = start[i] + Len(link[i]) /\ Continues(link[i], start[i], sent)
    /\ Continues(pending, start[Len(link) + 1], sent)
    /\ start[Len(link) + 1] + Len(pending) = Len(sent)

InStream == \E start : Cut(start)

\* The messages given are as many, or one more.
GivesOn == sent' = sent \/ (\E m \in Message : sent' = Append(sent, m))

\* What was given before stays where it was.
LEMMA ContinuesOn ==
    ASSUME TypeOK, GivesOn, NEW batch \in Seq(Message), NEW start \in Nat,
           Continues(batch, start, sent)
    PROVE  Continues(batch, start, sent')
<1>1. /\ sent \in Seq(Message) /\ Len(sent) \in Nat /\ Len(batch) \in Nat
      /\ start + Len(batch) <= Len(sent)
  BY DEF TypeOK, Continues
<1>2. CASE sent' = sent
  BY <1>2
<1>3. ASSUME NEW m \in Message, sent' = Append(sent, m) PROVE Continues(batch, start, sent')
  <2>1. Len(sent') = Len(sent) + 1 /\ \A k \in 1 .. Len(sent) : sent'[k] = sent[k]
    BY <1>1, <1>3, AppendProperties
  <2>2. ASSUME NEW k \in 1 .. Len(batch) PROVE batch[k] = sent'[start + k]
    <3>1. start + k \in 1 .. Len(sent)
      BY <1>1
    <3> QED BY <2>1, <3>1 DEF Continues
  <2>3. start + Len(batch) <= Len(sent')
    BY <1>1, <2>1
  <2> QED BY <2>2, <2>3 DEF Continues
<1> QED BY <1>2, <1>3 DEF GivesOn

\* The parts of what is cut.
LEMMA CutParts ==
    ASSUME TypeOK, NEW start, Cut(start)
    PROVE  /\ link \in Seq(Seq(Message)) /\ pending \in Seq(Message) /\ sent \in Seq(Message)
           /\ Len(link) \in Nat /\ Len(pending) \in Nat /\ Len(sent) \in Nat
           /\ \A i \in 1 .. Len(link) : link[i] \in Seq(Message) /\ Len(link[i]) \in Nat
           /\ \A i \in 1 .. Len(link) + 1 : start[i] \in Nat
<1>1. /\ link \in Seq(Seq(Message)) /\ pending \in Seq(Message) /\ sent \in Seq(Message)
      /\ Len(link) \in Nat /\ Len(pending) \in Nat /\ Len(sent) \in Nat
  BY DEF TypeOK
<1>2. \A i \in 1 .. Len(link) : link[i] \in Seq(Message)
  BY <1>1, ElementOfSeq
<1> QED BY <1>1, <1>2 DEF Cut

\* The batches on the link stay where they are in the stream.
LEMMA LinkStays ==
    ASSUME TypeOK, NEW start, Cut(start), GivesOn
    PROVE  \A i \in 1 .. Len(link) : Continues(link[i], start[i], sent')
<1> TAKE i \in 1 .. Len(link)
<1>1. link[i] \in Seq(Message) /\ start[i] \in Nat
  <2>1. i \in 1 .. Len(link) + 1
    BY CutParts
  <2> QED BY <2>1, CutParts
<1> QED BY <1>1, ContinuesOn DEF Cut

\* No batch leaves: a message is perhaps added to what is pending.
LEMMA PendingGrows ==
    ASSUME TypeOK, NEW start, Cut(start), GivesOn, link' = link, taken' = taken,
           Continues(pending', start[Len(link) + 1], sent'),
           start[Len(link) + 1] + Len(pending') = Len(sent')
    PROVE  InStream'
<1>1. \A i \in 1 .. Len(link) :
         start[i + 1] = start[i] + Len(link[i]) /\ Continues(link[i], start[i], sent')
  BY LinkStays DEF Cut
<1>2. Cut(start)'
  BY <1>1 DEF Cut
<1> QED BY <1>2 DEF InStream

\* A batch leaves: it continues the stream where the link ends, and what is
\* pending then continues it.
LEMMA BatchLeaves ==
    ASSUME TypeOK, NEW start, Cut(start), GivesOn, NEW batch \in Seq(Message),
           link' = Append(link, batch), taken' = taken,
           NEW next \in Nat, next = start[Len(link) + 1] + Len(batch),
           Continues(batch, start[Len(link) + 1], sent'),
           Continues(pending', next, sent'),
           next + Len(pending') = Len(sent')
    PROVE  InStream'
<1> DEFINE n == Len(link)
<1>1. link \in Seq(Seq(Message)) /\ n \in Nat /\ \A i \in 1 .. n + 1 : start[i] \in Nat
  BY CutParts
<1>2. /\ link' \in Seq(Seq(Message)) /\ Len(link') = n + 1
      /\ \A i \in 1 .. n : link'[i] = link[i]
      /\ link'[n + 1] = batch
  BY <1>1, AppendProperties
<1>3. PICK longer : longer = [i \in 1 .. n + 2 |-> IF i = n + 2 THEN next ELSE start[i]]
  OBVIOUS
<1>4. /\ \A i \in 1 .. n + 1 : longer[i] = start[i]
      /\ longer[n + 2] = next
  BY <1>1, <1>3
<1>5. longer \in [1 .. n + 2 -> Nat]
  <2>1. ASSUME NEW i \in 1 .. n + 2 PROVE (IF i = n + 2 THEN next ELSE start[i]) \in Nat
    <3>1. i = n + 2 \/ i \in 1 .. n + 1
      BY <1>1
    <3> QED BY <1>1, <3>1
  <2> QED BY <1>3, <2>1
<1>6. ASSUME NEW i \in 1 .. n + 1
      PROVE  /\ longer[i + 1] = longer[i] + Len(link'[i])
             /\ Continues(link'[i], longer[i], sent')
  <2>1. CASE i \in 1 .. n
    <3>1. i + 1 \in 1 .. n + 1
      BY <1>1, <2>1
    <3>2. start[i + 1] = start[i] + Len(link[i]) /\ Continues(link[i], start[i], sent')
      BY <2>1, LinkStays DEF Cut
    <3>3. longer[i + 1] = start[i + 1] /\ longer[i] = start[i] /\ link'[i] = link[i]
      BY <1>2, <1>4, <2>1, <3>1
    <3> QED BY <3>2, <3>3
  <2>2. CASE i = n + 1
    <3>1. longer[i] = start[n + 1] /\ longer[i + 1] = next /\ link'[i] = batch
      BY <1>1, <1>2, <1>4, <2>2
    <3> QED BY <3>1
  <2>3. i \in 1 .. n \/ i = n + 1
    BY <1>1
  <2> QED BY <2>1, <2>2, <2>3
<1>7. longer[1] = taken'
  BY <1>1, <1>4 DEF Cut
<1>8. Len(link') + 1 = n + 2
  BY <1>1, <1>2
<1> HIDE DEF n
<1>9. Cut(longer)'
  BY <1>2, <1>4, <1>5, <1>6, <1>7, <1>8 DEF Cut
<1> QED BY <1>9 DEF InStream

\* A message that is added ends the stream.
LEMMA AddInStream ==
    ASSUME TypeOK, InStream, NEW m \in Message, sent' = Append(sent, m), taken' = taken,
           StartNext(m) \/ Collect(m)
    PROVE  InStream'
<1>1. PICK start : Cut(start)
  BY DEF InStream
<1>2. GivesOn
  BY DEF GivesOn
<1>3. PICK end \in Nat : end = start[Len(link) + 1]
  <2>1. Len(link) + 1 \in 1 .. Len(link) + 1
    BY <1>1, CutParts
  <2> QED BY <1>1, <2>1, CutParts
<1>4. /\ pending \in Seq(Message) /\ Len(pending) \in Nat
      /\ sent \in Seq(Message) /\ Len(sent) \in Nat
      /\ Continues(pending, end, sent) /\ end + Len(pending) = Len(sent)
  BY <1>1, <1>3, CutParts DEF Cut
<1>5. Continues(pending, end, sent')
  BY <1>2, <1>4, ContinuesOn
<1>6. Len(sent') = Len(sent) + 1 /\ sent'[Len(sent) + 1] = m
  BY <1>4, AppendProperties
<1>7. CASE StartNext(m)
  <2>1. link' = Append(link, pending) /\ pending' = <<m>> /\ Len(<<m>>) = 1 /\ <<m>>[1] = m
    BY <1>7 DEF StartNext
  <2>2. Continues(<<m>>, Len(sent), sent')
    <3>1. \A k \in 1 .. 1 : k = 1
      OBVIOUS
    <3> QED BY <1>4, <1>6, <2>1, <3>1 DEF Continues
  <2>3. Len(sent) + Len(pending') = Len(sent')
    BY <1>4, <1>6, <2>1
  <2> QED BY <1>1, <1>2, <1>3, <1>4, <1>5, <2>1, <2>2, <2>3, BatchLeaves
<1>8. CASE Collect(m)
  <2> DEFINE batch == Append(pending, m)
  <2>1. /\ batch \in Seq(Message) /\ Len(batch) = Len(pending) + 1
        /\ batch[Len(pending) + 1] = m
        /\ \A k \in 1 .. Len(pending) : batch[k] = pending[k]
    BY <1>4, AppendProperties
  <2>2. \/ link' = Append(link, batch) /\ pending' = <<>>
        \/ link' = link /\ pending' = batch
    BY <1>8 DEF Collect
  <2> HIDE DEF batch
  <2>3. end + Len(batch) = Len(sent')
    <3>1. end + (Len(pending) + 1) = Len(sent) + 1
      BY <1>4
    <3> QED BY <1>6, <2>1, <3>1
  <2>4. ASSUME NEW k \in 1 .. Len(batch) PROVE batch[k] = sent'[end + k]
    <3>1. k \in 1 .. Len(pending) \/ k = Len(pending) + 1
      BY <1>4, <2>1
    <3>2. CASE k \in 1 .. Len(pending)
      BY <1>5, <2>1, <3>2 DEF Continues
    <3>3. CASE k = Len(pending) + 1
      <4>1. end + k = Len(sent) + 1
        BY <1>4, <3>3
      <4> QED BY <1>6, <2>1, <3>3, <4>1
    <3> QED BY <3>1, <3>2, <3>3
  <2>5. Len(batch) \in Nat /\ Len(sent') \in Nat
    BY <1>4, <1>6, <2>1
  <2>6. Continues(batch, end, sent')
    BY <2>3, <2>4, <2>5 DEF Continues
  <2>7. CASE link' = Append(link, batch) /\ pending' = <<>>
    <3>1. Continues(<<>>, Len(sent'), sent') /\ Len(sent') + Len(pending') = Len(sent')
      BY <2>5, <2>7 DEF Continues
    <3> QED BY <1>1, <1>2, <1>3, <2>1, <2>3, <2>5, <2>6, <2>7, <3>1, BatchLeaves
  <2>8. CASE link' = link /\ pending' = batch
    BY <1>1, <1>2, <1>3, <2>3, <2>6, <2>8, PendingGrows
  <2> QED BY <2>2, <2>7, <2>8
<1> QED BY <1>7, <1>8

\* A flush cuts the stream where it ends.
LEMMA FlushInStream ==
    ASSUME TypeOK, InStream, Flush
    PROVE  InStream'
<1>1. PICK start : Cut(start)
  BY DEF InStream
<1>2. /\ link' = Append(link, pending) /\ pending' = <<>> /\ sent' = sent /\ taken' = taken
  BY DEF Flush
<1>3. PICK end \in Nat : end = start[Len(link) + 1]
  <2>1. Len(link) + 1 \in 1 .. Len(link) + 1
    BY <1>1, CutParts
  <2> QED BY <1>1, <2>1, CutParts
<1>4. /\ pending \in Seq(Message) /\ Len(pending) \in Nat /\ Len(sent) \in Nat
      /\ Continues(pending, end, sent) /\ end + Len(pending) = Len(sent)
  BY <1>1, <1>3, CutParts DEF Cut
<1>5. Continues(<<>>, Len(sent), sent) /\ Len(sent) + Len(pending') = Len(sent)
  BY <1>2, <1>4 DEF Continues
<1> QED BY <1>1, <1>2, <1>3, <1>4, <1>5, BatchLeaves DEF GivesOn

\* A batch is a section of the stream.
LEMMA Section ==
    ASSUME NEW given \in Seq(Message), NEW batch \in Seq(Message), NEW start \in Nat,
           Continues(batch, start, given)
    PROVE  /\ batch = SubSeq(given, start + 1, start + Len(batch))
           /\ start + Len(batch) \in start .. Len(given)
<1>1. Len(given) \in Nat /\ Len(batch) \in Nat /\ start + Len(batch) <= Len(given)
  BY DEF Continues
<1>2. SubSeq(given, start + 1, start + Len(batch)) \in Seq(Message)
  BY <1>1
<1>3. /\ Len(SubSeq(given, start + 1, start + Len(batch))) = Len(batch)
      /\ \A k \in 1 .. Len(batch) :
            SubSeq(given, start + 1, start + Len(batch))[k] = given[start + k]
  BY <1>1
<1>4. \A k \in 1 .. Len(batch) : batch[k] = given[start + k]
  BY DEF Continues
<1>5. batch = SubSeq(given, start + 1, start + Len(batch))
  BY <1>2, <1>3, <1>4, SeqEqual
<1> QED BY <1>1, <1>5

\* The bytes of a batch are finitely many.
LEMMA BytesFinite == ASSUME NEW batch \in Seq(Message) PROVE IsFiniteSet(BytesOf(batch))
<1> DEFINE f == [i \in 1 .. Len(batch) |-> {i} \X (1 .. batch[i].size)]
           T == {{i} \X (1 .. batch[i].size) : i \in 1 .. Len(batch)}
<1>1. DOMAIN batch = 1 .. Len(batch) /\ Len(batch) \in Nat
  OBVIOUS
<1>2. f \in [1 .. Len(batch) -> T] /\ \A x \in T : \E i \in 1 .. Len(batch) : f[i] = x
  OBVIOUS
<1>3. IsFiniteSet(T)
  <2>1. IsFiniteSet(1 .. Len(batch))
    BY <1>1, FS_Interval
  <2>2. f \in Surjection(1 .. Len(batch), T)
    BY <1>2 DEF Surjection
  <2> HIDE DEF f, T
  <2> QED BY <2>1, <2>2, FS_Surjection
<1>4. ASSUME NEW i \in 1 .. Len(batch) PROVE IsFiniteSet({i} \X (1 .. batch[i].size))
  <2>1. batch[i] \in Message
    BY ElementOfSeq
  <2>2. batch[i].size \in Sizes
    BY <2>1 DEF Message
  <2>3. PICK size \in Nat : size = batch[i].size
    BY <2>2, SizeAssumption
  <2>4. IsFiniteSet({i})
    BY FS_Singleton
  <2>5. IsFiniteSet(1 .. size)
    <3>1. 1 \in Int /\ size \in Int
      OBVIOUS
    <3> QED BY <3>1, FS_Interval
  <2> QED BY <2>3, <2>4, <2>5, FS_Product
<1>5. \A t \in T : IsFiniteSet(t)
  BY <1>4
<1>6. BytesOf(batch) = UNION T
  BY <1>1 DEF BytesOf
<1> HIDE DEF T
<1> QED BY <1>3, <1>5, <1>6, FS_UNION

\* The first messages of a batch have no more bytes than all of them.
LEMMA BytesOfFirst ==
    ASSUME NEW batch \in Seq(Message), NEW i \in 0 .. Len(batch)
    PROVE  /\ Size(SubSeq(batch, 1, i)) \in Nat /\ Size(batch) \in Nat
           /\ Size(SubSeq(batch, 1, i)) <= Size(batch)
<1> DEFINE some == SubSeq(batch, 1, i)
<1>1. /\ some \in Seq(Message) /\ DOMAIN some = 1 .. i /\ DOMAIN batch = 1 .. Len(batch)
      /\ \A k \in 1 .. i : some[k] = batch[k] /\ k \in 1 .. Len(batch)
  OBVIOUS
<1> HIDE DEF some
<1>2. ASSUME NEW b \in BytesOf(some) PROVE b \in BytesOf(batch)
  <2>1. PICK k, n : b = <<k, n>>
    BY BytesElements
  <2>2. k \in 1 .. i /\ n \in 1 .. some[k].size
    BY <1>1, <1>2, <2>1, BytesElements
  <2>3. k \in DOMAIN batch /\ n \in 1 .. batch[k].size
    BY <1>1, <2>2
  <2> QED BY <2>1, <2>3, BytesElements
<1>3. IsFiniteSet(BytesOf(batch)) /\ BytesOf(some) \in SUBSET BytesOf(batch)
  BY <1>2, BytesFinite
<1>4. /\ IsFiniteSet(BytesOf(some))
      /\ Cardinality(BytesOf(some)) <= Cardinality(BytesOf(batch))
  BY <1>3, FS_Subset
<1> QED BY <1>3, <1>4, FS_CardinalityType DEF Size, some

\* unbatch finds every message of a buffer that holds one batch, whole.
LEMMA WholeUnbatches ==
    ASSUME NEW batch \in Seq(Message), batch # <<>>
    PROVE  Unbatches(batch, Bytes(batch))
<1>1. PICK length \in Nat : length = Len(batch)
  OBVIOUS
<1>2. SubSeq(batch, 1, length) = batch
  BY <1>1
<1>3. PICK all \in Nat : all = Size(batch)
  <2>1. 0 \in 0 .. Len(batch)
    OBVIOUS
  <2> QED BY <2>1, BytesOfFirst
<1>4. Bytes(batch) = 4 + 4 * length + all
  BY <1>1, <1>2, <1>3 DEF Bytes, End
<1>5. ASSUME NEW i \in 1 .. length
      PROVE  End(batch, i - 1) + 4 <= Bytes(batch) /\ End(batch, i) <= Bytes(batch)
  <2>1. i - 1 \in 0 .. Len(batch) /\ i \in 0 .. Len(batch)
    BY <1>1
  <2>2. PICK before \in Nat : before = Size(SubSeq(batch, 1, i - 1)) /\ before <= all
    BY <1>3, <2>1, BytesOfFirst
  <2>3. PICK upto \in Nat : upto = Size(SubSeq(batch, 1, i)) /\ upto <= all
    BY <1>3, <2>1, BytesOfFirst
  <2>4. End(batch, i - 1) = 4 + 4 * (i - 1) + before /\ End(batch, i) = 4 + 4 * i + upto
    BY <2>2, <2>3 DEF End
  <2> QED BY <1>1, <1>4, <2>2, <2>3, <2>4
<1> QED BY <1>1, <1>4, <1>5 DEF Unbatches

\* A read that finds one batch, whole, hands on what it takes.
LEMMA WholeHandsOn ==
    ASSUME TypeOK, NEW k \in {1, 2}, NEW n, Read(k, n), whole'
    PROVE  /\ link[1] \in Seq(Message) /\ k = 1
           /\ received' = received \o link[1]
<1>1. k = 1 /\ n = Bytes(link[1]) /\ 1 <= Len(link)
  BY DEF Read
<1>2. link[1] \in Seq(Message)
  <2>1. link \in Seq(Seq(Message)) /\ 1 \in 1 .. Len(link)
    BY <1>1 DEF TypeOK
  <2> QED BY <2>1, ElementOfSeq
<1>3. First(1) = link[1]
  BY DEF First
<1>4. received' = IF Unbatches(link[1], Bytes(link[1])) THEN received \o link[1] ELSE received
  BY <1>1, <1>3 DEF Read
<1>5. CASE link[1] = <<>>
  <2>1. received \o <<>> = received
    BY DEF TypeOK
  <2> QED BY <1>1, <1>2, <1>4, <1>5, <2>1
<1>6. CASE link[1] # <<>>
  BY <1>1, <1>2, <1>4, <1>6, WholeUnbatches
<1> QED BY <1>5, <1>6

\* A read takes the next messages of the stream, and hands on those of the first
\* batch that has any bytes, or none: all of them, if it finds one batch, whole.
LEMMA ReadTakes ==
    ASSUME TypeOK, NEW start, Cut(start), NEW k \in {1, 2}, NEW n, Read(k, n)
    PROVE  /\ taken' = start[k + 1] /\ taken' \in taken .. Len(sent) /\ sent' = sent
           /\ whole' \in BOOLEAN
           /\ \E good \in taken .. taken' :
                 /\ whole' => good = taken'
                 /\ received' = received \o SubSeq(sent, taken + 1, good)
<1>1. /\ k <= Len(link) /\ sent' = sent
      /\ taken' = taken + Len(link[1]) + (IF k = 2 THEN Len(link[2]) ELSE 0)
      /\ received' = received \o First(k) \/ received' = received
  BY DEF Read
<1>2. /\ 1 \in 1 .. Len(link) /\ (k = 2 => 2 \in 1 .. Len(link))
      /\ 1 \in 1 .. Len(link) + 1 /\ 2 \in 1 .. Len(link) + 1
      /\ (k = 2 => 3 \in 1 .. Len(link) + 1)
  BY <1>1, CutParts
<1>3. PICK one \in Seq(Message) : one = link[1]
  BY <1>2, CutParts
<1>4. PICK two \in Seq(Message) : k = 2 => two = link[2]
  BY <1>2, CutParts
<1>5. PICK s1 \in Nat, s2 \in Nat : s1 = start[1] /\ s2 = start[2]
  BY <1>2, CutParts
<1>6. /\ s1 = taken /\ s2 = s1 + Len(one) /\ Continues(one, s1, sent)
  BY <1>2, <1>3, <1>5 DEF Cut
<1>7. k = 2 => start[3] = s2 + Len(two) /\ Continues(two, s2, sent)
  BY <1>2, <1>4, <1>5 DEF Cut
<1>8. /\ sent \in Seq(Message) /\ received \in Seq(Message)
      /\ Len(sent) \in Nat /\ Len(one) \in Nat /\ Len(two) \in Nat
  BY DEF TypeOK
<1>9. /\ one = SubSeq(sent, s1 + 1, s1 + Len(one)) /\ s1 + Len(one) <= Len(sent)
  BY <1>6, <1>8, Section
<1>10. k = 2 => /\ two = SubSeq(sent, s2 + 1, s2 + Len(two)) /\ s2 + Len(two) <= Len(sent)
  BY <1>7, <1>8, Section
<1>11. taken' = start[k + 1] /\ (k = 1 => taken' = s2) /\ (k = 2 => taken' = s2 + Len(two))
  <2>1. CASE k = 1
    <3>0. k + 1 = 2 /\ k # 2
      BY <2>1
    <3>1. taken' = s1 + Len(one) + 0 /\ start[k + 1] = s2
      <4>1. (IF k = 2 THEN Len(link[2]) ELSE 0) = 0
        BY <3>0
      <4>2. taken' = taken + Len(link[1]) + 0
        BY <1>1, <4>1
      <4> QED BY <1>3, <1>5, <1>6, <3>0, <4>2
    <3>2. s1 + Len(one) + 0 = s2
      BY <1>6, <1>8
    <3> QED BY <2>1, <3>1, <3>2
  <2>2. CASE k = 2
    <3>1. taken' = s1 + Len(one) + Len(two)
      BY <1>1, <1>3, <1>4, <1>6, <1>8, <2>2
    <3>2. start[k + 1] = s1 + Len(one) + Len(two)
      BY <1>6, <1>7, <2>2
    <3> QED BY <1>6, <2>2, <3>1, <3>2
  <2> QED BY <2>1, <2>2
<1>12. PICK after \in Nat : after = taken'
  BY <1>6, <1>8, <1>11
<1>13. after \in s1 .. Len(sent)
  BY <1>6, <1>8, <1>9, <1>10, <1>11, <1>12
<1>15. ASSUME whole' PROVE received' = received \o SubSeq(sent, s1 + 1, after)
  <2>1. k = 1 /\ received' = received \o one
    BY <1>3, <1>15, WholeHandsOn
  <2>2. after = s1 + Len(one)
    BY <1>6, <1>11, <1>12, <2>1
  <2> QED BY <1>9, <2>1, <2>2
<1>14. \E good \in s1 .. after : received' = received \o SubSeq(sent, s1 + 1, good)
  <2>1. CASE received' = received
    <3>1. SubSeq(sent, s1 + 1, s1) = <<>>
      BY <1>8
    <3>2. received \o <<>> = received
      BY <1>8
    <3>3. s1 \in s1 .. after
      BY <1>13
    <3>4. received' = received \o SubSeq(sent, s1 + 1, s1)
      BY <2>1, <3>1, <3>2
    <3> QED BY <3>3, <3>4
  <2>2. CASE received' = received \o First(k)
    <3>1. CASE First(k) = one
      <4>1. s1 + Len(one) \in s1 .. after
        BY <1>6, <1>8, <1>11, <1>12
      <4>2. PICK good \in s1 .. after : good = s1 + Len(one)
        BY <4>1
      <4>3. received' = received \o SubSeq(sent, s1 + 1, good)
        BY <1>9, <2>2, <3>1, <4>2
      <4> QED BY <4>2, <4>3
    <3>2. CASE k = 2 /\ one = <<>> /\ First(k) = two
      <4>1. Len(one) = 0
        BY <3>2
      <4>2. s2 = s1 /\ s1 + Len(two) \in s1 .. after
        BY <1>6, <1>8, <1>11, <1>12, <3>2, <4>1
      <4>3. PICK good \in s1 .. after : good = s1 + Len(two)
        BY <4>2
      <4>4. received' = received \o SubSeq(sent, s1 + 1, good)
        BY <1>10, <2>2, <3>2, <4>2, <4>3
      <4> QED BY <4>3, <4>4
    <3>3. First(k) = one \/ (k = 2 /\ one = <<>> /\ First(k) = two)
      BY <1>3, <1>4 DEF First
    <3> QED BY <3>1, <3>2, <3>3
  <2> QED BY <1>1, <2>1, <2>2
<1>16. whole' \in BOOLEAN
  BY DEF Read
<1>17. \E good \in s1 .. after :
          /\ whole' => good = after
          /\ received' = received \o SubSeq(sent, s1 + 1, good)
  <2>1. CASE whole'
    <3>1. after \in s1 .. after
      BY <1>13
    <3> QED BY <1>15, <2>1, <3>1
  <2>2. CASE ~ whole'
    BY <1>14, <2>2
  <2> QED BY <2>1, <2>2
<1> QED BY <1>1, <1>6, <1>11, <1>12, <1>13, <1>16, <1>17

\* A read takes its batches off the front of the link.
LEMMA ReadInStream ==
    ASSUME TypeOK, NEW start, Cut(start), NEW k \in {1, 2}, NEW n, Read(k, n)
    PROVE  InStream'
<1>1. /\ k \in Nat /\ k <= Len(link) /\ link' = SubSeq(link, k + 1, Len(link))
      /\ pending' = pending /\ sent' = sent
  BY DEF Read, batcher
<1>2. taken' = start[k + 1]
  BY ReadTakes
<1>3. /\ link \in Seq(Seq(Message)) /\ Len(link) \in Nat
      /\ \A i \in 1 .. Len(link) + 1 : start[i] \in Nat
  BY CutParts
<1>4. PICK left \in Nat : left = Len(link) - k
  <2>1. Len(link) - k \in Nat
    BY <1>1, <1>3
  <2> QED BY <2>1
<1>5. /\ link' \in Seq(Seq(Message)) /\ Len(link') = left
      /\ \A i \in 1 .. left : link'[i] = link[i + k]
  BY <1>1, <1>3, <1>4
<1>6. PICK rest : rest = [i \in 1 .. left + 1 |-> start[i + k]]
  OBVIOUS
<1>7. \A i \in 1 .. left + 1 : i + k \in 1 .. Len(link) + 1 /\ rest[i] = start[i + k]
  BY <1>1, <1>3, <1>4, <1>6
<1>8. rest \in [1 .. left + 1 -> Nat]
  BY <1>3, <1>6, <1>7
<1>9. rest[1] = taken' /\ rest[left + 1] = start[Len(link) + 1]
  <2>1. 1 \in 1 .. left + 1 /\ left + 1 \in 1 .. left + 1 /\ left + 1 + k = Len(link) + 1
        /\ 1 + k = k + 1
    BY <1>1, <1>3, <1>4
  <2> QED BY <1>2, <1>7, <2>1
<1>10. ASSUME NEW i \in 1 .. left
       PROVE  /\ rest[i + 1] = rest[i] + Len(link'[i])
              /\ Continues(link'[i], rest[i], sent')
  <2>1. /\ i \in 1 .. left + 1 /\ i + 1 \in 1 .. left + 1 /\ i + k \in 1 .. Len(link)
        /\ (i + 1) + k = (i + k) + 1
    BY <1>1, <1>3, <1>4
  <2>2. rest[i] = start[i + k] /\ rest[i + 1] = start[(i + k) + 1] /\ link'[i] = link[i + k]
    BY <1>5, <1>7, <2>1
  <2>3. /\ start[(i + k) + 1] = start[i + k] + Len(link[i + k])
        /\ Continues(link[i + k], start[i + k], sent)
    BY <2>1 DEF Cut
  <2> QED BY <1>1, <2>2, <2>3
<1>11. /\ Continues(pending, start[Len(link) + 1], sent)
       /\ start[Len(link) + 1] + Len(pending) = Len(sent)
  BY DEF Cut
<1>12. Cut(rest)'
  BY <1>1, <1>5, <1>8, <1>9, <1>10, <1>11 DEF Cut
<1> QED BY <1>12 DEF InStream

\* Every step keeps the messages in one stream, and is a step of it.
LEMMA StreamStep ==
    TypeOK /\ InStream /\ [Next]_vars
       => InStream' /\ [Stream!Give \/ Stream!Take]_(Stream!vars)
<1> SUFFICES ASSUME TypeOK, InStream, [Next]_vars
             PROVE  InStream' /\ [Stream!Give \/ Stream!Take]_(Stream!vars)
  OBVIOUS
<1>1. PICK start : Cut(start)
  BY DEF InStream
<1>2. ASSUME NEW size \in Sizes, AddMessage(size)
      PROVE  InStream' /\ Stream!Give
  <2> DEFINE m == [id |-> Len(sent) + 1, size |-> size]
  <2>1. m \in Message
    BY <1>2, MessageType DEF AddMessage
  <2>2. /\ sent' = Append(sent, m) /\ received' = received /\ taken' = taken /\ whole' = whole
        /\ StartNext(m) \/ Collect(m)
    BY <1>2 DEF AddMessage
  <2> HIDE DEF m
  <2>3. InStream'
    BY <2>1, <2>2, AddInStream
  <2>4. Stream!Give
    BY <2>1, <2>2 DEF Stream!Give
  <2> QED BY <2>3, <2>4
<1>3. ASSUME Flush PROVE InStream' /\ UNCHANGED Stream!vars
  <2>1. UNCHANGED Stream!vars
    BY <1>3 DEF Flush, Stream!vars
  <2> QED BY <1>3, <2>1, FlushInStream
<1>4. ASSUME NEW k \in {1, 2}, NEW n, Read(k, n) PROVE InStream' /\ Stream!Take
  <2>1. InStream'
    BY <1>1, <1>4, ReadInStream
  <2>2. /\ taken' \in taken .. Len(sent) /\ sent' = sent /\ whole' \in BOOLEAN
        /\ \E good \in taken .. taken' :
              /\ whole' => good = taken'
              /\ received' = received \o SubSeq(sent, taken + 1, good)
    BY <1>1, <1>4, ReadTakes
  <2>3. taken \in Nat /\ Len(sent) \in Nat
    BY DEF TypeOK
  <2>4. PICK all \in taken .. Len(sent) : all = taken'
    BY <2>2
  <2>5. PICK good \in taken .. all :
           (whole' => good = all) /\ received' = received \o SubSeq(sent, taken + 1, good)
    BY <2>2, <2>4
  <2>6. good \in taken .. Len(sent) /\ good <= all
    BY <2>3, <2>4, <2>5
  <2>7. Stream!Take
    BY <2>2, <2>4, <2>5, <2>6 DEF Stream!Take
  <2> QED BY <2>1, <2>7
<1>5. ASSUME UNCHANGED vars PROVE InStream' /\ UNCHANGED Stream!vars
  <2>1. Cut(start)'
    BY <1>1, <1>5 DEF Cut, vars, batcher
  <2> QED BY <1>5, <2>1 DEF InStream, vars, Stream!vars
<1> QED BY <1>2, <1>3, <1>4, <1>5 DEF Next

\* Batching implements the stream: messages come out in the order they were
\* given, each at most once, however they were gathered into batches, and none is
\* lost but by a read whose buffer is cut short or holds two batches.  Such a read
\* hands on no message of its own, or those of its first batch; the reads after it
\* lose nothing through it.
THEOREM BatchingIsStream == Spec => InOrder
<1>1. Init => TypeOK /\ InStream /\ Stream!Init
  <2> SUFFICES ASSUME Init PROVE TypeOK /\ InStream /\ Stream!Init
    OBVIOUS
  <2>1. TypeOK /\ Stream!Init
    BY DEF Init, TypeOK, Stream!Init
  <2>2. /\ link = <<>> /\ pending = <<>> /\ sent = <<>> /\ taken = 0
    BY DEF Init
  <2>3. Len(link) = 0 /\ Len(pending) = 0 /\ Len(sent) = 0
    BY <2>2
  <2>4. PICK start : start = [i \in 1 .. 1 |-> 0]
    OBVIOUS
  <2>5. start \in [1 .. Len(link) + 1 -> Nat] /\ start[1] = 0 /\ start[Len(link) + 1] = 0
    BY <2>3, <2>4
  <2>6. Continues(pending, 0, sent)
    BY <2>2, <2>3 DEF Continues
  <2>7. Cut(start)
    BY <2>2, <2>3, <2>5, <2>6 DEF Cut
  <2> QED BY <2>1, <2>7 DEF InStream
<1>2. TypeOK /\ InStream /\ [Next]_vars
        => (TypeOK /\ InStream)' /\ [Stream!Give \/ Stream!Take]_(Stream!vars)
  BY TypeStep, StreamStep
<1> QED BY <1>1, <1>2, PTL DEF Spec, InOrder, Stream!Spec
=============================================================================

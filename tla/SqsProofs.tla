----------------------------- MODULE SqsProofs -----------------------------
(***************************************************************************)
(* The consumers of the queue, for any messages, groups, consumers, batch  *)
(* size, receive limit and number of mishaps: type correctness, no message *)
(* is deleted undecided, and no good message is worn out without mishaps.  *)
(***************************************************************************)
EXTENDS SqsConsumer, TLAPS, FiniteSetTheorems, SequenceTheorems

States == {"idle", "handle", "bury", "delete"}
Good == Messages \ (Poison \cup Doomed)

-----------------------------------------------------------------------------
(* The queue and the batches.                                              *)

\* Taking a message out of the queue leaves the others in it, once each.
LEMMA WithoutOne ==
  ASSUME TypeOK, NEW m \in Messages,
         \A i, j \in DOMAIN queue : queue[i] = queue[j] => i = j
  PROVE  /\ Without(m) \in Seq(Messages)
         /\ {Without(m)[i] : i \in DOMAIN Without(m)} = Queued \ {m}
         /\ \A i, j \in DOMAIN Without(m) : Without(m)[i] = Without(m)[j] => i = j
<1>1. queue \in Seq(Messages) /\ Len(queue) \in Nat /\ DOMAIN queue = 1..Len(queue)
  BY LenProperties DEF TypeOK
<1>2. CASE m \notin Queued
  BY <1>1, <1>2 DEF Without, Queued
<1>3. CASE m \in Queued
  <2> DEFINE k == Place(m)
             n == Len(queue)
             before == SubSeq(queue, 1, k - 1)
             after == SubSeq(queue, k + 1, n)
  <2>1. k \in 1..n /\ queue[k] = m
    <3>1. \E i \in DOMAIN queue : queue[i] = m
      BY <1>3 DEF Queued
    <3>2. QED BY <1>1, <3>1 DEF Place
  <2>2. Without(m) = before \o after
    BY <1>3 DEF Without
  <2> HIDE DEF k
  <2>3. \A i \in 1..n : queue[i] \in Messages
    BY <1>1, ElementOfSeq
  <2>4. /\ before \in Seq(Messages) /\ Len(before) = k - 1
        /\ \A i \in 1..(k - 1) : before[i] = queue[i]
    BY <1>1, <2>1, <2>3, SubSeqProperties
  <2>5. /\ after \in Seq(Messages) /\ Len(after) = n - k
        /\ \A i \in 1..(n - k) : after[i] = queue[i + k]
    <3>1. \A i \in (k + 1)..n : queue[i] \in Messages
      BY <1>1, <2>1, <2>3
    <3>2. k + 1 \in Int /\ n \in Int
      BY <1>1, <2>1
    <3>3. /\ after \in Seq(Messages)
          /\ Len(after) = IF k + 1 <= n THEN n - (k + 1) + 1 ELSE 0
          /\ \A i \in 1..(n - (k + 1) + 1) : after[i] = queue[(k + 1) + i - 1]
      BY <3>1, <3>2, SubSeqProperties
    <3> HIDE DEF after
    <3>4. Len(after) = n - k
      <4>1. n \in Nat /\ k \in Nat /\ k <= n
        BY <1>1, <2>1
      <4>2. Len(after) = IF k + 1 <= n THEN n - (k + 1) + 1 ELSE 0
        BY <3>3
      <4> HIDE DEF n
      <4>3. QED BY <4>1, <4>2
    <3>5. ASSUME NEW i \in 1..(n - k) PROVE after[i] = queue[i + k]
      <4>1. i \in 1..(n - (k + 1) + 1) /\ (k + 1) + i - 1 = i + k
        BY <1>1, <2>1
      <4>2. QED BY <3>3, <4>1
    <3>6. QED BY <3>3, <3>4, <3>5
  <2> DEFINE w == before \o after
  <2> HIDE DEF before, after
  <2>6. /\ w \in Seq(Messages) /\ Len(w) = n - 1 /\ DOMAIN w = 1..(n - 1)
        /\ \A i \in 1..(n - 1) : w[i] = IF i < k THEN queue[i] ELSE queue[i + 1]
    <3>1. w \in Seq(Messages) /\ Len(w) = n - 1
      <4>1. w \in Seq(Messages) /\ Len(w) = Len(before) + Len(after)
        BY <2>4, <2>5, ConcatProperties
      <4>2. QED BY <1>1, <2>1, <2>4, <2>5, <4>1
    <3>2. DOMAIN w = 1..(n - 1)
      BY <3>1, LenProperties
    <3>3. ASSUME NEW i \in 1..(n - 1)
          PROVE  w[i] = IF i < k THEN queue[i] ELSE queue[i + 1]
      <4>1. w[i] = IF i <= k - 1 THEN before[i] ELSE after[i - (k - 1)]
        BY <1>1, <2>1, <2>4, <2>5, ConcatProperties
      <4>2. CASE i < k
        BY <1>1, <2>1, <2>4, <4>1, <4>2
      <4>3. CASE ~ i < k
        <5>1. i - (k - 1) \in 1..(n - k) /\ (i - (k - 1)) + k = i + 1
          BY <1>1, <2>1, <4>3
        <5>2. QED BY <1>1, <2>1, <2>5, <4>1, <4>3, <5>1
      <4>4. QED BY <4>2, <4>3
    <3>4. QED BY <3>1, <3>2, <3>3
  <2> HIDE DEF w
  <2>7. \A i, j \in 1..(n - 1) : w[i] = w[j] => i = j
    BY <1>1, <2>1, <2>6
  <2>8. ASSUME NEW i \in 1..(n - 1) PROVE w[i] \in Queued \ {m}
    <3>1. CASE i < k
      BY <1>1, <2>1, <2>6, <3>1 DEF Queued
    <3>2. CASE ~ i < k
      BY <1>1, <2>1, <2>6, <3>2 DEF Queued
    <3>3. QED BY <3>1, <3>2
  <2>9. ASSUME NEW x \in Queued \ {m} PROVE \E i \in 1..(n - 1) : w[i] = x
    <3>1. PICK i \in 1..n : queue[i] = x
      BY <1>1 DEF Queued
    <3>2. i # k
      BY <2>1, <3>1
    <3>3. CASE i < k
      BY <1>1, <2>1, <2>6, <3>1, <3>3
    <3>4. CASE i > k
      <4>1. i - 1 \in 1..(n - 1) /\ ~ (i - 1 < k) /\ (i - 1) + 1 = i
        BY <1>1, <2>1, <3>4
      <4>2. w[i - 1] = x
        BY <2>6, <3>1, <4>1
      <4>3. QED BY <4>1, <4>2
    <3>5. QED BY <1>1, <2>1, <3>2, <3>3, <3>4
  <2>10. {w[i] : i \in DOMAIN w} = Queued \ {m}
    <3>1. DOMAIN w = 1..(n - 1)
      BY <2>6
    <3>2. {w[i] : i \in 1..(n - 1)} = Queued \ {m}
      BY <2>8, <2>9
    <3>3. QED BY <3>1, <3>2
  <2>11. Without(m) = w
    BY <2>2 DEF w
  <2>12. QED BY <2>6, <2>7, <2>10, <2>11
<1>4. QED BY <1>2, <1>3

\* What ends the work on the head of a batch: the rest of it moves up.
LEMMA AdvanceShift ==
  ASSUME TypeOK, NEW c \in Consumers, batch[c] # <<>>, Advance(c)
  PROVE  /\ Current(c) \in Messages /\ Current(c) = batch[c][1].msg
         /\ Head(batch[c]) = batch[c][1]
         /\ Len(batch[c]) \in Nat \ {0} /\ DOMAIN batch[c] = 1..Len(batch[c])
         /\ batch' \in [Consumers -> Seq(Receipt)]
         /\ DOMAIN batch'[c] = 1..(Len(batch[c]) - 1)
         /\ \A k \in DOMAIN batch'[c] : batch'[c][k] = batch[c][k + 1]
         /\ pc' \in [Consumers -> States]
         /\ pc'[c] \in {"idle", "handle"}
         /\ pc'[c] = "idle" <=> batch'[c] = <<>>
         /\ \A d \in Consumers \ {c} : batch'[d] = batch[d] /\ pc'[d] = pc[d]
<1> DEFINE s == batch[c]
<1>1. s \in Seq(Receipt) /\ s # <<>>
  BY DEF TypeOK
<1>2. /\ Head(s) \in Receipt /\ Tail(s) \in Seq(Receipt) /\ Len(Tail(s)) = Len(s) - 1
      /\ \A k \in 1..Len(Tail(s)) : Tail(s)[k] = s[k + 1]
  BY <1>1, HeadTailProperties
<1>3. Len(s) \in Nat \ {0} /\ DOMAIN s = 1..Len(s) /\ Head(s) = s[1]
  BY <1>1, EmptySeq, LenProperties
<1>4. Current(c) \in Messages /\ Current(c) = s[1].msg
  BY <1>2, <1>3 DEF Current, Receipt
<1>5. batch' = [batch EXCEPT ![c] = Tail(s)] /\ batch'[c] = Tail(s)
  BY DEF Advance, TypeOK
<1>6. /\ batch' \in [Consumers -> Seq(Receipt)]
      /\ DOMAIN batch'[c] = 1..(Len(s) - 1)
      /\ \A k \in DOMAIN batch'[c] : batch'[c][k] = s[k + 1]
      /\ \A d \in Consumers \ {c} : batch'[d] = batch[d]
  BY <1>2, <1>5, LenProperties DEF TypeOK
<1>7. Tail(s) = <<>> <=> Len(s) = 1
  <2>1. Tail(s) = <<>> <=> Len(Tail(s)) = 0
    BY <1>2, EmptySeq
  <2>2. QED BY <1>2, <1>3, <2>1
<1>8. pc' = [pc EXCEPT ![c] = IF Len(s) = 1 THEN "idle" ELSE "handle"]
  BY DEF Advance
<1>9. /\ pc' \in [Consumers -> States]
      /\ pc'[c] \in {"idle", "handle"}
      /\ pc'[c] = "idle" <=> batch'[c] = <<>>
      /\ \A d \in Consumers \ {c} : pc'[d] = pc[d]
  BY <1>5, <1>7, <1>8 DEF TypeOK, States
<1>10. QED BY <1>3, <1>4, <1>6, <1>9

\* What Receive(c) does when it takes the messages S from the queue.
Takes(c, S) ==
  LET receipts == {batch'[c][i] : i \in DOMAIN batch'[c]} IN
  /\ S \subseteq Queued
  /\ \A m \in S : /\ receives[m] < MaxReceives
                  /\ \A n \in inflight : GroupOf[n] # GroupOf[m]
  /\ inflight' = inflight \cup S
  /\ receives' = [m \in Messages |-> IF m \in S THEN receives[m] + 1 ELSE receives[m]]
  /\ batch' \in [Consumers -> Seq(Receipt)]
  /\ batch'[c] # <<>>
  /\ receipts = {[msg |-> m, receive |-> receives[m] + 1] : m \in S}
  /\ \A d \in Consumers \ {c} : batch'[d] = batch[d]

\* A receive takes a batch of messages of groups that have none in flight.
LEMMA ReceiveBatch ==
  ASSUME TypeOK, NEW c \in Consumers, Receive(c)
  PROVE  \E S \in SUBSET Messages : Takes(c, S)
<1>1. PICK S \in SUBSET Queued :
       /\ Cardinality(S) \in 1..MaxMessages
       /\ \A m \in S :
            /\ receives[m] < MaxReceives
            /\ \A n \in inflight : GroupOf[n] # GroupOf[m]
       /\ \E order \in [1..Cardinality(S) -> S] :
            /\ Received(S, order)
            /\ batch' = [batch EXCEPT ![c] =
                 [i \in 1..Cardinality(S) |->
                    [msg |-> order[i], receive |-> receives[order[i]] + 1]]]
       /\ inflight' = inflight \cup S
       /\ receives' = [m \in Messages |-> IF m \in S THEN receives[m] + 1 ELSE receives[m]]
  BY DEF Receive
<1> DEFINE size == Cardinality(S)
<1>2. size \in Nat \ {0}
  BY <1>1, ConsumerAssumption
<1>3. PICK order \in [1..size -> S] :
        /\ Received(S, order)
        /\ batch' = [batch EXCEPT ![c] =
             [i \in 1..size |-> [msg |-> order[i], receive |-> receives[order[i]] + 1]]]
  BY <1>1
<1> DEFINE new == [i \in 1..size |-> [msg |-> order[i], receive |-> receives[order[i]] + 1]]
<1>4. Queued \subseteq Messages
  BY ElementOfSeq, LenProperties DEF TypeOK, Queued
<1>5. S \subseteq Messages /\ order \in [1..size -> Messages]
  BY <1>3, <1>4
<1>7. S = {order[i] : i \in 1..size}
  BY <1>3 DEF Received
<1> HIDE DEF size
<1>6. ASSUME NEW i \in 1..size
      PROVE  [msg |-> order[i], receive |-> receives[order[i]] + 1] \in Receipt
  <2>1. order[i] \in Messages
    BY <1>5
  <2>2. receives[order[i]] \in Nat
    BY <2>1 DEF TypeOK
  <2>3. QED BY <2>1, <2>2 DEF Receipt
<1>8. new \in [1..size -> Receipt]
  BY <1>6
<1>9. DOMAIN new = 1..size
      /\ \A i \in 1..size : new[i] = [msg |-> order[i], receive |-> receives[order[i]] + 1]
  OBVIOUS
<1>10. batch' = [batch EXCEPT ![c] = new]
  BY <1>3
<1> HIDE DEF new
<1>11. new \in Seq(Receipt)
  BY <1>2, <1>8, SeqDef
<1>12. /\ batch'[c] = new /\ \A d \in Consumers \ {c} : batch'[d] = batch[d]
       /\ batch' \in [Consumers -> Seq(Receipt)]
  BY <1>10, <1>11 DEF TypeOK
<1>13. {new[i] : i \in DOMAIN new} = {[msg |-> m, receive |-> receives[m] + 1] : m \in S}
  BY <1>7, <1>9
<1>14. new # <<>>
  BY <1>2, <1>9
<1>15. Takes(c, S)
  BY <1>1, <1>12, <1>13, <1>14 DEF Takes
<1>16. QED BY <1>5, <1>15

-----------------------------------------------------------------------------
(* Type correctness.                                                       *)

\* Nothing is in the queue, and nobody works.
LEMMA ConsumerTypeInit == Init => TypeOK
<1> SUFFICES ASSUME Init PROVE TypeOK
  OBVIOUS
<1>1. <<>> \in Seq(Messages) /\ <<>> \in Seq(Receipt)
  OBVIOUS
<1>2. 0 \in 0..MaxMishaps
  BY ConsumerAssumption
<1>3. QED BY <1>1, <1>2 DEF Init, TypeOK

\* A mishap is counted within its bound.
LEMMA MishapRange == TypeOK /\ Mishap => mishaps' \in 0..MaxMishaps /\ mishaps' = mishaps + 1
BY ConsumerAssumption DEF TypeOK, Mishap

\* A consumer that is not idle has a current message, whatever step it takes.
LEMMA CurrentInMessages ==
  ASSUME TypeOK, NEW c \in Consumers, batch[c] # <<>>
  PROVE  Current(c) \in Messages /\ Head(batch[c]) \in Receipt
<1>1. Head(batch[c]) \in Receipt
  BY HeadTailProperties DEF TypeOK
<1>2. QED BY <1>1 DEF Current, Receipt

\* Every step keeps the types.
LEMMA ConsumerTypeNext ==
  TypeOK /\ HandlingInOrder /\ [Next]_vars => TypeOK'
<1> SUFFICES ASSUME TypeOK, HandlingInOrder, [Next]_vars PROVE TypeOK'
  OBVIOUS
<1>0. ASSUME NEW c \in Consumers, pc[c] # "idle" PROVE batch[c] # <<>>
  BY <1>0 DEF HandlingInOrder, HandlesInOrder
<1>1. ASSUME NEW m \in Messages, Produce(m) PROVE TypeOK'
  <2>1. Append(queue, m) \in Seq(Messages)
    BY DEF TypeOK
  <2>2. QED BY <1>1, <2>1 DEF Produce, TypeOK
<1>2. ASSUME NEW m \in Messages, Redrive(m) PROVE TypeOK'
  <2>1. Without(m) \in Seq(Messages)
    BY WithoutOne DEF HandlingInOrder
  <2>2. QED BY <1>2, <2>1 DEF Redrive, TypeOK
<1>3. ASSUME NEW m \in Messages, VisibilityExpires(m) PROVE TypeOK'
  <2>1. mishaps' \in 0..MaxMishaps
    BY <1>3, MishapRange DEF VisibilityExpires, TypeOK
  <2>2. QED BY <1>3, <2>1 DEF VisibilityExpires, TypeOK
<1>4. ASSUME NEW c \in Consumers, Receive(c) PROVE TypeOK'
  <2>1. PICK S \in SUBSET Messages : Takes(c, S)
    BY <1>4, ReceiveBatch
  <2>2. batch' \in [Consumers -> Seq(Receipt)] /\ inflight' \subseteq Messages
    BY <2>1 DEF Takes, TypeOK
  <2>3. receives' \in [Messages -> Nat]
    BY <2>1 DEF Takes, TypeOK
  <2>4. pc' = [pc EXCEPT ![c] = "handle"] /\ UNCHANGED <<queue, dlq, applied, refused, sent, mishaps>>
    BY <1>4 DEF Receive
  <2>5. QED BY <2>2, <2>3, <2>4 DEF TypeOK
<1>5. ASSUME NEW c \in Consumers, Handle(c) PROVE TypeOK'
  <2>1. Current(c) \in Messages
    BY <1>0, <1>5, CurrentInMessages DEF Handle
  <2>2. batch' \in [Consumers -> Seq(Receipt)] /\ pc' \in [Consumers -> States]
    BY <1>0, <1>5, AdvanceShift DEF Handle, TypeOK, States
  <2>3. applied' \subseteq Messages /\ refused' \subseteq Messages
    BY <1>5, <2>1 DEF Handle, Decide, TypeOK
  <2>4. UNCHANGED <<queue, inflight, receives, dlq, sent, mishaps>>
    BY <1>5 DEF Handle
  <2>5. QED BY <2>2, <2>3, <2>4 DEF TypeOK, States
<1>6. ASSUME NEW c \in Consumers, HandleFails(c) PROVE TypeOK'
  <2>1. Current(c) \in Messages
    BY <1>0, <1>6, CurrentInMessages DEF HandleFails
  <2>2. batch' \in [Consumers -> Seq(Receipt)] /\ pc' \in [Consumers -> States]
    BY <1>0, <1>6, AdvanceShift DEF HandleFails
  <2>3. applied' \subseteq Messages /\ refused' \subseteq Messages
    BY <1>6, <2>1 DEF HandleFails, Decide, TypeOK
  <2>4. UNCHANGED <<queue, inflight, receives, dlq, sent>> /\ mishaps' \in 0..MaxMishaps
    BY <1>6, MishapRange DEF HandleFails
  <2>5. QED BY <2>2, <2>3, <2>4 DEF TypeOK, States
<1>7. ASSUME NEW c \in Consumers, Bury(c) PROVE TypeOK'
  <2>1. Current(c) \in Messages
    BY <1>0, <1>7, CurrentInMessages DEF Bury
  <2>2. QED BY <1>7, <2>1 DEF Bury, TypeOK
<1>8. ASSUME NEW c \in Consumers, BuryFails(c) PROVE TypeOK'
  <2>1. Current(c) \in Messages
    BY <1>0, <1>8, CurrentInMessages DEF BuryFails
  <2>2. batch' \in [Consumers -> Seq(Receipt)] /\ pc' \in [Consumers -> States]
    BY <1>0, <1>8, AdvanceShift DEF BuryFails
  <2>3. dlq' \subseteq Messages
    BY <1>8, <2>1 DEF BuryFails, TypeOK
  <2>4. UNCHANGED <<queue, inflight, receives, applied, refused, sent>> /\ mishaps' \in 0..MaxMishaps
    BY <1>8, MishapRange DEF BuryFails
  <2>5. QED BY <2>2, <2>3, <2>4 DEF TypeOK, States
<1>9. ASSUME NEW c \in Consumers, Delete(c) PROVE TypeOK'
  <2>1. Current(c) \in Messages
    BY <1>0, <1>9, CurrentInMessages DEF Delete
  <2>2. batch' \in [Consumers -> Seq(Receipt)] /\ pc' \in [Consumers -> States]
    BY <1>0, <1>9, AdvanceShift DEF Delete
  <2>3. Without(Current(c)) \in Seq(Messages)
    BY <2>1, WithoutOne DEF HandlingInOrder
  <2>4. queue' \in Seq(Messages) /\ inflight' \subseteq Messages
    BY <1>9, <2>3 DEF Delete, TypeOK
  <2>5. UNCHANGED <<receives, dlq, applied, refused, sent, mishaps>>
    BY <1>9 DEF Delete
  <2>6. QED BY <2>2, <2>4, <2>5 DEF TypeOK, States
<1>10. ASSUME NEW c \in Consumers, DeleteFails(c) PROVE TypeOK'
  <2>1. batch' \in [Consumers -> Seq(Receipt)] /\ pc' \in [Consumers -> States]
    BY <1>0, <1>10, AdvanceShift DEF DeleteFails
  <2>2. UNCHANGED <<queue, inflight, receives, dlq, applied, refused, sent>> /\ mishaps' \in 0..MaxMishaps
    BY <1>10, MishapRange DEF DeleteFails
  <2>3. QED BY <2>1, <2>2 DEF TypeOK, States
<1>11. ASSUME NEW c \in Consumers, Crash(c) PROVE TypeOK'
  <2>1. <<>> \in Seq(Receipt)
    OBVIOUS
  <2>2. mishaps' \in 0..MaxMishaps
    BY <1>11, MishapRange DEF Crash
  <2>3. QED BY <1>11, <2>1, <2>2 DEF Crash, TypeOK
<1>12. CASE UNCHANGED vars
  BY <1>12 DEF vars, TypeOK
<1>13. QED
  BY <1>1, <1>2, <1>3, <1>4, <1>5, <1>6, <1>7, <1>8, <1>9, <1>10, <1>11, <1>12
     DEF Next, Step

-----------------------------------------------------------------------------
(* Handling in order.                                                      *)

\* What a step does to the queue: a new message joins it, or one leaves whose
\* inbox row is committed or whose copy is in the DLQ.
Leaves(m) == Queued' = Queued \ {m} /\ sent' = sent /\ m \in Decided' \cup dlq'
Joins(m) == m \notin sent /\ Queued' = Queued \cup {m} /\ sent' = sent \cup {m}

\* Nothing else happens to the queue, and no message enters it twice.
LEMMA QueueChange ==
  ASSUME TypeOK, HandlingInOrder, [Next]_vars
  PROVE  /\ \/ UNCHANGED <<queue, sent>>
            \/ \E m \in Messages : Leaves(m) \/ Joins(m)
         /\ Decided \subseteq Decided' /\ dlq \subseteq dlq'
         /\ \A i, j \in DOMAIN queue' : queue'[i] = queue'[j] => i = j
<1> DEFINE Once == \A i, j \in DOMAIN queue : queue[i] = queue[j] => i = j
<1>0. Once /\ Queued \subseteq sent
  BY DEF HandlingInOrder
<1>1. ASSUME NEW m \in Messages, Produce(m)
      PROVE  Joins(m) /\ Once' /\ Decided' = Decided /\ dlq' = dlq
  <2>1. queue \in Seq(Messages) /\ DOMAIN queue = 1..Len(queue) /\ Len(queue) \in Nat
    BY LenProperties DEF TypeOK
  <2>2. /\ queue' \in Seq(Messages) /\ Len(queue') = Len(queue) + 1
        /\ \A i \in 1..Len(queue) : queue'[i] = queue[i]
        /\ queue'[Len(queue) + 1] = m
    BY <1>1, <2>1, AppendProperties DEF Produce
  <2>3. DOMAIN queue' = 1..(Len(queue) + 1)
    BY <2>2, LenProperties
  <2>4. m \notin Queued /\ m \notin sent /\ sent' = sent \cup {m}
    BY <1>0, <1>1 DEF Produce
  <2>5. Queued' = Queued \cup {m}
    <3>1. ASSUME NEW i \in DOMAIN queue' PROVE queue'[i] \in Queued \cup {m}
      <4>1. CASE i = Len(queue) + 1
        BY <2>2, <4>1
      <4>2. CASE i # Len(queue) + 1
        <5>1. i \in 1..Len(queue)
          BY <2>1, <2>3, <4>2
        <5>2. QED BY <2>1, <2>2, <5>1 DEF Queued
      <4>3. QED BY <4>1, <4>2
    <3>2. \A i \in DOMAIN queue : i \in DOMAIN queue' /\ queue'[i] = queue[i]
      BY <2>1, <2>2, <2>3
    <3>3. m \in Queued'
      BY <2>1, <2>2, <2>3 DEF Queued
    <3>4. QED BY <3>1, <3>2, <3>3 DEF Queued
  <2>6. Once'
    <3>1. SUFFICES ASSUME NEW i \in DOMAIN queue', NEW j \in DOMAIN queue',
                          queue'[i] = queue'[j], i < j
                   PROVE  FALSE
      BY <2>1, <2>3
    <3>2. i \in 1..Len(queue) /\ queue'[i] = queue[i]
      BY <2>1, <2>2, <2>3, <3>1
    <3>3. CASE j = Len(queue) + 1
      BY <2>1, <2>2, <2>4, <3>1, <3>2, <3>3 DEF Queued
    <3>4. CASE j # Len(queue) + 1
      <4>1. j \in 1..Len(queue) /\ queue'[j] = queue[j]
        BY <2>1, <2>2, <2>3, <3>4
      <4>2. i = j
        BY <1>0, <2>1, <3>1, <3>2, <4>1
      <4>3. i \in Nat /\ j \in Nat
        BY <2>1, <3>2, <4>1
      <4>4. QED BY <3>1, <4>2, <4>3
    <3>5. QED BY <3>3, <3>4
  <2>7. QED BY <1>1, <2>4, <2>5, <2>6 DEF Joins, Produce, Decided
<1>2. ASSUME NEW m \in Messages, queue' = Without(m) PROVE Queued' = Queued \ {m} /\ Once'
  BY <1>0, <1>2, WithoutOne DEF Queued
<1>3. ASSUME NEW m \in Messages, Redrive(m)
      PROVE  Leaves(m) /\ Once' /\ Decided' = Decided /\ dlq \subseteq dlq'
  BY <1>2, <1>3 DEF Leaves, Redrive, Decided
<1>4. ASSUME NEW c \in Consumers, Delete(c), queue' = Without(Current(c))
      PROVE  /\ Current(c) \in Messages /\ Leaves(Current(c)) /\ Once'
             /\ Decided' = Decided /\ dlq' = dlq
  <2>1. Current(c) \in Messages
    BY <1>4, CurrentInMessages DEF Delete, HandlingInOrder, HandlesInOrder
  <2>2. Current(c) \in Decided \cup dlq
    BY <1>4 DEF Delete, HandlingInOrder, HandlesInOrder
  <2>3. QED BY <1>2, <1>4, <2>1, <2>2 DEF Leaves, Delete, Decided
<1>5. ASSUME NEW c \in Consumers, Delete(c), UNCHANGED queue
      PROVE  UNCHANGED <<queue, sent>> /\ Once' /\ Decided' = Decided /\ dlq' = dlq
  BY <1>0, <1>5 DEF Delete, Decided
<1>6. ASSUME NEW c \in Consumers,
             Receive(c) \/ Handle(c) \/ HandleFails(c) \/ Bury(c) \/ BuryFails(c)
               \/ DeleteFails(c) \/ Crash(c)
      PROVE  /\ UNCHANGED <<queue, sent>> /\ Once'
             /\ Decided \subseteq Decided' /\ dlq \subseteq dlq'
  BY <1>0, <1>6 DEF Receive, Handle, HandleFails, Decide, Decided, Bury, BuryFails, DeleteFails, Crash
<1>7. ASSUME NEW m \in Messages, VisibilityExpires(m)
      PROVE  UNCHANGED <<queue, sent>> /\ Once' /\ Decided' = Decided /\ dlq' = dlq
  BY <1>0, <1>7 DEF VisibilityExpires, Decided
<1>8. ASSUME UNCHANGED vars
      PROVE  UNCHANGED <<queue, sent>> /\ Once' /\ Decided' = Decided /\ dlq' = dlq
  BY <1>0, <1>8 DEF vars, Decided
<1>9. ASSUME NEW c \in Consumers, Delete(c)
      PROVE  queue' = Without(Current(c)) \/ UNCHANGED queue
  BY <1>9 DEF Delete
<1> HIDE DEF Once
<1> DEFINE Changed == /\ \/ UNCHANGED <<queue, sent>>
                         \/ \E m \in Messages : Leaves(m) \/ Joins(m)
                      /\ Decided \subseteq Decided' /\ dlq \subseteq dlq' /\ Once'
<1>10. Changed
  <2>1. CASE \E m \in Messages : Produce(m) \/ Redrive(m) \/ VisibilityExpires(m)
    BY <1>1, <1>3, <1>7, <2>1
  <2>2. ASSUME NEW c \in Consumers, Delete(c) PROVE Changed
    BY <1>4, <1>5, <1>9, <2>2
  <2>3. CASE \E c \in Consumers :
               Receive(c) \/ Handle(c) \/ HandleFails(c) \/ Bury(c) \/ BuryFails(c)
                 \/ DeleteFails(c) \/ Crash(c)
    BY <1>6, <2>3
  <2>4. CASE UNCHANGED vars
    BY <1>8, <2>4
  <2> HIDE DEF Changed
  <2>5. QED BY <2>1, <2>2, <2>3, <2>4 DEF Next, Step
<1>11. QED BY <1>10 DEF Once

\* A consumer nobody else's step touches keeps its place.
LEMMA HandlesInOrderKept ==
  ASSUME NEW d \in Consumers, HandlesInOrder(d), UNCHANGED <<pc[d], batch[d]>>,
         Decided \subseteq Decided', dlq \subseteq dlq'
  PROVE  HandlesInOrder(d)'
BY DEF HandlesInOrder, Current

\* Every step of a consumer keeps it in order.
LEMMA HandlesInOrderNext ==
  ASSUME TypeOK, HandlingInOrder, [Next]_vars, NEW d \in Consumers
  PROVE  HandlesInOrder(d)'
<1>0. /\ HandlesInOrder(d) /\ Decided \subseteq Decided' /\ dlq \subseteq dlq'
      /\ \A c \in Consumers : pc[c] # "idle" => batch[c] # <<>>
  BY QueueChange DEF HandlingInOrder, HandlesInOrder
<1>1. ASSUME NEW c \in Consumers, batch[c] # <<>>, Advance(c) PROVE HandlesInOrder(d)'
  <2>1. CASE d = c
    BY <1>1, <2>1, AdvanceShift DEF HandlesInOrder
  <2>2. CASE d # c
    BY <1>0, <1>1, <2>2, AdvanceShift, HandlesInOrderKept
  <2>3. QED BY <2>1, <2>2
<1>2. ASSUME UNCHANGED <<pc, batch>> PROVE HandlesInOrder(d)'
  BY <1>0, <1>2, HandlesInOrderKept
<1>3. ASSUME NEW m \in Messages, Produce(m) \/ Redrive(m) \/ VisibilityExpires(m)
      PROVE  HandlesInOrder(d)'
  BY <1>2, <1>3 DEF Produce, Redrive, VisibilityExpires
<1>4. ASSUME NEW c \in Consumers, Receive(c) PROVE HandlesInOrder(d)'
  <2>1. PICK S \in SUBSET Messages : Takes(c, S)
    BY <1>4, ReceiveBatch
  <2>2. pc' = [pc EXCEPT ![c] = "handle"]
    BY <1>4 DEF Receive
  <2>3. CASE d = c
    BY <2>1, <2>2, <2>3 DEF Takes, HandlesInOrder, TypeOK
  <2>4. CASE d # c
    BY <1>0, <2>1, <2>2, <2>4, HandlesInOrderKept DEF Takes, TypeOK
  <2>5. QED BY <2>3, <2>4
<1>5. ASSUME NEW c \in Consumers, Handle(c) PROVE HandlesInOrder(d)'
  <2>1. CASE Current(c) \notin Poison \cup Doomed
    <3>1. /\ pc' = [pc EXCEPT ![c] = "delete"] /\ batch' = batch
          /\ Current(c) \in Decided' /\ pc[c] = "handle"
      BY <1>5, <2>1 DEF Handle, Decide, Decided
    <3>2. CASE d = c
      BY <1>0, <3>1, <3>2 DEF HandlesInOrder, Current, TypeOK
    <3>3. CASE d # c
      BY <1>0, <3>1, <3>3, HandlesInOrderKept DEF TypeOK
    <3>4. QED BY <3>2, <3>3
  <2>2. CASE Current(c) \in Poison
    <3>1. pc' = [pc EXCEPT ![c] = "bury"] /\ batch' = batch /\ pc[c] = "handle"
      BY <1>5, <2>2, ConsumerAssumption DEF Handle
    <3>2. CASE d = c
      BY <1>0, <2>2, <3>1, <3>2 DEF HandlesInOrder, Current, TypeOK
    <3>3. CASE d # c
      BY <1>0, <3>1, <3>3, HandlesInOrderKept DEF TypeOK
    <3>4. QED BY <3>2, <3>3
  <2>3. CASE Current(c) \in Doomed
    BY <1>0, <1>1, <1>5, <2>3, ConsumerAssumption DEF Handle
  <2>4. QED BY <2>1, <2>2, <2>3
<1>6. ASSUME NEW c \in Consumers,
             HandleFails(c) \/ BuryFails(c) \/ Delete(c) \/ DeleteFails(c)
      PROVE  HandlesInOrder(d)'
  BY <1>0, <1>1, <1>6 DEF HandleFails, BuryFails, Delete, DeleteFails
<1>7. ASSUME NEW c \in Consumers, Bury(c) PROVE HandlesInOrder(d)'
  <2>1. /\ pc' = [pc EXCEPT ![c] = "delete"] /\ batch' = batch
        /\ dlq' = dlq \cup {Current(c)} /\ pc[c] = "bury"
    BY <1>7 DEF Bury
  <2>2. CASE d = c
    BY <1>0, <2>1, <2>2 DEF HandlesInOrder, Current, TypeOK
  <2>3. CASE d # c
    BY <1>0, <2>1, <2>3, HandlesInOrderKept DEF TypeOK
  <2>4. QED BY <2>2, <2>3
<1>8. ASSUME NEW c \in Consumers, Crash(c) PROVE HandlesInOrder(d)'
  <2>1. pc' = [pc EXCEPT ![c] = "idle"] /\ batch' = [batch EXCEPT ![c] = <<>>]
    BY <1>8 DEF Crash
  <2>2. CASE d = c
    BY <2>1, <2>2 DEF HandlesInOrder, TypeOK
  <2>3. CASE d # c
    BY <1>0, <2>1, <2>3, HandlesInOrderKept DEF TypeOK
  <2>4. QED BY <2>2, <2>3
<1>9. CASE UNCHANGED vars
  BY <1>2, <1>9 DEF vars
<1>10. QED BY <1>3, <1>4, <1>5, <1>6, <1>7, <1>8, <1>9 DEF Next, Step

\* Handling stays in order.
LEMMA HandlingInOrderNext ==
  ASSUME TypeOK, HandlingInOrder, [Next]_vars PROVE HandlingInOrder'
<1>1. Queued \subseteq sent /\ \A m \in Messages \ sent : receives[m] = 0
  BY DEF HandlingInOrder
<1>2. (\A i, j \in DOMAIN queue : queue[i] = queue[j] => i = j)'
  BY QueueChange
<1>3. Queued' \subseteq sent' /\ sent \subseteq sent'
  BY <1>1, QueueChange DEF Leaves, Joins, Queued
<1>4. \A m \in Messages \ sent' : receives'[m] = 0
  <2>1. ASSUME NEW c \in Consumers, Receive(c), NEW m \in Messages \ sent PROVE receives'[m] = 0
    <3>1. PICK S \in SUBSET Messages : Takes(c, S)
      BY <2>1, ReceiveBatch
    <3>2. m \notin S
      BY <1>1, <3>1 DEF Takes
    <3>3. QED BY <1>1, <3>1, <3>2 DEF Takes
  <2>2. (\E c \in Consumers : Receive(c)) \/ UNCHANGED receives
    BY DEF Next, Step, Produce, Redrive, VisibilityExpires, Handle, HandleFails, Bury, BuryFails,
           Delete, DeleteFails, Crash, vars
  <2>3. QED BY <1>1, <1>3, <2>1, <2>2
<1>5. \A c \in Consumers : HandlesInOrder(c)'
  BY HandlesInOrderNext
<1>6. QED BY <1>2, <1>3, <1>4, <1>5 DEF HandlingInOrder

\* A message that leaves the queue has its inbox row or its copy behind it.
LEMMA EveryDeletionIsDecidedNext ==
  ASSUME TypeOK, HandlingInOrder, EveryDeletionIsDecided, [Next]_vars PROVE EveryDeletionIsDecided'
<1>1. Decided \subseteq Decided' /\ dlq \subseteq dlq'
  BY QueueChange
<1>2. CASE UNCHANGED <<queue, sent>>
  BY <1>1, <1>2 DEF EveryDeletionIsDecided, Queued
<1>3. ASSUME NEW m \in Messages, Leaves(m) \/ Joins(m) PROVE EveryDeletionIsDecided'
  BY <1>1, <1>3 DEF EveryDeletionIsDecided, Leaves, Joins
<1>4. QED BY <1>2, <1>3, QueueChange

-----------------------------------------------------------------------------
(* What receives cost.                                                     *)

\* A mishap pays for a receive; without one, whoever works on a delivery goes
\* on doing so.
LEMMA PaidKept ==
  ASSUME TypeOK, NEW m \in Messages, mishaps' \in Nat, receives'[m] = receives[m],
         receives[m] <= (IF Delivered(m) THEN mishaps + 1 ELSE mishaps),
         mishaps' = mishaps + 1 \/ (mishaps' = mishaps /\ (Delivered(m) => Delivered(m)'))
  PROVE  receives'[m] <= (IF Delivered(m)' THEN mishaps' + 1 ELSE mishaps')
<1>1. mishaps \in Nat /\ receives[m] \in Nat
  BY ConsumerAssumption DEF TypeOK
<1>2. CASE mishaps' = mishaps + 1
  BY <1>1, <1>2
<1>3. CASE mishaps' = mishaps /\ (Delivered(m) => Delivered(m)')
  BY <1>1, <1>3
<1>4. QED BY <1>2, <1>3

\* Going on to the next message drops the receipt of the head only.
LEMMA WorkingKept ==
  ASSUME TypeOK, NEW c \in Consumers, batch[c] # <<>>, Advance(c), receives' = receives,
         NEW m \in Messages, Head(batch[c]) # [msg |-> m, receive |-> receives[m]], Working(m)
  PROVE  Working(m)'
<1>1. PICK d \in Consumers : \E i \in DOMAIN batch[d] :
        batch[d][i] = [msg |-> m, receive |-> receives[m]]
  BY DEF Working
<1>2. PICK i \in DOMAIN batch[d] : batch[d][i] = [msg |-> m, receive |-> receives[m]]
  BY <1>1
<1>3. CASE d # c
  BY <1>2, <1>3, AdvanceShift DEF Working
<1>4. CASE d = c
  <2>1. /\ Head(batch[c]) = batch[c][1] /\ DOMAIN batch[c] = 1..Len(batch[c])
        /\ Len(batch[c]) \in Nat /\ DOMAIN batch'[c] = 1..(Len(batch[c]) - 1)
        /\ \A k \in DOMAIN batch'[c] : batch'[c][k] = batch[c][k + 1]
    BY AdvanceShift
  <2>2. i # 1
    BY <1>2, <1>4, <2>1
  <2>3. i - 1 \in DOMAIN batch'[c] /\ batch'[c][i - 1] = batch[c][i]
    BY <1>4, <2>1, <2>2
  <2>4. QED BY <1>2, <1>4, <2>3 DEF Working
<1>5. QED BY <1>3, <1>4

\* Every receive stays paid for.
LEMMA ReceivesArePaidNext ==
  ASSUME TypeOK, HandlingInOrder, ReceivesArePaid, [Next]_vars, TypeOK'
  PROVE  ReceivesArePaid'
<1> SUFFICES ASSUME NEW m \in Good, m \in Queued'
             PROVE  receives'[m] <= (IF Delivered(m)' THEN mishaps' + 1 ELSE mishaps')
  <2>1. Queued' \subseteq Messages
    BY ElementOfSeq, LenProperties DEF TypeOK, Queued
  <2>2. QED BY <2>1 DEF ReceivesArePaid, Good
<1> DEFINE Paid == receives'[m] <= (IF Delivered(m)' THEN mishaps' + 1 ELSE mishaps')
<1>0. /\ m \in Messages /\ mishaps \in Nat /\ mishaps' \in Nat
      /\ m \notin Poison /\ m \notin Doomed
      /\ \A c \in Consumers : pc[c] # "idle" => batch[c] # <<>>
  BY ConsumerAssumption DEF Good, TypeOK, HandlingInOrder, HandlesInOrder
<1>1. CASE m \notin Queued
  <2>1. receives[m] = 0 /\ \E n \in Messages : Joins(n)
    BY <1>0, <1>1, QueueChange DEF Leaves, Joins, HandlingInOrder, Queued
  <2>2. ASSUME NEW c \in Consumers, Receive(c) PROVE FALSE
    BY <1>1, <2>2 DEF Receive, Queued
  <2>3. UNCHANGED receives
    BY <2>2 DEF Next, Step, Produce, Redrive, VisibilityExpires, Handle, HandleFails, Bury,
                BuryFails, Delete, DeleteFails, Crash, vars
  <2>4. QED BY <1>0, <2>1, <2>3
<1>2. CASE m \in Queued
  <2>0. receives[m] <= (IF Delivered(m) THEN mishaps + 1 ELSE mishaps) /\ receives[m] \in Nat
    BY <1>0, <1>2 DEF ReceivesArePaid, TypeOK
  <2> HIDE DEF Paid
  <2>a. ASSUME receives' = receives, mishaps' = mishaps, Delivered(m) => Delivered(m)' PROVE Paid
    BY <1>0, <2>0, <2>a, PaidKept DEF Paid
  <2>b. ASSUME receives' = receives, mishaps' = mishaps + 1 PROVE Paid
    BY <1>0, <2>0, <2>b, PaidKept DEF Paid
  <2>1. ASSUME UNCHANGED <<receives, mishaps, inflight, batch>> PROVE Paid
    <3>1. Delivered(m) => Delivered(m)'
      BY <2>1 DEF Delivered, Working
    <3>2. QED BY <2>1, <2>a, <3>1
  <2>2. ASSUME NEW n \in Messages, Produce(n) \/ Redrive(n) PROVE Paid
    BY <2>1, <2>2 DEF Produce, Redrive
  <2>3. ASSUME NEW n \in Messages, VisibilityExpires(n) PROVE Paid
    <3>1. UNCHANGED <<receives, batch>> /\ inflight' = inflight \ {n}
      BY <2>3 DEF VisibilityExpires
    <3>2. CASE Working(n)
      <4>1. mishaps' = mishaps + 1
        BY <2>3, <3>2 DEF VisibilityExpires, Mishap
      <4>2. QED BY <2>b, <3>1, <4>1
    <3>3. CASE ~ Working(n)
      <4>1. mishaps' = mishaps
        BY <2>3, <3>3 DEF VisibilityExpires
      <4>2. Delivered(m) => Delivered(m)'
        BY <3>1, <3>3 DEF Delivered, Working
      <4>3. QED BY <2>a, <3>1, <4>1, <4>2
    <3>4. QED BY <3>2, <3>3
  <2>4. ASSUME NEW c \in Consumers, Receive(c) PROVE Paid
    <3>1. PICK S \in SUBSET Messages : Takes(c, S)
      BY <2>4, ReceiveBatch
    <3>2. mishaps' = mishaps /\ pc[c] = "idle"
      BY <2>4 DEF Receive
    <3>3. CASE m \in S
      <4>1. m \notin inflight
        BY <3>1, <3>3 DEF Takes
      <4>2. receives[m] <= mishaps
        BY <2>0, <4>1 DEF Delivered
      <4>3. receives'[m] = receives[m] + 1 /\ m \in inflight'
        BY <1>0, <3>1, <3>3 DEF Takes
      <4>4. Working(m)'
        <5>1. [msg |-> m, receive |-> receives[m] + 1] \in {batch'[c][i] : i \in DOMAIN batch'[c]}
          BY <3>1, <3>3 DEF Takes
        <5>2. QED BY <4>3, <5>1 DEF Working
      <4>5. QED BY <1>0, <2>0, <3>2, <4>2, <4>3, <4>4 DEF Delivered, Paid
    <3>4. CASE m \notin S
      <4>1. receives'[m] = receives[m] /\ (m \in inflight => m \in inflight')
        BY <1>0, <3>1, <3>4 DEF Takes
      <4>2. batch[c] = <<>>
        BY <3>2 DEF HandlingInOrder, HandlesInOrder
      <4>3. ASSUME Working(m) PROVE Working(m)'
        <5>1. PICK d \in Consumers : \E i \in DOMAIN batch[d] :
                batch[d][i] = [msg |-> m, receive |-> receives[m]]
          BY <4>3 DEF Working
        <5>2. d # c
          BY <4>2, <5>1
        <5>3. batch'[d] = batch[d]
          BY <3>1, <5>2 DEF Takes
        <5>4. QED BY <4>1, <5>1, <5>3 DEF Working
      <4>4. QED BY <1>0, <2>0, <3>2, <4>1, <4>3, PaidKept DEF Delivered, Paid
    <3>5. QED BY <3>3, <3>4
  <2>5. ASSUME NEW c \in Consumers, Handle(c) PROVE Paid
    <3>1. UNCHANGED <<receives, mishaps, inflight>> /\ batch[c] # <<>>
      BY <1>0, <2>5 DEF Handle
    <3>2. CASE UNCHANGED batch
      BY <2>1, <3>1, <3>2
    <3>3. CASE Current(c) \in Doomed /\ Advance(c)
      <4>1. Head(batch[c]) # [msg |-> m, receive |-> receives[m]]
        BY <1>0, <3>3 DEF Current
      <4>2. Delivered(m) => Delivered(m)'
        BY <1>0, <3>1, <3>3, <4>1, WorkingKept DEF Delivered
      <4>3. QED BY <2>a, <3>1, <4>2
    <3>4. QED BY <2>5, <3>2, <3>3 DEF Handle
  <2>6. ASSUME NEW c \in Consumers,
               HandleFails(c) \/ BuryFails(c) \/ DeleteFails(c) \/ Crash(c)
        PROVE  Paid
    BY <2>b, <2>6 DEF HandleFails, BuryFails, DeleteFails, Crash, Mishap
  <2>7. ASSUME NEW c \in Consumers, Bury(c) PROVE Paid
    BY <2>1, <2>7 DEF Bury
  <2>8. ASSUME NEW c \in Consumers, Delete(c) PROVE Paid
    <3>1. UNCHANGED <<receives, mishaps>> /\ batch[c] # <<>> /\ Advance(c)
      BY <1>0, <2>8 DEF Delete
    <3>2. m \in inflight => m \in inflight' \/ m = Current(c)
      BY <2>8 DEF Delete
    <3>3. CASE m # Current(c)
      <4>1. Head(batch[c]) # [msg |-> m, receive |-> receives[m]]
        BY <3>3 DEF Current
      <4>2. Delivered(m) => Delivered(m)'
        BY <1>0, <3>1, <3>2, <3>3, <4>1, WorkingKept DEF Delivered
      <4>3. QED BY <2>a, <3>1, <4>2
    <3>4. CASE m = Current(c)
      <4>1. queue' # Without(Current(c))
        BY <1>0, <3>4, WithoutOne DEF HandlingInOrder, Queued
      <4>2. /\ Head(batch[c]).receive # receives[m] \/ m \notin inflight
            /\ inflight' = inflight
        BY <2>8, <3>4, <4>1 DEF Delete
      <4>3. CASE m \notin inflight
        BY <2>a, <3>1, <4>3 DEF Delivered
      <4>4. CASE Head(batch[c]).receive # receives[m]
        <5>1. Head(batch[c]) # [msg |-> m, receive |-> receives[m]]
          BY <4>4
        <5>2. Delivered(m) => Delivered(m)'
          BY <1>0, <3>1, <4>2, <5>1, WorkingKept DEF Delivered
        <5>3. QED BY <2>a, <3>1, <5>2
      <4>5. QED BY <4>2, <4>3, <4>4
    <3>5. QED BY <3>3, <3>4
  <2>9. ASSUME UNCHANGED vars PROVE Paid
    BY <2>1, <2>9 DEF vars
  <2>10. Paid
    BY <2>2, <2>3, <2>4, <2>5, <2>6, <2>7, <2>8, <2>9 DEF Next, Step
  <2>11. QED BY <2>10 DEF Paid
<1>3. QED BY <1>1, <1>2

\* A good message reaches the DLQ by the redrive alone, when all of its
\* receives are paid for and nobody works on it.
LEMMA DeadLettersNext ==
  ASSUME TypeOK, HandlingInOrder, ReceivesArePaid, DeadLettersAreDeserved, [Next]_vars, TypeOK'
  PROVE  DeadLettersAreDeserved'
<1> SUFFICES ASSUME NEW m \in Good, m \in dlq' PROVE mishaps' >= MaxReceives
  <2>1. dlq' \subseteq Messages
    BY DEF TypeOK
  <2>2. QED BY <2>1 DEF DeadLettersAreDeserved, Good
<1>0. mishaps \in Nat /\ mishaps' \in Nat /\ MaxReceives \in Nat /\ m \in Messages
  BY ConsumerAssumption DEF TypeOK, Good
<1>1. mishaps' >= mishaps
  BY <1>0 DEF Next, Step, Produce, Redrive, VisibilityExpires, Receive, Handle, HandleFails, Bury,
              BuryFails, Delete, DeleteFails, Crash, Mishap, vars
<1>2. CASE m \in dlq
  <2>1. mishaps >= MaxReceives
    BY <1>2 DEF DeadLettersAreDeserved, Good
  <2>2. QED BY <1>0, <1>1, <2>1
<1>3. CASE m \notin dlq
  <2>1. ASSUME NEW c \in Consumers, Bury(c) \/ BuryFails(c) PROVE FALSE
    <3>1. Current(c) \in Poison
      BY <2>1 DEF Bury, BuryFails, HandlingInOrder, HandlesInOrder
    <3>2. dlq' \subseteq dlq \cup {Current(c)}
      BY <2>1 DEF Bury, BuryFails
    <3>3. QED BY <1>3, <3>1, <3>2 DEF Good
  <2>2. PICK n \in Messages : Redrive(n)
    BY <1>3, <2>1 DEF Next, Step, Produce, VisibilityExpires, Receive, Handle, HandleFails,
                      Delete, DeleteFails, Crash, vars
  <2>3. n = m /\ m \in Queued /\ m \notin inflight /\ receives[m] = MaxReceives
    BY <1>3, <2>2 DEF Redrive, AtFront
  <2>4. receives[m] <= mishaps
    BY <2>3 DEF ReceivesArePaid, Delivered, Good
  <2>5. QED BY <1>0, <1>1, <2>3, <2>4
<1>4. QED BY <1>2, <1>3

-----------------------------------------------------------------------------
(* The theorems.                                                           *)

\* It holds at first: nothing was sent.
LEMMA ConsumerInvariantInit == Init => ConsumerInvariant
<1> SUFFICES ASSUME Init PROVE ConsumerInvariant
  OBVIOUS
<1>1. DOMAIN queue = {} /\ Queued = {}
  BY DEF Init, Queued
<1>2. HandlingInOrder
  BY <1>1 DEF Init, HandlingInOrder, HandlesInOrder
<1>3. EveryDeletionIsDecided /\ DeadLettersAreDeserved /\ ReceivesArePaid
  BY <1>1 DEF Init, EveryDeletionIsDecided, DeadLettersAreDeserved, ReceivesArePaid
<1>4. QED BY <1>2, <1>3 DEF ConsumerInvariant

\* The invariant of the consumers and their types hold in every state.
LEMMA ConsumerInductive ==
  TypeOK /\ ConsumerInvariant /\ [Next]_vars => (TypeOK /\ ConsumerInvariant)'
BY ConsumerTypeNext, HandlingInOrderNext, EveryDeletionIsDecidedNext, ReceivesArePaidNext, DeadLettersNext
   DEF ConsumerInvariant

\* For any messages, consumers and failures, the consumers delete what is decided
\* or copied only, handle in order, and every receive of a good message is paid for by a mishap (handleOne, poll).
THEOREM ConsumerInvariantCorrect == Spec => [](TypeOK /\ ConsumerInvariant)
BY ConsumerTypeInit, ConsumerInvariantInit, ConsumerInductive, PTL DEF Spec

\* No message leaves the queue before its inbox row, with the effect or with a
\* refusal for good, is committed or a copy of it is in the DLQ: it is deleted
\* after the commit (handleOne), however often it is delivered.
THEOREM EveryDeletionIsDecidedHolds == Spec => []EveryDeletionIsDecided
<1>1. ConsumerInvariant => EveryDeletionIsDecided
  BY DEF ConsumerInvariant
<1>2. QED BY <1>1, ConsumerInvariantCorrect, PTL

\* A good message is dead only after MaxReceives mishaps (the redrive policy):
\* batches, early timeouts and stale receipts alone never wear it out.
THEOREM DeadLettersAreDeservedHolds == Spec => []DeadLettersAreDeserved
<1>1. ConsumerInvariant => DeadLettersAreDeserved
  BY DEF ConsumerInvariant
<1>2. QED BY <1>1, ConsumerInvariantCorrect, PTL
=============================================================================

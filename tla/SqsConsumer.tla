----------------------------- MODULE SqsConsumer -----------------------------
(***************************************************************************)
(* The consumers of internal/platform/awssqs/consumer.go on the FIFO queue *)
(* wager-transactions: long poll in batches, handling under a visibility   *)
(* timeout, deletion after the commit, the dead letter queue.              *)
(*                                                                         *)
(* HandleWagerMessage is one step here: WagerEngine has its statements,    *)
(* and shows that a message has its effect once.  Here it commits that     *)
(* effect, or the inbox row alone when the command is refused for good; or *)
(* it rejects the message as poison; or it fails.  Which commands are      *)
(* refused the tables of WagerEngine say: a free choice here.  Time is     *)
(* abstract: the visibility timeout of a received message may run out at   *)
(* any moment.                                                             *)
(***************************************************************************)
EXTENDS Integers, Sequences, FiniteSets

CONSTANTS
  Messages,      \* SQS messages
  GroupOf,       \* GroupOf[m]: the message group, the wallet id
  Poison,        \* messages isPoison will be true of
  Doomed,        \* messages whose unit of work always fails
  Consumers,     \* instances of Consumer
  MaxMessages,   \* SQS_MAX_MESSAGES: the most messages one receive returns
  MaxReceives,   \* maxReceiveCount of the redrive policy
  MaxMishaps     \* bound: failures, crashes and early timeouts of a behaviour

ASSUME ConsumerAssumption ==
  /\ IsFiniteSet(Messages)
  /\ Poison \subseteq Messages /\ Doomed \subseteq Messages
  /\ Poison \cap Doomed = {}
  /\ MaxMessages \in Nat \ {0} /\ MaxReceives \in Nat \ {0}
  /\ MaxMishaps \in Nat

VARIABLES
  queue,      \* wager-transactions: the messages not yet deleted, in order
  inflight,   \* the messages of queue that are invisible
  receives,   \* receives[m]: ApproximateReceiveCount
  dlq,        \* wager-transactions-dlq
  applied,    \* messages whose effect and inbox row are committed
  refused,    \* messages refused for good: only their inbox row is committed
  pc,         \* pc[c]: what c does with the head of its batch
  batch,      \* batch[c]: the received messages c has not finished
  sent,       \* history: what producers have sent
  mishaps     \* what has gone wrong so far, bounded by MaxMishaps

vars == <<queue, inflight, receives, dlq, applied, refused, pc, batch, sent, mishaps>>

\* A receipt handle is valid for the receive it came with.
Receipt == [msg : Messages, receive : Nat]

TypeOK ==
  /\ queue \in Seq(Messages)
  /\ inflight \subseteq Messages
  /\ receives \in [Messages -> Nat]
  /\ dlq \subseteq Messages
  /\ applied \subseteq Messages
  /\ refused \subseteq Messages
  /\ pc \in [Consumers -> {"idle", "handle", "bury", "delete"}]
  /\ batch \in [Consumers -> Seq(Receipt)]
  /\ sent \subseteq Messages
  /\ mishaps \in 0..MaxMishaps

Init ==
  /\ queue = <<>>
  /\ inflight = {}
  /\ receives = [m \in Messages |-> 0]
  /\ dlq = {}
  /\ applied = {}
  /\ refused = {}
  /\ pc = [c \in Consumers |-> "idle"]
  /\ batch = [c \in Consumers |-> <<>>]
  /\ sent = {}
  /\ mishaps = 0

Queued == {queue[i] : i \in DOMAIN queue}
Place(m) == CHOOSE i \in DOMAIN queue : queue[i] = m
Without(m) ==
  IF m \in Queued
    THEN SubSeq(queue, 1, Place(m) - 1) \o SubSeq(queue, Place(m) + 1, Len(queue))
    ELSE queue

Mishap ==
  /\ mishaps < MaxMishaps
  /\ mishaps' = mishaps + 1

-----------------------------------------------------------------------------
(* The broker.                                                             *)

Produce(m) ==
  /\ m \notin sent
  /\ sent' = sent \cup {m}
  /\ queue' = Append(queue, m)
  /\ UNCHANGED <<inflight, receives, dlq, applied, refused, pc, batch, mishaps>>

\* The first message of a group none of whose messages is in flight.
AtFront(m) ==
  /\ m \in Queued
  /\ \A n \in inflight : GroupOf[n] # GroupOf[m]
  /\ \A n \in Queued : GroupOf[n] = GroupOf[m] => Place(m) <= Place(n)

\* A message received maxReceiveCount times goes to the DLQ; off by one, the
\* broker neither hands it out again nor moves it.
RedriveTooLate(m) ==
  /\ AtFront(m) /\ receives[m] > MaxReceives
  /\ dlq' = dlq \cup {m}
  /\ queue' = Without(m)
  /\ UNCHANGED <<inflight, receives, applied, refused, pc, batch, sent, mishaps>>
Redrive(m) ==
  /\ AtFront(m) /\ receives[m] = MaxReceives
  /\ dlq' = dlq \cup {m}
  /\ queue' = Without(m)
  /\ UNCHANGED <<inflight, receives, applied, refused, pc, batch, sent, mishaps>>

Working(m) ==
  \E c \in Consumers : \E i \in DOMAIN batch[c] :
    batch[c][i] = [msg |-> m, receive |-> receives[m]]

\* Somebody still has m in the batch it was received with: too slow.
VisibilityExpires(m) ==
  /\ m \in inflight
  /\ inflight' = inflight \ {m}
  /\ IF Working(m) THEN Mishap ELSE UNCHANGED mishaps
  /\ UNCHANGED <<queue, receives, dlq, applied, refused, pc, batch, sent>>

-----------------------------------------------------------------------------
(* A consumer.                                                             *)

\* ReceiveMessage: from every group without a message in flight the first
\* ones, several of one group if it has them, in the order of the queue.
Received(S, order) ==
  /\ S = {order[i] : i \in DOMAIN order}
  /\ \A i, j \in DOMAIN order : i < j => Place(order[i]) < Place(order[j])

Receive(c) ==
  /\ pc[c] = "idle"
  /\ \E S \in SUBSET Queued :
       /\ Cardinality(S) \in 1..MaxMessages
       /\ \A m \in S :
            /\ receives[m] < MaxReceives
            /\ \A n \in inflight : GroupOf[n] # GroupOf[m]
            /\ \A n \in Queued : GroupOf[n] = GroupOf[m] /\ Place(n) < Place(m) => n \in S
       /\ \E order \in [1..Cardinality(S) -> S] :
            /\ Received(S, order)
            /\ batch' = [batch EXCEPT ![c] =
                 [i \in 1..Cardinality(S) |->
                    [msg |-> order[i], receive |-> receives[order[i]] + 1]]]
       /\ inflight' = inflight \cup S
       /\ receives' = [m \in Messages |-> IF m \in S THEN receives[m] + 1 ELSE receives[m]]
  /\ pc' = [pc EXCEPT ![c] = "handle"]
  /\ UNCHANGED <<queue, dlq, applied, refused, sent, mishaps>>

Current(c) == Head(batch[c]).msg

\* handleOne returns; poll goes on with the next message.
Advance(c) ==
  /\ batch' = [batch EXCEPT ![c] = Tail(@)]
  /\ pc' = [pc EXCEPT ![c] = IF Len(batch[c]) = 1 THEN "idle" ELSE "handle"]

\* The transaction of HandleWagerMessage: the inbox row is there from an earlier
\* delivery; or it is committed with the effect; or alone, the command refused.
Decided == applied \cup refused
Decide(m) ==
  \/ m \in Decided /\ UNCHANGED <<applied, refused>>
  \/ m \notin Decided /\ applied' = applied \cup {m} /\ UNCHANGED refused
  \/ m \notin Decided /\ refused' = refused \cup {m} /\ UNCHANGED applied

\* Success without the deletion.
HandleAndKeep(c) ==
  /\ pc[c] = "handle"
  /\ IF Current(c) \in Poison \cup Doomed
       THEN UNCHANGED <<applied, refused>>
       ELSE Decide(Current(c))
  /\ Advance(c)
  /\ UNCHANGED <<queue, inflight, receives, dlq, sent, mishaps>>

\* The refusal goes out of the unit of work as its error, and the inbox row is
\* rolled back; nil all the same for the worker.
HandleUnrecorded(c) ==
  /\ pc[c] = "handle"
  /\ \/ /\ Current(c) \notin Poison \cup Doomed
        /\ Decide(Current(c)) \/ UNCHANGED <<applied, refused>>
        /\ pc' = [pc EXCEPT ![c] = "delete"]
        /\ UNCHANGED batch
     \/ /\ Current(c) \in Poison
        /\ pc' = [pc EXCEPT ![c] = "bury"]
        /\ UNCHANGED <<applied, refused, batch>>
     \/ /\ Current(c) \in Doomed
        /\ Advance(c)
        /\ UNCHANGED <<applied, refused>>
  /\ UNCHANGED <<queue, inflight, receives, dlq, sent, mishaps>>

\* Handle returns nil once the message is decided, whichever way, and handleOne
\* goes on to delete it; says the message is poison; or fails, and the message
\* is left to its visibility timeout.
Handle(c) ==
  /\ pc[c] = "handle"
  /\ \/ /\ Current(c) \notin Poison \cup Doomed
        /\ Decide(Current(c))
        /\ pc' = [pc EXCEPT ![c] = "delete"]
        /\ UNCHANGED batch
     \/ /\ Current(c) \in Poison
        /\ pc' = [pc EXCEPT ![c] = "bury"]
        /\ UNCHANGED <<applied, refused, batch>>
     \/ /\ Current(c) \in Doomed
        /\ Advance(c)
        /\ UNCHANGED <<applied, refused>>
  /\ UNCHANGED <<queue, inflight, receives, dlq, sent, mishaps>>

\* The database is away, or commits and the answer is lost.
HandleFails(c) ==
  /\ pc[c] = "handle" /\ Current(c) \notin Poison
  /\ Mishap
  /\ \/ UNCHANGED <<applied, refused>>
     \/ Current(c) \notin Doomed /\ Decide(Current(c))
  /\ Advance(c)
  /\ UNCHANGED <<queue, inflight, receives, dlq, sent>>

\* moveToDLQ.
Bury(c) ==
  /\ pc[c] = "bury"
  /\ dlq' = dlq \cup {Current(c)}
  /\ pc' = [pc EXCEPT ![c] = "delete"]
  /\ UNCHANGED <<queue, inflight, receives, applied, refused, batch, sent, mishaps>>

\* moveToDLQ fails, or its answer is lost; the variant deletes all the same.
BuryFailsAndDelete(c) ==
  /\ pc[c] = "bury"
  /\ Mishap
  /\ dlq' \in {dlq, dlq \cup {Current(c)}}
  /\ pc' = [pc EXCEPT ![c] = "delete"]
  /\ UNCHANGED <<queue, inflight, receives, applied, refused, batch, sent>>
BuryFails(c) ==
  /\ pc[c] = "bury"
  /\ Mishap
  /\ dlq' \in {dlq, dlq \cup {Current(c)}}
  /\ Advance(c)
  /\ UNCHANGED <<queue, inflight, receives, applied, refused, sent>>

\* DeleteMessage.  The broker may refuse the receipt of an earlier receive.
Delete(c) ==
  /\ pc[c] = "delete"
  /\ \/ /\ queue' = Without(Current(c))
        /\ inflight' = inflight \ {Current(c)}
     \/ /\ Head(batch[c]).receive # receives[Current(c)] \/ Current(c) \notin inflight
        /\ UNCHANGED <<queue, inflight>>
  /\ Advance(c)
  /\ UNCHANGED <<receives, dlq, applied, refused, sent, mishaps>>

DeleteFails(c) ==
  /\ pc[c] = "delete"
  /\ Mishap
  /\ Advance(c)
  /\ UNCHANGED <<queue, inflight, receives, dlq, applied, refused, sent>>

\* The process dies, or Stop cancels the context the batch is handled under.
Crash(c) ==
  /\ pc[c] # "idle"
  /\ Mishap
  /\ pc' = [pc EXCEPT ![c] = "idle"]
  /\ batch' = [batch EXCEPT ![c] = <<>>]
  /\ UNCHANGED <<queue, inflight, receives, dlq, applied, refused, sent>>

Step(c) == Receive(c) \/ Handle(c) \/ Bury(c) \/ Delete(c)

Next ==
  \/ \E m \in Messages : Produce(m) \/ Redrive(m) \/ VisibilityExpires(m)
  \/ \E c \in Consumers :
       Step(c) \/ HandleFails(c) \/ BuryFails(c) \/ DeleteFails(c) \/ Crash(c)

Spec == Init /\ [][Next]_vars

\* Every consumer polls for ever, the broker redrives and ends timeouts.
Fairness ==
  /\ \A c \in Consumers : WF_vars(Step(c))
  /\ \A m \in Messages :
       WF_vars(Redrive(m)) /\ WF_vars(~ Working(m) /\ VisibilityExpires(m))
FairSpec == Spec /\ Fairness

-----------------------------------------------------------------------------

\* A message leaves the queue only when its inbox row is committed, with the
\* effect or with a refusal for good, or a copy of it is in the DLQ, whatever
\* fails in between (ADR-006: delete only after the commit; handleOne).  Of a
\* refused message nothing else is left: see RefusalsReachTheDLQ.
EveryDeletionIsDecided == \A m \in sent \ Queued : m \in Decided \cup dlq

\* A message that can be processed reaches the DLQ only when something went
\* wrong at each of its MaxReceives deliveries: no interleaving of batches,
\* early timeouts and stale receipts wears its receives out by itself
\* (handleOne deletes on success; redrive policy of init-queues.sh).
DeadLettersAreDeserved ==
  \A m \in dlq \ (Poison \cup Doomed) : mishaps >= MaxReceives

\* What both rest on.  A message is in the queue once, and was not received
\* before it was sent.  A consumer with an empty batch is idle, whoever is about
\* to delete a message has its inbox row or its copy behind it, and only poison
\* is buried.
HandlesInOrder(c) ==
  /\ pc[c] = "idle" <=> batch[c] = <<>>
  /\ pc[c] = "bury" => Current(c) \in Poison
  /\ pc[c] = "delete" => Current(c) \in Decided \cup dlq
HandlingInOrder ==
  /\ \A i, j \in DOMAIN queue : queue[i] = queue[j] => i = j
  /\ Queued \subseteq sent
  /\ \A m \in Messages \ sent : receives[m] = 0
  /\ \A c \in Consumers : HandlesInOrder(c)

\* A delivery that somebody still works on has a receipt nobody else has made
\* stale; every other delivery of a good message that is still queued has met
\* a mishap.
Delivered(m) == m \in inflight /\ Working(m)
ReceivesArePaid ==
  \A m \in Queued \ (Poison \cup Doomed) :
    receives[m] <= (IF Delivered(m) THEN mishaps + 1 ELSE mishaps)

\* The inductive invariant of the consumers (handleOne, poll, the redrive).
ConsumerInvariant ==
  EveryDeletionIsDecided /\ DeadLettersAreDeserved /\ HandlingInOrder /\ ReceivesArePaid

\* Every message leaves the queue: one that always fails blocks the messages
\* of its wallet only until the broker redrives it.
QueueDrains == \A m \in Messages : m \in sent ~> m \notin Queued

\* ADR-008, "Ordem por carteira": the messages of a wallet take effect in the
\* order they were sent, except for those that end in the DLQ.
AppliedInGroupOrder ==
  \A m \in applied, n \in Queued :
    (m \in Queued /\ GroupOf[n] = GroupOf[m] /\ Place(n) < Place(m)) => n \in Decided \cup dlq \cup Poison

\* ADR-008 and the requirements (docs/enunciado.md:353): a message refused for
\* good ends in the DLQ.  The code deletes it and keeps its inbox row only.
RefusalsReachTheDLQ == \A m \in refused \ Queued : m \in dlq
=============================================================================

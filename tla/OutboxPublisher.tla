--------------------------- MODULE OutboxPublisher ---------------------------
(***************************************************************************)
(* The publishers of internal/platform/awssqs/publisher.go over the table  *)
(* outbox_events: several instances claim batches under a lease, send one  *)
(* event after the other to the integration queue and confirm each in a    *)
(* unit of work of its own.                                                *)
(*                                                                         *)
(* Time is abstract: a lease may run out at any moment, a backoff may end  *)
(* at any moment.  locked_by is never read by the code and left out.       *)
(***************************************************************************)
EXTENDS Integers, Sequences, FiniteSets

CONSTANTS
  Events,        \* rows of outbox_events
  Publishers,    \* instances of Publisher
  BatchSize,     \* PublisherBatchSize
  MaxMishaps     \* bound: failures, crashes and early expiries of a behaviour

ASSUME OutboxAssumption ==
  /\ IsFiniteSet(Events) /\ IsFiniteSet(Publishers)
  /\ BatchSize \in Nat \ {0}
  /\ MaxMishaps \in Nat

VARIABLES
  rows,       \* rows[e]: the columns of e
  pc,         \* pc[p]: what p does next with the head of its batch
  batch,      \* batch[p]: the records p has claimed and not finished
  copies,     \* copies[e]: messages of e in the integration queue
  excuses,    \* history: leases of e that ran out, sends of e that lied
  guards,     \* history: guards[e], publishers at work on e within their lease
  mishaps     \* what has gone wrong so far, bounded by MaxMishaps

vars == <<rows, pc, batch, copies, excuses, guards, mishaps>>

\* lease: locked_until is NULL, in the future or past; due: next_attempt_at
\* has passed.
Row == [stored : BOOLEAN, published : BOOLEAN, attempts : Nat, due : BOOLEAN,
        lease : {"free", "held", "expired"}]
Record == [event : Events, attempts : Nat]

TypeOK ==
  /\ rows \in [Events -> Row]
  /\ pc \in [Publishers -> {"idle", "send", "mark", "release"}]
  /\ batch \in [Publishers -> Seq(Record)]
  /\ copies \in [Events -> Nat]
  /\ excuses \in [Events -> Nat]
  /\ guards \in [Events -> SUBSET Publishers]
  /\ mishaps \in 0..MaxMishaps

NoRow == [stored |-> FALSE, published |-> FALSE, attempts |-> 0, due |-> FALSE, lease |-> "free"]

Init ==
  /\ rows = [e \in Events |-> NoRow]
  /\ pc = [p \in Publishers |-> "idle"]
  /\ batch = [p \in Publishers |-> <<>>]
  /\ copies = [e \in Events |-> 0]
  /\ excuses = [e \in Events |-> 0]
  /\ guards = [e \in Events |-> {}]
  /\ mishaps = 0

-----------------------------------------------------------------------------
(* The table and the clock.                                                *)

\* OutboxRepository.Append, made visible by the commit of a use case.
\* next_attempt_at is the moment the event occurred.
Store(e) ==
  /\ ~ rows[e].stored
  /\ rows' = [rows EXCEPT ![e].stored = TRUE, ![e].due = TRUE]
  /\ UNCHANGED <<pc, batch, copies, excuses, guards, mishaps>>

BackoffEnds(e) ==
  /\ rows[e].stored /\ ~ rows[e].published /\ ~ rows[e].due
  /\ rows' = [rows EXCEPT ![e].due = TRUE]
  /\ UNCHANGED <<pc, batch, copies, excuses, guards, mishaps>>

Mishap ==
  /\ mishaps < MaxMishaps
  /\ mishaps' = mishaps + 1

\* PublisherLeaseTTL after a claim of e.  With somebody still at work on e the
\* TTL was too short (a batch is leased at once and sent one by one).
LeaseExpires(e) ==
  /\ rows[e].lease = "held"
  /\ rows' = [rows EXCEPT ![e].lease = "expired"]
  /\ IF guards[e] = {} THEN UNCHANGED mishaps ELSE Mishap
  /\ guards' = [guards EXCEPT ![e] = {}]
  /\ excuses' = [excuses EXCEPT ![e] = @ + 1]
  /\ UNCHANGED <<pc, batch, copies>>

-----------------------------------------------------------------------------
(* A tick.                                                                 *)

\* The claim without its test of locked_until.
ClaimableAnyway(e) == rows[e].stored /\ ~ rows[e].published /\ rows[e].due
Claimable(e) ==
  /\ rows[e].stored /\ ~ rows[e].published /\ rows[e].due
  /\ rows[e].lease # "held"

\* Claim: up to BatchSize due rows without a running lease, in the order of
\* next_attempt_at, which is any order here.
Claim(p) ==
  LET candidates == {e \in Events : Claimable(e)}
      size == IF Cardinality(candidates) < BatchSize THEN Cardinality(candidates) ELSE BatchSize IN
  /\ pc[p] = "idle" /\ candidates # {}
  /\ \E order \in [1..size -> candidates] :
       /\ \A i, j \in 1..size : i # j => order[i] # order[j]
       /\ LET claimed == {order[i] : i \in 1..size} IN
          /\ rows' = [e \in Events |->
                        IF e \in claimed THEN [rows[e] EXCEPT !.lease = "held"] ELSE rows[e]]
          /\ guards' = [e \in Events |-> IF e \in claimed THEN guards[e] \cup {p} ELSE guards[e]]
          /\ batch' = [batch EXCEPT ![p] =
                        [i \in 1..size |-> [event |-> order[i], attempts |-> rows[order[i]].attempts]]]
  /\ pc' = [pc EXCEPT ![p] = "send"]
  /\ UNCHANGED <<copies, excuses, mishaps>>

Current(p) == Head(batch[p]).event

\* The next record of the batch, or the end of the tick.
Advance(p) ==
  /\ batch' = [batch EXCEPT ![p] = Tail(@)]
  /\ pc' = [pc EXCEPT ![p] = IF Len(batch[p]) = 1 THEN "idle" ELSE "send"]
  /\ guards' = [guards EXCEPT ![Current(p)] = @ \ {p}]

\* publishOne with the confirmation before the message, and as it is.
ConfirmFirst(p) ==
  /\ pc[p] = "send"
  /\ rows' = [rows EXCEPT ![Current(p)] = [@ EXCEPT !.published = TRUE, !.lease = "free"]]
  /\ pc' = [pc EXCEPT ![p] = "mark"]
  /\ UNCHANGED <<batch, copies, excuses, guards, mishaps>>
Send(p) ==
  /\ pc[p] = "send"
  /\ copies' = [copies EXCEPT ![Current(p)] = @ + 1]
  /\ pc' = [pc EXCEPT ![p] = "mark"]
  /\ UNCHANGED <<rows, batch, excuses, guards, mishaps>>

\* The broker refuses the message, or accepts it and the answer is lost.
SendFails(p) ==
  /\ pc[p] = "send"
  /\ Mishap
  /\ pc' = [pc EXCEPT ![p] = "release"]
  /\ \/ UNCHANGED <<copies, excuses>>
     \/ /\ copies' = [copies EXCEPT ![Current(p)] = @ + 1]
        /\ excuses' = [excuses EXCEPT ![Current(p)] = @ + 1]
  /\ UNCHANGED <<rows, batch, guards>>

\* MarkPublished.  A row somebody else has published makes it an error, which
\* changes nothing.
Mark(p) ==
  /\ pc[p] = "mark"
  /\ rows' = IF rows[Current(p)].published THEN rows
             ELSE [rows EXCEPT ![Current(p)] = [@ EXCEPT !.published = TRUE, !.lease = "free"]]
  /\ Advance(p)
  /\ UNCHANGED <<copies, excuses, mishaps>>

\* ReleaseWithBackoff without and with its test of published_at.  Neither it
\* nor MarkPublished asks whose lease it clears, and attempts is computed from
\* the record as it was claimed.
Backoff(row, attempts) ==
  [row EXCEPT !.published = FALSE, !.attempts = attempts, !.due = FALSE, !.lease = "free"]
ReleaseBlindly(p) ==
  /\ pc[p] = "release"
  /\ rows' = [rows EXCEPT ![Current(p)] = Backoff(@, Head(batch[p]).attempts + 1)]
  /\ Advance(p)
  /\ UNCHANGED <<copies, excuses, mishaps>>
Release(p) ==
  /\ pc[p] = "release"
  /\ rows' = IF rows[Current(p)].published THEN rows
             ELSE [rows EXCEPT ![Current(p)] = Backoff(@, Head(batch[p]).attempts + 1)]
  /\ Advance(p)
  /\ UNCHANGED <<copies, excuses, mishaps>>

\* A failed confirmation that gives the lease back.
ConfirmationGivesUp(p) ==
  /\ pc[p] \in {"mark", "release"}
  /\ Mishap
  /\ rows' = [rows EXCEPT ![Current(p)].lease = "free"]
  /\ Advance(p)
  /\ UNCHANGED <<copies, excuses>>

\* The unit of work of MarkPublished or ReleaseWithBackoff fails: the tick goes
\* on with the next record, the lease stays.
ConfirmationFails(p) ==
  /\ pc[p] \in {"mark", "release"}
  /\ Mishap
  /\ Advance(p)
  /\ UNCHANGED <<rows, copies, excuses>>

\* The process dies, or Stop cancels the context of the tick: the rest of the
\* batch is abandoned and its leases stay until they run out.
Crash(p) ==
  /\ pc[p] # "idle"
  /\ Mishap
  /\ pc' = [pc EXCEPT ![p] = "idle"]
  /\ batch' = [batch EXCEPT ![p] = <<>>]
  /\ guards' = [e \in Events |-> guards[e] \ {p}]
  /\ UNCHANGED <<rows, copies, excuses>>

Step(p) == Claim(p) \/ Send(p) \/ Mark(p) \/ Release(p)

Next ==
  \/ \E e \in Events : Store(e) \/ BackoffEnds(e) \/ LeaseExpires(e)
  \/ \E p \in Publishers : Step(p) \/ SendFails(p) \/ ConfirmationFails(p) \/ Crash(p)

Spec == Init /\ [][Next]_vars

\* Every publisher polls for ever, and time passes.  Failures are finite
\* (MaxMishaps), and so are the leases that run out on a working publisher.
Fairness ==
  /\ \A p \in Publishers : WF_vars(Step(p))
  /\ \A e \in Events : WF_vars(BackoffEnds(e)) /\ WF_vars(guards[e] = {} /\ LeaseExpires(e))
FairSpec == Spec /\ Fairness

-----------------------------------------------------------------------------

\* Every copy of an event beyond the first is paid for by a lease of the event
\* that ran out or by a send whose success was reported as a failure.  Crashes,
\* failed confirmations and a release or confirmation that comes too late and
\* clears the lease of another publisher add no copy of their own
\* (outbox.go, Claim, MarkPublished, ReleaseWithBackoff).
CopiesAreExplained == \A e \in Events : copies[e] <= 1 + excuses[e]

\* The strengthening that makes it inductive: what may still become a copy of e
\* counts as one already.  That is the publishers that have e before them and
\* have not sent it, and the claim that an unpublished row without a running
\* lease invites.  If it fails, a release hands out an event it had no right to.
AtWork(e) ==
  {p \in Publishers : \E k \in DOMAIN batch[p] :
     batch[p][k].event = e /\ (k = 1 => pc[p] # "mark")}
Invites(e) == ~ rows[e].published /\ rows[e].lease # "held"
CopiesAreBudgeted ==
  \A e \in Events :
    copies[e] + Cardinality(AtWork(e)) + (IF Invites(e) THEN 1 ELSE 0) <= 1 + excuses[e]

\* A batch names stored events, each once, and its owner is busy with it; a
\* confirmation follows a copy; a published row was sent and has no lease.
BatchDiscipline ==
  \A p \in Publishers :
    /\ pc[p] = "idle" <=> batch[p] = <<>>
    /\ \A k \in DOMAIN batch[p] : rows[batch[p][k].event].stored
    /\ \A j, k \in DOMAIN batch[p] : batch[p][j].event = batch[p][k].event => j = k
    /\ pc[p] = "mark" => copies[batch[p][1].event] > 0
RowDiscipline ==
  \A e \in Events :
    /\ copies[e] > 0 => rows[e].stored
    /\ rows[e].published => copies[e] > 0 /\ rows[e].lease = "free"
OutboxInvariant == BatchDiscipline /\ RowDiscipline /\ CopiesAreBudgeted

\* A published row is never touched again: no late publisher reschedules it,
\* and no claim returns it (published_at IS NULL in all three statements).
PublishedIsFinal == [][\A e \in Events : rows[e].published => rows'[e] = rows[e]]_rows

\* An event a publisher gives up in the middle is taken over: every event that
\* a commit has stored is delivered, then confirmed, and never confirmed
\* without a copy in the queue (ADR-006).
Delivery == INSTANCE EventDelivery WITH
  stored <- {e \in Events : rows[e].stored},
  delivered <- {e \in Events : copies[e] > 0},
  confirmed <- {e \in Events : rows[e].published}
ImplementsDelivery == Delivery!Spec
=============================================================================

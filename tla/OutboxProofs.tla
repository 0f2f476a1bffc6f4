---------------------------- MODULE OutboxProofs ----------------------------
(***************************************************************************)
(* The publishers of the outbox, for any events, publishers, batch size    *)
(* and number of mishaps: type correctness, the budget of copies, and the  *)
(* finality of a published row.                                            *)
(***************************************************************************)
EXTENDS OutboxPublisher, TLAPS, FiniteSetTheorems, SequenceTheorems

-----------------------------------------------------------------------------
(* Batches.                                                                *)

\* What ends the work on the head of a batch: the rest of it moves up.
LEMMA AdvanceShift ==
  ASSUME TypeOK, NEW p \in Publishers, batch[p] # <<>>, Advance(p)
  PROVE  /\ Current(p) \in Events /\ Current(p) = batch[p][1].event
         /\ Len(batch[p]) \in Nat \ {0} /\ DOMAIN batch[p] = 1..Len(batch[p])
         /\ batch' \in [Publishers -> Seq(Record)]
         /\ DOMAIN batch'[p] = 1..(Len(batch[p]) - 1)
         /\ \A k \in DOMAIN batch'[p] : batch'[p][k] = batch[p][k + 1]
         /\ pc' \in [Publishers -> {"idle", "send", "mark", "release"}]
         /\ pc'[p] \in {"idle", "send"}
         /\ pc'[p] = "idle" <=> batch'[p] = <<>>
         /\ \A q \in Publishers \ {p} : batch'[q] = batch[q] /\ pc'[q] = pc[q]
         /\ guards' \in [Events -> SUBSET Publishers]
<1> DEFINE s == batch[p]
<1>1. s \in Seq(Record) /\ s # <<>>
  BY DEF TypeOK
<1>2. /\ Head(s) \in Record /\ Tail(s) \in Seq(Record) /\ Len(Tail(s)) = Len(s) - 1
      /\ \A k \in 1..Len(Tail(s)) : Tail(s)[k] = s[k + 1]
  BY <1>1, HeadTailProperties
<1>3. Len(s) \in Nat \ {0} /\ DOMAIN s = 1..Len(s) /\ Head(s) = s[1]
  BY <1>1, EmptySeq, LenProperties
<1>4. Current(p) \in Events /\ Current(p) = s[1].event
  BY <1>2, <1>3 DEF Current, Record
<1>5. batch' = [batch EXCEPT ![p] = Tail(s)] /\ batch'[p] = Tail(s)
  BY DEF Advance, TypeOK
<1>6. /\ batch' \in [Publishers -> Seq(Record)]
      /\ DOMAIN batch'[p] = 1..(Len(s) - 1)
      /\ \A k \in DOMAIN batch'[p] : batch'[p][k] = s[k + 1]
      /\ \A q \in Publishers \ {p} : batch'[q] = batch[q]
  BY <1>2, <1>5, LenProperties DEF TypeOK
<1>7. Tail(s) = <<>> <=> Len(s) = 1
  <2>1. Tail(s) = <<>> <=> Len(Tail(s)) = 0
    BY <1>2, EmptySeq
  <2>2. QED BY <1>2, <1>3, <2>1
<1>8. /\ pc' = [pc EXCEPT ![p] = IF Len(s) = 1 THEN "idle" ELSE "send"]
      /\ guards' = [guards EXCEPT ![Current(p)] = @ \ {p}]
  BY DEF Advance
<1>9. /\ pc' \in [Publishers -> {"idle", "send", "mark", "release"}]
      /\ pc'[p] \in {"idle", "send"}
      /\ pc'[p] = "idle" <=> batch'[p] = <<>>
      /\ \A q \in Publishers \ {p} : pc'[q] = pc[q]
  BY <1>5, <1>7, <1>8 DEF TypeOK
<1>10. guards' \in [Events -> SUBSET Publishers]
  BY <1>8 DEF TypeOK
<1>11. QED BY <1>3, <1>4, <1>6, <1>9, <1>10

\* What Claim(p) does when it takes order[1], ..., order[size].
Claims(p, size, order) ==
  LET claimed == {order[i] : i \in 1..size} IN
  /\ \A i \in 1..size : Claimable(order[i])
  /\ \A i, j \in 1..size : i # j => order[i] # order[j]
  /\ rows' = [e \in Events |->
                IF e \in claimed THEN [rows[e] EXCEPT !.lease = "held"] ELSE rows[e]]
  /\ guards' = [e \in Events |-> IF e \in claimed THEN guards[e] \cup {p} ELSE guards[e]]
  /\ batch' \in [Publishers -> Seq(Record)]
  /\ DOMAIN batch'[p] = 1..size
  /\ \A i \in 1..size : batch'[p][i].event = order[i]
  /\ \A q \in Publishers \ {p} : batch'[q] = batch[q]

\* A claim takes a batch of distinct claimable events and leases it.
LEMMA ClaimBatch ==
  ASSUME TypeOK, NEW p \in Publishers, Claim(p)
  PROVE  \E size \in Nat \ {0} : \E order \in [1..size -> Events] : Claims(p, size, order)
<1> DEFINE candidates == {e \in Events : Claimable(e)}
           size == IF Cardinality(candidates) < BatchSize THEN Cardinality(candidates)
                                                         ELSE BatchSize
<1>1. candidates # {} /\ IsFiniteSet(candidates)
  BY OutboxAssumption, FS_Subset DEF Claim
<1>2. Cardinality(candidates) \in Nat \ {0}
  BY <1>1, FS_CardinalityType, FS_EmptySet
<1>3. size \in Nat \ {0}
  BY <1>2, OutboxAssumption
<1>4. PICK order \in [1..size -> candidates] :
        /\ \A i, j \in 1..size : i # j => order[i] # order[j]
        /\ LET claimed == {order[i] : i \in 1..size} IN
           /\ rows' = [e \in Events |->
                         IF e \in claimed THEN [rows[e] EXCEPT !.lease = "held"] ELSE rows[e]]
           /\ guards' = [e \in Events |->
                           IF e \in claimed THEN guards[e] \cup {p} ELSE guards[e]]
           /\ batch' = [batch EXCEPT ![p] =
                [i \in 1..size |-> [event |-> order[i], attempts |-> rows[order[i]].attempts]]]
  BY DEF Claim
<1> DEFINE new == [i \in 1..size |-> [event |-> order[i], attempts |-> rows[order[i]].attempts]]
<1>5. \A i \in 1..size : order[i] \in Events /\ Claimable(order[i])
  BY <1>4
<1>6. \A i \in 1..size : [event |-> order[i], attempts |-> rows[order[i]].attempts] \in Record
  BY <1>5 DEF TypeOK, Row, Record
<1>7. new \in Seq(Record)
  <2> HIDE DEF size
  <2>1. new \in [1..size -> Record]
    BY <1>6
  <2> HIDE DEF new
  <2>2. QED BY <1>3, <2>1, SeqDef
<1>8. /\ batch'[p] = new /\ \A q \in Publishers \ {p} : batch'[q] = batch[q]
      /\ batch' \in [Publishers -> Seq(Record)]
  BY <1>4, <1>7 DEF TypeOK
<1>9. DOMAIN new = 1..size /\ \A i \in 1..size : new[i].event = order[i]
  OBVIOUS
<1>10. order \in [1..size -> Events]
  BY <1>4
<1> HIDE DEF new, size, candidates
<1>11. Claims(p, size, order)
  BY <1>4, <1>5, <1>8, <1>9 DEF Claims
<1>12. QED BY <1>3, <1>10, <1>11

-----------------------------------------------------------------------------
(* Type correctness.                                                       *)

LEMMA OutboxTypeInit == Init => TypeOK
<1>1. <<>> \in Seq(Record)
  BY EmptySeq
<1>2. QED BY <1>1, OutboxAssumption DEF Init, TypeOK, NoRow, Row

LEMMA RowTypes ==
  ASSUME NEW row \in Row, NEW n \in Nat
  PROVE  /\ Backoff(row, n) \in Row
         /\ [row EXCEPT !.published = TRUE, !.lease = "free"] \in Row
         /\ [row EXCEPT !.stored = TRUE, !.due = TRUE] \in Row
         /\ [row EXCEPT !.due = TRUE] \in Row
         /\ [row EXCEPT !.lease = "held"] \in Row
         /\ [row EXCEPT !.lease = "expired"] \in Row
BY DEF Backoff, Row

LEMMA MishapType == TypeOK /\ Mishap => mishaps' \in 0..MaxMishaps
BY OutboxAssumption DEF TypeOK, Mishap

\* What the publishers have in hand while they are not idle.
LEMMA BusyHead ==
  ASSUME TypeOK, BatchDiscipline, NEW p \in Publishers, pc[p] # "idle"
  PROVE  /\ batch[p] # <<>> /\ 1 \in DOMAIN batch[p]
         /\ Current(p) \in Events /\ Current(p) = batch[p][1].event
         /\ Head(batch[p]).attempts \in Nat
<1>1. batch[p] # <<>> /\ batch[p] \in Seq(Record)
  BY DEF TypeOK, BatchDiscipline
<1>2. Head(batch[p]) \in Record /\ Head(batch[p]) = batch[p][1]
  BY <1>1, HeadTailProperties
<1>3. Len(batch[p]) \in Nat \ {0} /\ DOMAIN batch[p] = 1..Len(batch[p])
  BY <1>1, EmptySeq, LenProperties
<1>4. QED BY <1>1, <1>2, <1>3 DEF Current, Record

\* A row changes in its own columns only.
LEMMA RowUpdateType ==
  ASSUME TypeOK, NEW e \in Events, NEW row \in Row, rows' = [rows EXCEPT ![e] = row]
  PROVE  rows' \in [Events -> Row]
BY DEF TypeOK

LEMMA ClockTypes ==
  ASSUME TypeOK, NEW e \in Events, Store(e) \/ BackoffEnds(e) \/ LeaseExpires(e)
  PROVE  TypeOK'
<1>1. rows[e] \in Row
  BY DEF TypeOK
<1>2. CASE Store(e)
  <2>1. rows' = [rows EXCEPT ![e] = [rows[e] EXCEPT !.stored = TRUE, !.due = TRUE]]
    BY <1>1, <1>2 DEF Store, Row, TypeOK
  <2>2. QED BY <1>1, <1>2, <2>1, OutboxAssumption, RowTypes, RowUpdateType DEF Store, TypeOK
<1>3. CASE BackoffEnds(e)
  <2>1. rows' = [rows EXCEPT ![e] = [rows[e] EXCEPT !.due = TRUE]]
    BY <1>3 DEF BackoffEnds, TypeOK
  <2>2. QED BY <1>1, <1>3, <2>1, OutboxAssumption, RowTypes, RowUpdateType DEF BackoffEnds, TypeOK
<1>4. CASE LeaseExpires(e)
  <2>1. rows' = [rows EXCEPT ![e] = [rows[e] EXCEPT !.lease = "expired"]]
    BY <1>4 DEF LeaseExpires, TypeOK
  <2>2. mishaps' \in 0..MaxMishaps
    BY <1>4, MishapType DEF LeaseExpires, TypeOK
  <2>3. rows' \in [Events -> Row]
    BY <1>1, <2>1, RowTypes, RowUpdateType
  <2>4. excuses' \in [Events -> Nat] /\ guards' \in [Events -> SUBSET Publishers]
    BY <1>4 DEF LeaseExpires, TypeOK
  <2>5. QED BY <1>4, <2>2, <2>3, <2>4 DEF LeaseExpires, TypeOK
<1>5. QED BY <1>2, <1>3, <1>4

LEMMA PublisherTypes ==
  ASSUME TypeOK, BatchDiscipline, NEW p \in Publishers,
         Step(p) \/ SendFails(p) \/ ConfirmationFails(p) \/ Crash(p)
  PROVE  TypeOK'
<1>1. CASE Claim(p)
  <2>0. PICK size \in Nat \ {0} : \E order \in [1..size -> Events] : Claims(p, size, order)
    BY <1>1, ClaimBatch
  <2>1. PICK order \in [1..size -> Events] : Claims(p, size, order)
    BY <2>0
  <2> DEFINE claimed == {order[i] : i \in 1..size}
  <2>2. rows' \in [Events -> Row]
    <3>1. rows' = [e \in Events |->
                    IF e \in claimed THEN [rows[e] EXCEPT !.lease = "held"] ELSE rows[e]]
      BY <2>1 DEF Claims
    <3> HIDE DEF claimed
    <3>2. QED BY <3>1, RowTypes, OutboxAssumption DEF TypeOK
  <2>3. guards' \in [Events -> SUBSET Publishers]
    BY <2>1 DEF Claims, TypeOK
  <2>4. QED BY <1>1, <2>1, <2>2, <2>3 DEF Claim, Claims, TypeOK
<1>2. CASE pc[p] # "idle"
  <2>1. /\ Current(p) \in Events /\ batch[p] # <<>>
        /\ Head(batch[p]).attempts + 1 \in Nat
        /\ rows[Current(p)] \in Row /\ copies[Current(p)] \in Nat /\ excuses[Current(p)] \in Nat
    BY <1>2, BusyHead DEF TypeOK
  <2>2. CASE Send(p)
    BY <2>1, <2>2 DEF Send, TypeOK
  <2>3. CASE SendFails(p)
    <3>1. CASE UNCHANGED <<copies, excuses>>
      BY <2>3, <3>1, MishapType DEF SendFails, TypeOK
    <3>2. CASE /\ copies' = [copies EXCEPT ![Current(p)] = @ + 1]
               /\ excuses' = [excuses EXCEPT ![Current(p)] = @ + 1]
      <4>1. copies' \in [Events -> Nat]
        BY <2>1, <3>2 DEF TypeOK
      <4>2. excuses' \in [Events -> Nat]
        BY <2>1, <3>2 DEF TypeOK
      <4>3. QED BY <2>3, <4>1, <4>2, MishapType DEF SendFails, TypeOK
    <3>3. QED BY <2>3, <3>1, <3>2 DEF SendFails
  <2>4. CASE Mark(p)
    <3>1. rows' \in [Events -> Row]
      BY <2>1, <2>4, RowTypes, OutboxAssumption DEF Mark, TypeOK
    <3>2. QED BY <2>1, <2>4, <3>1, AdvanceShift DEF Mark, TypeOK
  <2>5. CASE Release(p)
    <3>1. rows' \in [Events -> Row]
      BY <2>1, <2>5, RowTypes DEF Release, TypeOK
    <3>2. QED BY <2>1, <2>5, <3>1, AdvanceShift DEF Release, TypeOK
  <2>6. CASE ConfirmationFails(p)
    BY <2>1, <2>6, AdvanceShift, MishapType DEF ConfirmationFails, TypeOK
  <2>7. CASE Crash(p)
    <3>1. <<>> \in Seq(Record)
      BY EmptySeq
    <3>2. QED BY <2>7, <3>1, MishapType DEF Crash, TypeOK
  <2>8. QED BY <1>2, <2>2, <2>3, <2>4, <2>5, <2>6, <2>7 DEF Step, Claim
<1>3. CASE pc[p] = "idle"
  BY <1>1, <1>3 DEF Step, Send, SendFails, Mark, Release, ConfirmationFails, Crash
<1>4. QED BY <1>2, <1>3

-----------------------------------------------------------------------------
(* Who has an event before him.                                            *)

LEMMA WorkersAreCounted ==
  ASSUME NEW e
  PROVE  /\ IsFiniteSet(AtWork(e)) /\ Cardinality(AtWork(e)) \in Nat
         /\ \A S \in SUBSET AtWork(e) :
              Cardinality(S) \in Nat /\ Cardinality(S) <= Cardinality(AtWork(e))
         /\ \A p \in AtWork(e) : Cardinality(AtWork(e) \ {p}) = Cardinality(AtWork(e)) - 1
         /\ \A p : p \notin AtWork(e) =>
              Cardinality(AtWork(e) \cup {p}) = Cardinality(AtWork(e)) + 1
<1>1. IsFiniteSet(AtWork(e))
  <2>1. AtWork(e) \in SUBSET Publishers
    BY DEF AtWork
  <2>2. QED BY <2>1, OutboxAssumption, FS_Subset
<1>2. ASSUME NEW S \in SUBSET AtWork(e)
      PROVE  Cardinality(S) \in Nat /\ Cardinality(S) <= Cardinality(AtWork(e))
  BY <1>1, FS_Subset, FS_CardinalityType
<1>3. QED BY <1>1, <1>2, FS_CardinalityType, FS_AddElement, FS_RemoveElement

\* The end of the work on the head of a batch takes its owner off the event,
\* and off no other one.
LEMMA AdvanceWork ==
  ASSUME TypeOK, BatchDiscipline, NEW p \in Publishers, pc[p] # "idle", Advance(p),
         NEW e \in Events
  PROVE  AtWork(e)' = IF e = Current(p) THEN AtWork(e) \ {p} ELSE AtWork(e)
<1>1. /\ batch[p] # <<>> /\ Current(p) = batch[p][1].event
      /\ Len(batch[p]) \in Nat \ {0} /\ DOMAIN batch[p] = 1..Len(batch[p])
      /\ DOMAIN batch'[p] = 1..(Len(batch[p]) - 1)
      /\ \A k \in DOMAIN batch'[p] : batch'[p][k] = batch[p][k + 1]
      /\ pc'[p] # "mark"
      /\ \A q \in Publishers \ {p} : batch'[q] = batch[q] /\ pc'[q] = pc[q]
  BY BusyHead, AdvanceShift
<1>2. \A q \in Publishers \ {p} : q \in AtWork(e)' <=> q \in AtWork(e)
  BY <1>1 DEF AtWork
<1>3. p \in AtWork(e)' <=> \E k \in 2..Len(batch[p]) : batch[p][k].event = e
  <2>1. p \in AtWork(e)' <=> \E k \in 1..(Len(batch[p]) - 1) : batch[p][k + 1].event = e
    BY <1>1 DEF AtWork
  <2>2. ASSUME NEW k \in 1..(Len(batch[p]) - 1) PROVE k + 1 \in 2..Len(batch[p])
    BY <1>1
  <2>3. ASSUME NEW k \in 2..Len(batch[p])
        PROVE  k - 1 \in 1..(Len(batch[p]) - 1) /\ (k - 1) + 1 = k
    BY <1>1
  <2>4. QED BY <2>1, <2>2, <2>3
<1>4. CASE e = Current(p)
  <2>1. p \notin AtWork(e)'
    BY <1>1, <1>3, <1>4 DEF BatchDiscipline
  <2>2. QED BY <1>2, <1>4, <2>1 DEF AtWork
<1>5. CASE e # Current(p)
  <2>1. p \in AtWork(e) <=> \E k \in 2..Len(batch[p]) : batch[p][k].event = e
    BY <1>1, <1>5 DEF AtWork
  <2>2. QED BY <1>2, <1>3, <1>5, <2>1 DEF AtWork
<1>6. QED BY <1>4, <1>5

\* While p has not sent the head of its batch it is at work on it, afterwards
\* it is not.
LEMMA HeadWork ==
  ASSUME TypeOK, BatchDiscipline, NEW p \in Publishers, pc[p] # "idle"
  PROVE  p \in AtWork(Current(p)) <=> pc[p] # "mark"
<1>1. 1 \in DOMAIN batch[p] /\ Current(p) = batch[p][1].event
  BY BusyHead
<1>2. QED BY <1>1 DEF AtWork, BatchDiscipline

LEMMA ClaimWork ==
  ASSUME TypeOK, BatchDiscipline, NEW p \in Publishers, pc[p] = "idle", pc'[p] = "send",
         UNCHANGED <<copies>>, \A q \in Publishers \ {p} : pc'[q] = pc[q],
         NEW size \in Nat \ {0}, NEW order \in [1..size -> Events], Claims(p, size, order),
         NEW e \in Events
  PROVE  /\ p \notin AtWork(e)
         /\ AtWork(e)' = IF e \in {order[i] : i \in 1..size} THEN AtWork(e) \cup {p}
                                                            ELSE AtWork(e)
<1>1. batch[p] = <<>> /\ DOMAIN batch[p] = {}
  BY DEF BatchDiscipline
<1>2. p \notin AtWork(e)
  BY <1>1 DEF AtWork
<1>3. p \in AtWork(e)' <=> e \in {order[i] : i \in 1..size}
  <2>1. p \in AtWork(e)' <=> \E k \in DOMAIN batch'[p] : batch'[p][k].event = e
    BY DEF AtWork
  <2>2. DOMAIN batch'[p] = 1..size /\ \A i \in 1..size : batch'[p][i].event = order[i]
    BY DEF Claims
  <2>3. QED BY <2>1, <2>2
<1>4. \A q \in Publishers \ {p} : q \in AtWork(e)' <=> q \in AtWork(e)
  BY DEF AtWork, Claims
<1>5. QED BY <1>2, <1>3, <1>4 DEF AtWork

-----------------------------------------------------------------------------
(* Batches and rows stay in order.                                         *)

LEMMA BatchEvents ==
  ASSUME TypeOK, NEW p \in Publishers, NEW k \in DOMAIN batch[p]
  PROVE  batch[p][k].event \in Events
<1>1. batch[p] \in Seq(Record)
  BY DEF TypeOK
<1>2. batch[p][k] \in Record
  BY <1>1, LenProperties
<1>3. QED BY <1>2 DEF Record

\* What is stored stays stored, and copies are never taken back.
LEMMA NothingIsTakenBack ==
  ASSUME TypeOK, BatchDiscipline, [Next]_vars, NEW e \in Events
  PROVE  /\ rows[e].stored => rows'[e].stored
         /\ copies[e] > 0 => copies'[e] > 0
<1>1. rows[e] \in Row /\ copies[e] \in Nat
  BY DEF TypeOK
<1>2. CASE UNCHANGED vars
  BY <1>2 DEF vars
<1>3. ASSUME NEW d \in Events, Store(d) \/ BackoffEnds(d) \/ LeaseExpires(d)
      PROVE  rows'[e].stored = rows[e].stored \/ rows'[e].stored
  <2>1. CASE e = d
    BY <1>1, <1>3, <2>1 DEF Store, BackoffEnds, LeaseExpires, TypeOK, Row
  <2>2. CASE e # d
    BY <1>3, <2>2 DEF Store, BackoffEnds, LeaseExpires, TypeOK
  <2>3. QED BY <2>1, <2>2
<1>4. ASSUME NEW d \in Events, Store(d) \/ BackoffEnds(d) \/ LeaseExpires(d)
      PROVE  copies' = copies
  BY <1>4 DEF Store, BackoffEnds, LeaseExpires
<1>5. ASSUME NEW p \in Publishers, Claim(p)
      PROVE  copies' = copies /\ rows'[e].stored = rows[e].stored
  <2>1. PICK size \in Nat \ {0} : \E order \in [1..size -> Events] : Claims(p, size, order)
    BY <1>5, ClaimBatch
  <2>2. rows'[e].stored = rows[e].stored
    BY <1>1, <2>1 DEF Claims, Row
  <2>3. QED BY <1>5, <2>2 DEF Claim
<1>6. ASSUME NEW p \in Publishers, Send(p) \/ SendFails(p)
      PROVE  rows' = rows /\ (copies[e] > 0 => copies'[e] > 0)
  <2>1. pc[p] # "idle" /\ rows' = rows
    BY <1>6 DEF Send, SendFails
  <2>2. copies' = copies \/ copies' = [copies EXCEPT ![Current(p)] = @ + 1]
    BY <1>6 DEF Send, SendFails
  <2>3. copies[e] > 0 => copies'[e] > 0
    <3>1. copies'[e] = copies[e] \/ copies'[e] = copies[e] + 1
      BY <2>2 DEF TypeOK
    <3>2. QED BY <1>1, <3>1
  <2>4. QED BY <2>1, <2>3
<1>7. ASSUME NEW p \in Publishers, Mark(p) \/ Release(p) \/ ConfirmationFails(p) \/ Crash(p)
      PROVE  copies' = copies /\ rows'[e].stored = rows[e].stored
  <2>1. copies' = copies
    BY <1>7 DEF Mark, Release, ConfirmationFails, Crash
  <2>2. rows'[e].stored = rows[e].stored
    <3>1. CASE Mark(p)
      BY <1>1, <3>1 DEF Mark, TypeOK, Row
    <3>2. CASE Release(p)
      BY <1>1, <3>2 DEF Release, Backoff, TypeOK, Row
    <3>3. QED BY <1>7, <3>1, <3>2 DEF ConfirmationFails, Crash
  <2>3. QED BY <2>1, <2>2
<1>8. QED BY <1>2, <1>3, <1>4, <1>5, <1>6, <1>7 DEF Next, Step

\* A publisher whose batch did not change still has it in order.
LEMMA DisciplineFrame ==
  ASSUME TypeOK, BatchDiscipline, [Next]_vars, NEW q \in Publishers,
         batch'[q] = batch[q], pc'[q] = "idle" <=> pc[q] = "idle",
         pc'[q] = "mark" => pc[q] = "mark" \/ copies'[batch[q][1].event] > 0
  PROVE  /\ pc'[q] = "idle" <=> batch'[q] = <<>>
         /\ \A k \in DOMAIN batch'[q] : rows'[batch'[q][k].event].stored
         /\ \A j, k \in DOMAIN batch'[q] : batch'[q][j].event = batch'[q][k].event => j = k
         /\ pc'[q] = "mark" => copies'[batch'[q][1].event] > 0
<1>1. \A k \in DOMAIN batch[q] : batch[q][k].event \in Events
  BY BatchEvents
<1>2. pc[q] = "mark" => batch[q][1].event \in Events
  BY BusyHead
<1>3. QED BY <1>1, <1>2, NothingIsTakenBack DEF BatchDiscipline

LEMMA BatchNext == TypeOK /\ BatchDiscipline /\ [Next]_vars => BatchDiscipline'
<1> SUFFICES ASSUME TypeOK, BatchDiscipline, [Next]_vars PROVE BatchDiscipline'
  OBVIOUS
<1>1. CASE UNCHANGED vars
  BY <1>1, DisciplineFrame DEF vars, BatchDiscipline
<1>2. ASSUME NEW e \in Events, Store(e) \/ BackoffEnds(e) \/ LeaseExpires(e)
      PROVE  BatchDiscipline'
  <2>1. UNCHANGED <<pc, batch, copies>>
    BY <1>2 DEF Store, BackoffEnds, LeaseExpires
  <2>2. QED BY <2>1, DisciplineFrame DEF BatchDiscipline
<1>3. ASSUME NEW p \in Publishers, Claim(p) PROVE BatchDiscipline'
  <2>1. PICK size \in Nat \ {0} : \E order \in [1..size -> Events] : Claims(p, size, order)
    BY <1>3, ClaimBatch
  <2>2. PICK order \in [1..size -> Events] : Claims(p, size, order)
    BY <2>1
  <2>3. /\ \A q \in Publishers \ {p} : batch'[q] = batch[q] /\ pc'[q] = pc[q]
        /\ pc'[p] = "send" /\ DOMAIN batch'[p] = 1..size
    BY <1>3, <2>2 DEF Claim, Claims, TypeOK
  <2>4. \A k \in 1..size : order[k] \in Events /\ rows[order[k]].stored
    BY <2>2 DEF Claims, Claimable
  <2>5. \A k \in 1..size : rows'[batch'[p][k].event].stored
    BY <2>2, <2>4, NothingIsTakenBack DEF Claims
  <2>6. \A j, k \in 1..size : batch'[p][j].event = batch'[p][k].event => j = k
    BY <2>2 DEF Claims
  <2>7. batch'[p] # <<>>
    <3>1. 1 \in DOMAIN batch'[p]
      BY <2>3
    <3>2. QED BY <3>1
  <2>8. QED BY <2>3, <2>5, <2>6, <2>7, DisciplineFrame DEF BatchDiscipline
<1>4. ASSUME NEW p \in Publishers, Send(p) \/ SendFails(p) PROVE BatchDiscipline'
  <2>1. /\ batch' = batch /\ pc[p] = "send" /\ pc'[p] \in {"mark", "release"}
        /\ \A q \in Publishers \ {p} : pc'[q] = pc[q]
    BY <1>4 DEF Send, SendFails, TypeOK
  <2>2. pc'[p] = "mark" => copies'[batch[p][1].event] > 0
    <3>1. pc'[p] = "mark" => copies' = [copies EXCEPT ![Current(p)] = @ + 1]
      BY <1>4 DEF Send, SendFails, TypeOK
    <3>2. Current(p) \in Events /\ Current(p) = batch[p][1].event
      BY <2>1, BusyHead
    <3>3. QED BY <3>1, <3>2 DEF TypeOK
  <2>3. QED BY <2>1, <2>2, DisciplineFrame DEF BatchDiscipline
<1>5. ASSUME NEW p \in Publishers, Mark(p) \/ Release(p) \/ ConfirmationFails(p)
      PROVE  BatchDiscipline'
  <2>1. pc[p] # "idle" /\ Advance(p)
    BY <1>5 DEF Mark, Release, ConfirmationFails
  <2>2. /\ batch[p] # <<>> /\ Len(batch[p]) \in Nat \ {0} /\ DOMAIN batch[p] = 1..Len(batch[p])
        /\ DOMAIN batch'[p] = 1..(Len(batch[p]) - 1)
        /\ \A k \in DOMAIN batch'[p] : batch'[p][k] = batch[p][k + 1]
        /\ pc'[p] \in {"idle", "send"} /\ (pc'[p] = "idle" <=> batch'[p] = <<>>)
        /\ \A q \in Publishers \ {p} : batch'[q] = batch[q] /\ pc'[q] = pc[q]
    BY <2>1, BusyHead, AdvanceShift
  <2>3. \A k \in DOMAIN batch'[p] : k + 1 \in DOMAIN batch[p]
    BY <2>2
  <2>4. \A k \in DOMAIN batch[p] : batch[p][k].event \in Events
    BY BatchEvents
  <2>5. \A k \in DOMAIN batch'[p] : rows'[batch'[p][k].event].stored
    BY <2>2, <2>3, <2>4, NothingIsTakenBack DEF BatchDiscipline
  <2>6. \A j, k \in DOMAIN batch'[p] : batch'[p][j].event = batch'[p][k].event => j = k
    <3> SUFFICES ASSUME NEW j \in DOMAIN batch'[p], NEW k \in DOMAIN batch'[p],
                        batch'[p][j].event = batch'[p][k].event
                 PROVE  j = k
      OBVIOUS
    <3>1. j + 1 = k + 1
      BY <2>2, <2>3 DEF BatchDiscipline
    <3>2. QED BY <2>2, <3>1
  <2>7. QED BY <2>2, <2>5, <2>6, DisciplineFrame DEF BatchDiscipline
<1>6. ASSUME NEW p \in Publishers, Crash(p) PROVE BatchDiscipline'
  <2>1. /\ \A q \in Publishers \ {p} : batch'[q] = batch[q] /\ pc'[q] = pc[q]
        /\ pc'[p] = "idle" /\ batch'[p] = <<>>
    BY <1>6 DEF Crash, TypeOK
  <2>2. QED BY <2>1, DisciplineFrame DEF BatchDiscipline
<1>7. QED BY <1>1, <1>2, <1>3, <1>4, <1>5, <1>6 DEF Next, Step

\* No statement touches a published row.
LEMMA PublishedStays ==
  ASSUME TypeOK, BatchDiscipline, RowDiscipline, [Next]_vars,
         NEW e \in Events, rows[e].published
  PROVE  rows'[e] = rows[e]
<1>1. rows[e].stored /\ rows[e].lease = "free"
  BY DEF RowDiscipline
<1>2. CASE UNCHANGED vars
  BY <1>2 DEF vars
<1>3. ASSUME NEW d \in Events, Store(d) \/ BackoffEnds(d) \/ LeaseExpires(d)
      PROVE  rows'[e] = rows[e]
  BY <1>1, <1>3 DEF Store, BackoffEnds, LeaseExpires, TypeOK
<1>4. ASSUME NEW p \in Publishers, Claim(p) PROVE rows'[e] = rows[e]
  <2>1. PICK size \in Nat \ {0} : \E order \in [1..size -> Events] : Claims(p, size, order)
    BY <1>4, ClaimBatch
  <2>2. QED BY <2>1 DEF Claims, Claimable
<1>5. ASSUME NEW p \in Publishers, Mark(p) \/ Release(p) PROVE rows'[e] = rows[e]
  BY <1>5 DEF Mark, Release, TypeOK
<1>6. ASSUME NEW p \in Publishers,
             Send(p) \/ SendFails(p) \/ ConfirmationFails(p) \/ Crash(p)
      PROVE  rows'[e] = rows[e]
  BY <1>6 DEF Send, SendFails, ConfirmationFails, Crash
<1>7. QED BY <1>2, <1>3, <1>4, <1>5, <1>6 DEF Next, Step

\* The clock publishes nothing, and only the end of a lease touches a lease.
LEMMA ClockColumns ==
  ASSUME TypeOK, NEW d \in Events, NEW e \in Events
  PROVE  /\ Store(d) \/ BackoffEnds(d) \/ LeaseExpires(d) =>
              rows'[e].published = rows[e].published
         /\ Store(d) \/ BackoffEnds(d) => rows'[e].lease = rows[e].lease
<1>1. rows[e] \in Row /\ rows \in [Events -> Row]
  BY DEF TypeOK
<1>2. CASE Store(d)
  <2>1. rows' = [rows EXCEPT ![d] = [rows[d] EXCEPT !.stored = TRUE, !.due = TRUE]]
    BY <1>1, <1>2 DEF Store
  <2>2. QED BY <1>1, <1>2, <2>1 DEF Row, Store, BackoffEnds, LeaseExpires
<1>3. CASE BackoffEnds(d)
  <2>1. rows' = [rows EXCEPT ![d] = [rows[d] EXCEPT !.due = TRUE]]
    BY <1>1, <1>3 DEF BackoffEnds
  <2>2. QED BY <1>1, <1>3, <2>1 DEF Row
<1>4. CASE LeaseExpires(d) /\ ~ Store(d) /\ ~ BackoffEnds(d)
  <2>1. rows' = [rows EXCEPT ![d] = [rows[d] EXCEPT !.lease = "expired"]]
    BY <1>1, <1>4 DEF LeaseExpires
  <2>2. QED BY <1>1, <1>4, <2>1 DEF Row
<1>5. QED BY <1>2, <1>3, <1>4

\* Only Mark publishes, after a copy, and it ends the lease.
LEMMA PublishedBySending ==
  ASSUME TypeOK, BatchDiscipline, [Next]_vars,
         NEW e \in Events, ~ rows[e].published, rows'[e].published
  PROVE  copies'[e] > 0 /\ rows'[e].lease = "free"
<1>1. rows[e] \in Row
  BY DEF TypeOK
<1>2. CASE UNCHANGED vars
  BY <1>2 DEF vars
<1>3. ASSUME NEW d \in Events, Store(d) \/ BackoffEnds(d) \/ LeaseExpires(d)
      PROVE  FALSE
  BY <1>3, ClockColumns
<1>4. ASSUME NEW p \in Publishers, Claim(p) PROVE FALSE
  <2>1. PICK size \in Nat \ {0} : \E order \in [1..size -> Events] : Claims(p, size, order)
    BY <1>4, ClaimBatch
  <2>2. QED BY <1>1, <2>1 DEF Claims, Row
<1>5. ASSUME NEW p \in Publishers, Mark(p) PROVE copies'[e] > 0 /\ rows'[e].lease = "free"
  <2>1. e = Current(p) /\ rows' = [rows EXCEPT ![e] = [@ EXCEPT !.published = TRUE, !.lease = "free"]]
    BY <1>5 DEF Mark, TypeOK
  <2>2. copies' = copies /\ copies[e] > 0
    BY <1>5, <2>1, BusyHead DEF Mark, BatchDiscipline
  <2>3. QED BY <1>1, <2>1, <2>2 DEF TypeOK, Row
<1>6. ASSUME NEW p \in Publishers, Release(p) PROVE FALSE
  BY <1>1, <1>6 DEF Release, Backoff, TypeOK, Row
<1>7. ASSUME NEW p \in Publishers,
             Send(p) \/ SendFails(p) \/ ConfirmationFails(p) \/ Crash(p)
      PROVE  FALSE
  BY <1>7 DEF Send, SendFails, ConfirmationFails, Crash
<1>8. QED BY <1>2, <1>3, <1>4, <1>5, <1>6, <1>7 DEF Next, Step

\* Only the publisher of a stored event makes a copy of it.
LEMMA CopiesAreStored ==
  ASSUME TypeOK, BatchDiscipline, RowDiscipline, [Next]_vars, NEW e \in Events, copies'[e] > 0
  PROVE  rows'[e].stored
<1>1. CASE copies'[e] = copies[e]
  BY <1>1, NothingIsTakenBack DEF RowDiscipline
<1>2. CASE copies'[e] # copies[e]
  <2>1. PICK p \in Publishers : Send(p) \/ SendFails(p)
    BY <1>2 DEF Next, vars, Store, BackoffEnds, LeaseExpires, Step, Claim, Mark, Release,
                ConfirmationFails, Crash
  <2>2. pc[p] # "idle" /\ e = Current(p)
    BY <1>2, <2>1 DEF Send, SendFails, TypeOK
  <2>3. rows[e].stored
    BY <2>2, BusyHead DEF BatchDiscipline
  <2>4. QED BY <2>3, NothingIsTakenBack
<1>3. QED BY <1>1, <1>2

LEMMA RowNext == TypeOK /\ BatchDiscipline /\ RowDiscipline /\ [Next]_vars => RowDiscipline'
<1> SUFFICES ASSUME TypeOK, BatchDiscipline, RowDiscipline, [Next]_vars, NEW e \in Events
             PROVE  /\ copies'[e] > 0 => rows'[e].stored
                    /\ rows'[e].published => copies'[e] > 0 /\ rows'[e].lease = "free"
  BY DEF RowDiscipline
<1>1. copies'[e] > 0 => rows'[e].stored
  BY CopiesAreStored
<1>2. CASE rows[e].published
  BY <1>1, <1>2, PublishedStays, NothingIsTakenBack DEF RowDiscipline
<1>3. CASE ~ rows[e].published
  BY <1>1, <1>3, PublishedBySending
<1>4. QED BY <1>2, <1>3

-----------------------------------------------------------------------------
(* The budget of copies.                                                   *)

Share(e) == IF Invites(e) THEN 1 ELSE 0

LEMMA BudgetNext ==
  TypeOK /\ BatchDiscipline /\ CopiesAreBudgeted /\ [Next]_vars => CopiesAreBudgeted'
<1> SUFFICES ASSUME TypeOK, BatchDiscipline, CopiesAreBudgeted, [Next]_vars, NEW e \in Events
             PROVE  copies'[e] + Cardinality(AtWork(e)') + Share(e)' <= 1 + excuses'[e]
  BY DEF CopiesAreBudgeted, Share
<1> DEFINE n == Cardinality(AtWork(e))
<1>1. /\ copies[e] + n + Share(e) <= 1 + excuses[e]
      /\ copies[e] \in Nat /\ excuses[e] \in Nat /\ n \in Nat
      /\ Share(e) \in {0, 1} /\ Share(e)' \in {0, 1}
      /\ rows[e] \in Row
  BY WorkersAreCounted DEF CopiesAreBudgeted, Share, TypeOK
<1> HIDE DEF n
<1>2. CASE UNCHANGED vars
  <2>1. AtWork(e)' = AtWork(e) /\ Share(e)' = Share(e)
    BY <1>2 DEF vars, AtWork, Share, Invites
  <2>2. QED BY <1>1, <1>2, <2>1 DEF vars, n
<1>3. ASSUME NEW d \in Events, Store(d) \/ BackoffEnds(d)
      PROVE  copies'[e] + Cardinality(AtWork(e)') + Share(e)' <= 1 + excuses'[e]
  <2>1. AtWork(e)' = AtWork(e) /\ UNCHANGED <<copies, excuses>>
    BY <1>3 DEF Store, BackoffEnds, AtWork
  <2>2. rows'[e].published = rows[e].published /\ rows'[e].lease = rows[e].lease
    BY <1>3, ClockColumns
  <2>3. QED BY <1>1, <2>1, <2>2 DEF Share, Invites, n
<1>4. ASSUME NEW d \in Events, LeaseExpires(d)
      PROVE  copies'[e] + Cardinality(AtWork(e)') + Share(e)' <= 1 + excuses'[e]
  <2>1. AtWork(e)' = AtWork(e) /\ UNCHANGED <<copies>>
    BY <1>4 DEF LeaseExpires, AtWork
  <2>2. CASE e = d
    <3>1. excuses'[e] = excuses[e] + 1 /\ Share(e) = 0 
      BY <1>1, <1>4, <2>2 DEF LeaseExpires, TypeOK, Share, Invites
    <3>2. QED BY <1>1, <2>1, <3>1 DEF n
  <2>3. CASE e # d
    <3>1. excuses'[e] = excuses[e] /\ rows'[e] = rows[e]
      BY <1>4, <2>3 DEF LeaseExpires, TypeOK
    <3>2. QED BY <1>1, <2>1, <3>1 DEF Share, Invites, n
  <2>4. QED BY <2>2, <2>3
<1>5. ASSUME NEW p \in Publishers, Claim(p)
      PROVE  copies'[e] + Cardinality(AtWork(e)') + Share(e)' <= 1 + excuses'[e]
  <2>1. PICK size \in Nat \ {0} : \E order \in [1..size -> Events] : Claims(p, size, order)
    BY <1>5, ClaimBatch
  <2>2. PICK order \in [1..size -> Events] : Claims(p, size, order)
    BY <2>1
  <2> DEFINE claimed == {order[i] : i \in 1..size}
  <2>3. /\ pc[p] = "idle" /\ pc'[p] = "send" /\ UNCHANGED <<copies, excuses>>
        /\ \A q \in Publishers \ {p} : pc'[q] = pc[q]
    BY <1>5 DEF Claim, TypeOK
  <2>4. /\ p \notin AtWork(e)
        /\ AtWork(e)' = IF e \in claimed THEN AtWork(e) \cup {p} ELSE AtWork(e)
    BY <2>2, <2>3, ClaimWork
  <2>5. CASE e \in claimed
    <3>1. Share(e) = 1
      BY <2>2, <2>5 DEF Claims, Claimable, Share, Invites
    <3>2. Share(e)' = 0
      BY <1>1, <2>2, <2>5 DEF Claims, Share, Invites, Row
    <3>3. Cardinality(AtWork(e)') = n + 1
      BY <2>4, <2>5, WorkersAreCounted DEF n
    <3>4. QED BY <1>1, <2>3, <3>1, <3>2, <3>3
  <2>6. CASE e \notin claimed
    <3>1. rows'[e] = rows[e]
      BY <2>2, <2>6 DEF Claims
    <3>2. QED BY <1>1, <2>3, <2>4, <2>6, <3>1 DEF Share, Invites, n
  <2>7. QED BY <2>5, <2>6
<1>6. ASSUME NEW p \in Publishers, Send(p)
      PROVE  copies'[e] + Cardinality(AtWork(e)') + Share(e)' <= 1 + excuses'[e]
  <2>1. /\ pc[p] = "send" /\ pc'[p] = "mark" /\ UNCHANGED <<rows, batch, excuses>>
        /\ \A q \in Publishers \ {p} : pc'[q] = pc[q]
        /\ copies' = [copies EXCEPT ![Current(p)] = @ + 1]
    BY <1>6 DEF Send, TypeOK
  <2>2. /\ Share(e)' = Share(e)
        /\ \A q \in Publishers \ {p} : q \in AtWork(e)' <=> q \in AtWork(e)
    BY <2>1 DEF Share, Invites, AtWork
  <2>3. 1 \in DOMAIN batch[p] /\ Current(p) = batch[p][1].event
    BY <2>1, BusyHead
  <2>4. CASE e = Current(p)
    <3>1. p \in AtWork(e) /\ p \notin AtWork(e)'
      BY <2>1, <2>3, <2>4 DEF AtWork, BatchDiscipline
    <3>2. AtWork(e)' = AtWork(e) \ {p}
      BY <2>2, <3>1 DEF AtWork
    <3>3. Cardinality(AtWork(e)') = n - 1
      BY <3>1, <3>2, WorkersAreCounted DEF n
    <3>4. copies'[e] = copies[e] + 1
      BY <2>1, <2>4 DEF TypeOK
    <3>5. QED BY <1>1, <2>1, <2>2, <3>3, <3>4
  <2>5. CASE e # Current(p)
    <3>1. AtWork(e)' = AtWork(e)
      BY <2>1, <2>2, <2>3, <2>5 DEF AtWork
    <3>2. copies'[e] = copies[e]
      BY <2>1, <2>5 DEF TypeOK
    <3>3. QED BY <1>1, <2>1, <2>2, <3>1, <3>2 DEF n
  <2>6. QED BY <2>4, <2>5
<1>7. ASSUME NEW p \in Publishers, SendFails(p)
      PROVE  copies'[e] + Cardinality(AtWork(e)') + Share(e)' <= 1 + excuses'[e]
  <2>1. AtWork(e)' = AtWork(e) /\ Share(e)' = Share(e)
    BY <1>7 DEF SendFails, TypeOK, AtWork, Share, Invites
  <2>2. \/ copies'[e] = copies[e] /\ excuses'[e] = excuses[e]
        \/ copies'[e] = copies[e] + 1 /\ excuses'[e] = excuses[e] + 1
    BY <1>7 DEF SendFails, TypeOK
  <2>3. QED BY <1>1, <2>1, <2>2 DEF n
<1>8. ASSUME NEW p \in Publishers, Mark(p) \/ Release(p) \/ ConfirmationFails(p)
      PROVE  copies'[e] + Cardinality(AtWork(e)') + Share(e)' <= 1 + excuses'[e]
  <2>1. pc[p] # "idle" /\ Advance(p) /\ UNCHANGED <<copies, excuses>>
    BY <1>8 DEF Mark, Release, ConfirmationFails
  <2>2. AtWork(e)' = IF e = Current(p) THEN AtWork(e) \ {p} ELSE AtWork(e)
    BY <2>1, AdvanceWork
  <2>3. Cardinality(AtWork(e)') \in Nat /\ Cardinality(AtWork(e)') <= n
    <3>1. AtWork(e)' \in SUBSET AtWork(e)
      BY <2>2
    <3>2. QED BY <3>1, WorkersAreCounted DEF n
  <2>4. CASE e # Current(p) \/ ~ Release(p)
    <3>1. Share(e)' <= Share(e)
      <4>1. CASE Mark(p)
        BY <1>1, <4>1 DEF Mark, TypeOK, Row, Share, Invites
      <4>2. CASE e # Current(p) /\ Release(p)
        BY <1>1, <4>2 DEF Release, TypeOK, Share, Invites
      <4>3. CASE ConfirmationFails(p)
        BY <1>1, <4>3 DEF ConfirmationFails, Share, Invites
      <4>4. QED BY <1>8, <2>4, <4>1, <4>2, <4>3
    <3>2. QED BY <1>1, <2>1, <2>3, <3>1
  <2>5. CASE e = Current(p) /\ Release(p)
    <3>1. p \in AtWork(e)
      BY <2>1, <2>5, HeadWork DEF Release
    <3>2. Cardinality(AtWork(e)') = n - 1
      BY <2>2, <2>5, <3>1, WorkersAreCounted DEF n
    <3>3. QED BY <1>1, <2>1, <3>2
  <2>6. QED BY <2>4, <2>5
<1>9. ASSUME NEW p \in Publishers, Crash(p)
      PROVE  copies'[e] + Cardinality(AtWork(e)') + Share(e)' <= 1 + excuses'[e]
  <2>1. UNCHANGED <<rows, copies, excuses>>
    BY <1>9 DEF Crash
  <2>2. AtWork(e)' \in SUBSET AtWork(e)
    BY <1>9 DEF Crash, TypeOK, AtWork
  <2>3. Cardinality(AtWork(e)') \in Nat /\ Cardinality(AtWork(e)') <= n
    BY <2>2, WorkersAreCounted DEF n
  <2>4. Share(e)' = Share(e)
    BY <2>1 DEF Share, Invites
  <2>5. QED BY <1>1, <2>1, <2>3, <2>4
<1>10. QED BY <1>2, <1>3, <1>4, <1>5, <1>6, <1>7, <1>8, <1>9 DEF Next, Step

-----------------------------------------------------------------------------
(* The theorems.                                                           *)

LEMMA OutboxInvariantInit == Init => TypeOK /\ OutboxInvariant
<1> SUFFICES ASSUME Init PROVE OutboxInvariant
  BY OutboxTypeInit
<1>1. BatchDiscipline
  BY DEF Init, BatchDiscipline
<1>2. RowDiscipline
  BY DEF Init, RowDiscipline, NoRow
<1>3. CopiesAreBudgeted
  <2> SUFFICES ASSUME NEW e \in Events
               PROVE  copies[e] + Cardinality(AtWork(e)) + (IF Invites(e) THEN 1 ELSE 0) <= 1 + excuses[e]
    BY DEF CopiesAreBudgeted
  <2>1. AtWork(e) = {}
    BY DEF Init, AtWork
  <2>2. Cardinality(AtWork(e)) = 0
    BY <2>1, FS_EmptySet
  <2>3. QED BY <2>2 DEF Init
<1>4. QED BY <1>1, <1>2, <1>3 DEF OutboxInvariant

LEMMA OutboxInvariantNext ==
  TypeOK /\ OutboxInvariant /\ [Next]_vars => TypeOK' /\ OutboxInvariant'
<1> SUFFICES ASSUME TypeOK, OutboxInvariant, [Next]_vars PROVE TypeOK' /\ OutboxInvariant'
  OBVIOUS
<1>1. TypeOK'
  <2>1. CASE UNCHANGED vars
    BY <2>1 DEF vars, TypeOK
  <2>2. QED BY <2>1, ClockTypes, PublisherTypes DEF Next, OutboxInvariant
<1>2. OutboxInvariant'
  BY BatchNext, RowNext, BudgetNext DEF OutboxInvariant
<1>3. QED BY <1>1, <1>2

\* The invariant of the publishers, with the copies that are still to come.
THEOREM OutboxInvariantCorrect == Spec => []OutboxInvariant
BY OutboxInvariantInit, OutboxInvariantNext, PTL DEF Spec

\* However many publishers run, whatever fails and however late: a copy beyond
\* the first is paid for by a lease that ran out or a send that lied
\* (OutboxRepository.Claim, MarkPublished, ReleaseWithBackoff).
THEOREM CopiesCorrect == Spec => []CopiesAreExplained
<1>1. TypeOK /\ OutboxInvariant => CopiesAreExplained
  <2> SUFFICES ASSUME TypeOK, OutboxInvariant, NEW e \in Events
               PROVE  copies[e] <= 1 + excuses[e]
    BY DEF CopiesAreExplained
  <2>1. copies[e] \in Nat /\ excuses[e] \in Nat /\ Cardinality(AtWork(e)) \in Nat
    BY WorkersAreCounted DEF TypeOK
  <2>2. copies[e] + Cardinality(AtWork(e)) + (IF Invites(e) THEN 1 ELSE 0) <= 1 + excuses[e]
    BY DEF OutboxInvariant, CopiesAreBudgeted
  <2>3. QED BY <2>1, <2>2
<1>2. QED BY <1>1, OutboxInvariantInit, OutboxInvariantNext, PTL DEF Spec

\* A published row is final: no late publisher reschedules it, no claim returns
\* it (published_at IS NULL in the three statements).
THEOREM PublishedCorrect == Spec => PublishedIsFinal
<1>1. TypeOK /\ OutboxInvariant /\ [Next]_vars =>
        [\A e \in Events : rows[e].published => rows'[e] = rows[e]]_rows
  BY PublishedStays DEF OutboxInvariant
<1>2. QED BY <1>1, OutboxInvariantInit, OutboxInvariantNext, PTL DEF Spec, PublishedIsFinal

\* Every reachable state of the publishers is well typed.
THEOREM OutboxTypeCorrect == Spec => []TypeOK
BY OutboxInvariantInit, OutboxInvariantNext, PTL DEF Spec

-----------------------------------------------------------------------------
(* The publishers implement the safety part of EventDelivery.              *)

StoredEvents == {e \in Events : rows[e].stored}
DeliveredEvents == {e \in Events : copies[e] > 0}
ConfirmedEvents == {e \in Events : rows[e].published}

\* Which columns EventDelivery sees change in which step.
LEMMA VisibleChanges ==
  ASSUME TypeOK, BatchDiscipline, Next
  PROVE  \/ \E e \in Events : Store(e)
         \/ \E p \in Publishers : (Send(p) \/ SendFails(p)) /\ copies' # copies
         \/ \E p \in Publishers : Mark(p)
         \/ /\ copies' = copies
            /\ \A e \in Events : /\ rows'[e].stored = rows[e].stored
                                 /\ rows'[e].published = rows[e].published
<1>1. \A e \in Events : rows[e] \in Row
  BY DEF TypeOK
<1>2. ASSUME NEW d \in Events, BackoffEnds(d) \/ LeaseExpires(d)
      PROVE  /\ copies' = copies
             /\ \A e \in Events : /\ rows'[e].stored = rows[e].stored
                                  /\ rows'[e].published = rows[e].published
  <2>1. copies' = copies /\ rows \in [Events -> Row]
    BY <1>2 DEF BackoffEnds, LeaseExpires, TypeOK
  <2>2. \/ rows' = [rows EXCEPT ![d] = [rows[d] EXCEPT !.due = TRUE]]
        \/ rows' = [rows EXCEPT ![d] = [rows[d] EXCEPT !.lease = "expired"]]
    BY <1>2, <2>1 DEF BackoffEnds, LeaseExpires
  <2>3. QED BY <2>1, <2>2 DEF Row
<1>3. ASSUME NEW p \in Publishers, Claim(p)
      PROVE  /\ copies' = copies
             /\ \A e \in Events : /\ rows'[e].stored = rows[e].stored
                                  /\ rows'[e].published = rows[e].published
  <2>1. PICK size \in Nat \ {0} : \E order \in [1..size -> Events] : Claims(p, size, order)
    BY <1>3, ClaimBatch
  <2>2. QED BY <1>1, <1>3, <2>1 DEF Claim, Claims, Row
<1>4. ASSUME NEW p \in Publishers, Release(p)
      PROVE  /\ copies' = copies
             /\ \A e \in Events : /\ rows'[e].stored = rows[e].stored
                                  /\ rows'[e].published = rows[e].published
  BY <1>1, <1>4 DEF Release, Backoff, TypeOK, Row
<1>5. ASSUME NEW p \in Publishers, Send(p) \/ SendFails(p) \/ ConfirmationFails(p) \/ Crash(p)
      PROVE  rows' = rows /\ (ConfirmationFails(p) \/ Crash(p) => copies' = copies)
  BY <1>5 DEF Send, SendFails, ConfirmationFails, Crash
<1>6. QED BY <1>2, <1>3, <1>4, <1>5 DEF Next, Step

LEMMA DeliveryStep ==
  ASSUME TypeOK, OutboxInvariant, [Next]_vars
  PROVE  [Delivery!Next]_(Delivery!dvars)
<1> USE DEF StoredEvents, DeliveredEvents, ConfirmedEvents
<1>1. \A e \in Events : rows[e] \in Row /\ copies[e] \in Nat
  BY DEF TypeOK
<1>2. SUFFICES \/ UNCHANGED <<StoredEvents, DeliveredEvents, ConfirmedEvents>>
               \/ \E e \in Events \ StoredEvents :
                    /\ StoredEvents' = StoredEvents \cup {e}
                    /\ UNCHANGED <<DeliveredEvents, ConfirmedEvents>>
               \/ \E e \in StoredEvents :
                    /\ DeliveredEvents' = DeliveredEvents \cup {e}
                    /\ UNCHANGED <<StoredEvents, ConfirmedEvents>>
               \/ \E e \in DeliveredEvents :
                    /\ ConfirmedEvents' = ConfirmedEvents \cup {e}
                    /\ UNCHANGED <<StoredEvents, DeliveredEvents>>
  BY DEF Delivery!Next, Delivery!dvars, Delivery!Store, Delivery!Deliver, Delivery!Confirm
<1>3. CASE UNCHANGED vars
  BY <1>3 DEF vars
<1>4. ASSUME NEW e \in Events, Store(e)
      PROVE  /\ e \notin StoredEvents /\ StoredEvents' = StoredEvents \cup {e}
             /\ UNCHANGED <<DeliveredEvents, ConfirmedEvents>>
  <2>1. /\ rows \in [Events -> Row] /\ ~ rows[e].stored /\ copies' = copies
        /\ rows' = [rows EXCEPT ![e] = [rows[e] EXCEPT !.stored = TRUE, !.due = TRUE]]
    BY <1>4 DEF Store, TypeOK
  <2>2. QED BY <2>1 DEF Row
<1>5. ASSUME NEW p \in Publishers, Send(p) \/ SendFails(p), copies' # copies
      PROVE  /\ Current(p) \in StoredEvents
             /\ DeliveredEvents' = DeliveredEvents \cup {Current(p)}
             /\ UNCHANGED <<StoredEvents, ConfirmedEvents>>
  <2>1. pc[p] # "idle" /\ rows' = rows /\ copies' = [copies EXCEPT ![Current(p)] = @ + 1]
    BY <1>5 DEF Send, SendFails
  <2>2. Current(p) \in Events /\ rows[Current(p)].stored
    BY <2>1, BusyHead DEF OutboxInvariant, BatchDiscipline
  <2>3. QED BY <1>1, <2>1, <2>2 DEF TypeOK
<1>6. ASSUME NEW p \in Publishers, Mark(p)
      PROVE  /\ Current(p) \in DeliveredEvents
             /\ ConfirmedEvents' = ConfirmedEvents \cup {Current(p)}
             /\ UNCHANGED <<StoredEvents, DeliveredEvents>>
  <2>1. pc[p] = "mark" /\ copies' = copies
    BY <1>6 DEF Mark
  <2>2. Current(p) \in Events /\ copies[Current(p)] > 0
    BY <2>1, BusyHead DEF OutboxInvariant, BatchDiscipline
  <2>3. \/ rows[Current(p)].published /\ rows' = rows
        \/ rows' = [rows EXCEPT ![Current(p)] =
                      [rows[Current(p)] EXCEPT !.published = TRUE, !.lease = "free"]]
    BY <1>6, <2>2 DEF Mark, TypeOK
  <2>4. \A e \in Events :
          /\ rows'[e].stored <=> rows[e].stored
          /\ rows'[e].published <=> (rows[e].published \/ e = Current(p))
    <3>1. CASE rows[Current(p)].published /\ rows' = rows
      BY <3>1
    <3>2. CASE rows' = [rows EXCEPT ![Current(p)] =
                         [rows[Current(p)] EXCEPT !.published = TRUE, !.lease = "free"]]
      BY <1>1, <2>2, <3>2 DEF TypeOK, Row
    <3>3. QED BY <2>3, <3>1, <3>2
  <2>5. Current(p) \in DeliveredEvents /\ DeliveredEvents' = DeliveredEvents
    BY <2>1, <2>2
  <2>6. StoredEvents' = StoredEvents
    BY <2>4
  <2>7. ConfirmedEvents' = ConfirmedEvents \cup {Current(p)}
    BY <2>2, <2>4
  <2>8. QED BY <2>5, <2>6, <2>7
<1>7. CASE /\ copies' = copies
           /\ \A e \in Events : /\ rows'[e].stored = rows[e].stored
                                /\ rows'[e].published = rows[e].published
  BY <1>7
<1>8. QED BY <1>3, <1>4, <1>5, <1>6, <1>7, VisibleChanges DEF OutboxInvariant

\* Every step of the publishers is a step of the promised delivery or none: an
\* event is sent after its commit and confirmed after it was sent.
THEOREM DeliveryIsOrdered == Spec => Delivery!Init /\ [][Delivery!Next]_(Delivery!dvars)
<1>1. Init => Delivery!Init
  BY DEF Init, NoRow, Delivery!Init
<1>2. TypeOK /\ OutboxInvariant /\ [Next]_vars => [Delivery!Next]_(Delivery!dvars)
  BY DeliveryStep
<1>3. QED BY <1>1, <1>2, OutboxInvariantInit, OutboxInvariantNext, PTL DEF Spec
=============================================================================

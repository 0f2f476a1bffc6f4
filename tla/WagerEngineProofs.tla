-------------------------- MODULE WagerEngineProofs --------------------------
(***************************************************************************)
(* Type correctness of WagerEngine, that its ledgers back its balances,    *)
(* that a key and an external id name one operation, and that a settled    *)
(* operation never changes, for any wallets, requests, processes and       *)
(* messages.                                                               *)
(***************************************************************************)
EXTENDS WagerEngine, TLAPS, SequenceTheorems

-----------------------------------------------------------------------------
(* Rows, plans and jobs.                                                   *)

\* A stored request names a wallet and an amount that fits.
LEMMA RequestFields ==
  ASSUME NEW r \in StoredRequests
  PROVE  /\ r.wallet \in Wallets
         /\ r.amount \in 0..MaxMinor
<1>1. CASE r \in Requests
  BY <1>1, DomainAssumption DEF Request
<1>2. CASE \E w \in Wallets, b \in 1..MaxMinor : r = OpeningRequest(w, b)
  BY <1>2, DomainAssumption DEF OpeningRequest
<1>3. QED BY <1>1, <1>2 DEF StoredRequests

\* A new row of a stored request (NewExternal, NewOpening) is a row.
LEMMA NewRowType ==
  ASSUME NEW r \in StoredRequests
  PROVE  NewExternal(r) \in Row
BY DomainAssumption DEF NewExternal, BlankRow, Row, Statuses, FailureCodes

\* The transitions of a row keep it a row.
LEMMA RejectType ==
  ASSUME NEW row \in Row, NEW why \in FailureCodes
  PROVE  Reject(row, why) \in Row
BY DEF Reject, Row, Statuses

LEMMA WaitingTypes ==
  ASSUME NEW row \in Row
  PROVE  MarkPendingReference(row) \in Row /\ ScheduleReferenceRetry(row) \in Row
<1>1. MarkPendingReference(row) \in Row
  BY DEF MarkPendingReference, Row, Statuses
<1>2. ScheduleReferenceRetry(row) \in Row
  BY DEF ScheduleReferenceRetry, Row
<1>3. QED BY <1>1, <1>2

LEMMA ResolvedTypes ==
  ASSUME NEW row \in Row, NEW reference \in Nat, NEW after \in 0..MaxMinor, NEW ver \in Nat
  PROVE  /\ [row EXCEPT !.refTx = reference] \in Row
         /\ MarkProcessed(row, reference, after, ver) \in Row
<1>1. [row EXCEPT !.refTx = reference] \in Row
  BY DEF Row
<1>2. MarkProcessed(row, reference, after, ver) \in Row
  BY DEF MarkProcessed, Row, Statuses
<1>3. QED BY <1>1, <1>2

\* Without overflow a movement ends in a row: the new balance fits, and an
\* overdraft is a rejection.
LEMMA MovedType ==
  ASSUME NEW row \in Row, NEW reference \in Nat, NEW direction \in Directions,
         NEW balance \in 0..MaxMinor, NEW ver \in Nat,
         ~ Overflows(direction, balance, row.req.amount)
  PROVE  Moved(row, reference, direction, balance, ver) \in Row
<1>1. row.req \in StoredRequests /\ row.req.amount \in 0..MaxMinor
  BY RequestFields DEF Row
<1>2. InsufficientFundsCode(row.req.kind) \in FailureCodes
  BY DEF InsufficientFundsCode, FailureCodes
<1>3. VersionAfter(direction, ver) \in Nat
  BY DEF VersionAfter
<1>4. CASE Overdraws(direction, balance, row.req.amount)
  <2>1. [row EXCEPT !.refTx = reference] \in Row
    BY DEF Row
  <2>2. QED BY <1>2, <1>4, <2>1, RejectType DEF Moved
<1>5. CASE ~ Overdraws(direction, balance, row.req.amount)
  <2>1. BalanceAfter(direction, balance, row.req.amount) \in 0..MaxMinor
    <3>1. CASE direction = "CREDIT"
      BY <1>1, <3>1, DomainAssumption DEF Overflows, BalanceAfter
    <3>2. CASE direction = "DEBIT"
      BY <1>1, <1>5, <3>2, DomainAssumption DEF Overdraws, BalanceAfter
    <3>3. CASE direction = "NONE"
      BY <3>3 DEF BalanceAfter
    <3>4. QED BY <3>1, <3>2, <3>3 DEF Directions
  <2>2. MarkProcessed(row, reference, BalanceAfter(direction, balance, row.req.amount),
                       VersionAfter(direction, ver)) \in Row
    BY <1>3, <2>1, ResolvedTypes
  <2>3. QED BY <1>5, <2>2 DEF Moved
<1>6. QED BY <1>4, <1>5

LEMMA AnyRequestType == AnyRequest \in Requests /\ AnyRequest \in StoredRequests
BY EngineAssumption DEF AnyRequest, StoredRequests

LEMMA NoRowType == NoRow \in Row
BY AnyRequestType, NewRowType DEF NoRow

LEMMA PlanTypes ==
  ASSUME NEW row \in Row
  PROVE  /\ NoPlan \in Plan
         /\ [NoPlan EXCEPT !.row = row] \in Plan
         /\ \A error \in Errors : Failed(error) \in Plan
         /\ \A how \in {"insert", "update"}, direction \in Directions :
              Written(how, row, direction) \in Plan
BY NoRowType DEF NoPlan, Plan, Failed, Written, Directions

LEMMA JobTypes ==
  ASSUME NEW r \in StoredRequests, NEW i \in Nat, NEW m \in Messages
  PROVE  /\ NoJob \in Job
         /\ [NoJob EXCEPT !.req = r] \in Job
         /\ [NoJob EXCEPT !.req = r, !.tx = i] \in Job
         /\ [NoJob EXCEPT !.req = r, !.msg = m.id] \in Job
BY AnyRequestType DEF NoJob, Job

LEMMA ClosedWalletType == ClosedWallet \in Wallet
BY DomainAssumption DEF ClosedWallet, Wallet

-----------------------------------------------------------------------------
(* Type correctness.                                                       *)

LEMMA TypeInit == Init => TypeOK
<1> SUFFICES ASSUME Init PROVE TypeOK
  OBVIOUS
<1>1. NoPlan \in Plan /\ NoJob \in Job
  BY NoRowType, AnyRequestType DEF NoPlan, Plan, NoJob, Job, Directions
<1>2. QED
  BY <1>1, ClosedWalletType DEF Init, TypeOK, PCs

\* An outcome of the right type keeps plan and pc well typed.
LEMMA OutcomeTypes ==
  ASSUME TypeOK, NEW p \in Procs, NEW outcome \in Plan
  PROVE  /\ Finish(p, outcome) => plan' \in [Procs -> Plan] /\ pc' \in [Procs -> PCs]
         /\ Write(p, outcome) => plan' \in [Procs -> Plan] /\ pc' \in [Procs -> PCs]
BY DEF TypeOK, Finish, Write, PCs

LEMMA GotoType ==
  ASSUME TypeOK, NEW p \in Procs, NEW next \in PCs, Goto(p, next)
  PROVE  pc' \in [Procs -> PCs]
BY DEF TypeOK, Goto

LEMMA MoveTypes ==
  ASSUME TypeOK, NEW p \in Procs, NEW how \in {"insert", "update"}, NEW reference \in Nat,
         NEW direction \in Directions,
         Move(p, how, reference, direction)
  PROVE  plan' \in [Procs -> Plan] /\ pc' \in [Procs -> PCs]
<1>1. plan[p].row \in Row /\ view[p].balance \in 0..MaxMinor /\ view[p].version \in Nat
  BY DEF TypeOK, Plan, Wallet
<1>2. CASE Overflows(direction, view[p].balance, plan[p].row.req.amount)
  <2>1. Failed("AMOUNT_OVERFLOW") \in Plan
    BY <1>1, PlanTypes DEF Errors
  <2>2. QED BY <1>2, <2>1, OutcomeTypes DEF Move
<1>3. CASE ~ Overflows(direction, view[p].balance, plan[p].row.req.amount)
  <2>1. Moved(plan[p].row, reference, direction, view[p].balance, view[p].version) \in Row
    BY <1>1, <1>3, MovedType
  <2>2. QED BY <1>3, <2>1, PlanTypes, OutcomeTypes DEF Move
<1>4. QED BY <1>2, <1>3

LEMMA TypeStart ==
  ASSUME TypeOK, NEW p \in Procs, NEW newJob \in Job, NEW newPlan \in Plan,
         NEW first \in PCs, Start(p, newJob, newPlan, first)
  PROVE  TypeOK'
BY DEF TypeOK, Start, tables

LEMMA TypeOpenWallet ==
  ASSUME TypeOK, NEW w \in Wallets, NEW initial \in OpeningBalances, OpenWallet(w, initial)
  PROVE  TypeOK'
<1>1. initial \in 0..MaxMinor
  BY EngineAssumption
<1>2. wallets' \in [Wallets -> Wallet]
  BY <1>1 DEF TypeOK, OpenWallet, Wallet
<1>3. CASE initial = 0
  BY <1>2, <1>3 DEF TypeOK, OpenWallet, work
<1>4. CASE initial # 0
  <2> DEFINE id  == Len(txs) + 1
             row == MarkProcessed(NewExternal(OpeningRequest(w, initial)), 0, initial, 1)
             entry == [tx |-> id, direction |-> "CREDIT", amount |-> initial,
                       before |-> 0, after |-> initial]
             told == <<[type |-> "WagerTransactionProcessed", tx |-> id, version |-> 1],
                       [type |-> "WalletBalanceChanged", tx |-> id, version |-> 1]>>
  <2>1. id \in Nat
    BY DEF TypeOK
  <2>2. row \in Row
    <3>1. OpeningRequest(w, initial) \in StoredRequests
      BY <1>1, <1>4, DomainAssumption DEF StoredRequests
    <3>2. QED BY <1>1, <3>1, NewRowType, ResolvedTypes
  <2>3. entry \in Entry
    BY <1>1, <2>1, DomainAssumption DEF Entry
  <2>4. told \in Seq(Event)
    BY <2>1 DEF Event
  <2>5. txs' = Append(txs, row) /\ ledger' = [ledger EXCEPT ![w] = Append(@, entry)]
        /\ outbox' = outbox \o told
    BY <1>4 DEF OpenWallet
  <2> HIDE DEF id, row, entry, told
  <2>6. txs' \in Seq(Row) /\ outbox' \in Seq(Event) /\ ledger' \in [Wallets -> Seq(Entry)]
    BY <2>2, <2>3, <2>4, <2>5 DEF TypeOK
  <2>7. QED BY <1>2, <2>6 DEF TypeOK, OpenWallet, work
<1>5. QED BY <1>3, <1>4

LEMMA TypeBegin ==
  ASSUME TypeOK
  PROVE  /\ \A p \in Sessions, r \in Requests : Submit(p, r) => TypeOK'
         /\ \A p \in Consumers, m \in Messages : Deliver(p, m) => TypeOK'
         /\ \A p \in Workers, i \in DOMAIN txs : Claim(p, i) => TypeOK'
<1>1. ASSUME NEW p \in Sessions, NEW r \in Requests, Submit(p, r) PROVE TypeOK'
  <2>1. [NoJob EXCEPT !.req = r] \in Job
    <3>1. r \in StoredRequests
      BY DEF StoredRequests
    <3>2. QED BY <3>1 DEF NoJob, Job
  <2>2. [NoPlan EXCEPT !.row = NewExternal(r)] \in Plan
    BY NewRowType, PlanTypes DEF StoredRequests
  <2>3. QED BY <1>1, <2>1, <2>2, TypeStart DEF Submit, Procs, PCs
<1>2. ASSUME NEW p \in Consumers, NEW m \in Messages, Deliver(p, m) PROVE TypeOK'
  <2>1. m.body \in StoredRequests
    BY EngineAssumption DEF StoredRequests
  <2>2. [NoJob EXCEPT !.req = m.body, !.msg = m.id] \in Job
    BY <2>1 DEF NoJob, Job
  <2>3. [NoPlan EXCEPT !.row = NewExternal(m.body)] \in Plan
    BY <2>1, NewRowType, PlanTypes
  <2>4. QED BY <1>2, <2>2, <2>3, TypeStart DEF Deliver, Procs, PCs
<1>3. ASSUME NEW p \in Workers, NEW i \in DOMAIN txs, Claim(p, i) PROVE TypeOK'
  <2>1. txs[i] \in Row /\ i \in Nat
    BY DEF TypeOK
  <2>2. [NoJob EXCEPT !.req = txs[i].req, !.tx = i] \in Job
    BY <2>1 DEF NoJob, Job, Row
  <2>3. [NoPlan EXCEPT !.row = txs[i]] \in Plan
    BY <2>1, PlanTypes
  <2>4. QED BY <1>3, <2>2, <2>3, TypeStart DEF Claim, Claimable, Procs, PCs
<1>4. QED BY <1>1, <1>2, <1>3

LEMMA TypeFailed ==
  ASSUME NEW error \in Errors
  PROVE  Failed(error) \in Plan
BY NoRowType DEF NoPlan, Plan, Failed, Directions

LEMMA TypeInbox ==
  ASSUME TypeOK, NEW p \in Procs, FindInbox(p) \/ RecordInbox(p)
  PROVE  TypeOK'
<1>1. ASSUME SeenBefore(p) PROVE plan' \in [Procs -> Plan] /\ pc' \in [Procs -> PCs]
  <2>1. NoPlan \in Plan /\ Failed("INBOX_PAYLOAD_MISMATCH") \in Plan
    BY NoRowType, PlanTypes, TypeFailed DEF Errors
  <2>2. QED BY <1>1, <2>1, OutcomeTypes DEF SeenBefore
<1>2. CASE FindInbox(p)
  <2>1. plan' \in [Procs -> Plan] /\ pc' \in [Procs -> PCs]
    BY <1>1, <1>2, GotoType DEF FindInbox, TypeOK, PCs
  <2>2. QED BY <1>2, <2>1 DEF FindInbox, TypeOK, tables
<1>3. CASE RecordInbox(p)
  <2>1. plan' \in [Procs -> Plan] /\ pc' \in [Procs -> PCs]
    BY <1>1, <1>3, GotoType DEF RecordInbox, TypeOK, PCs
  <2>2. job' \in [Procs -> Job]
    <3>1. job \in [Procs -> Job] /\ [job[p] EXCEPT !.recorded = TRUE] \in Job
      BY DEF TypeOK, Job
    <3>2. job' = job \/ job' = [job EXCEPT ![p] = [job[p] EXCEPT !.recorded = TRUE]]
      BY <1>3 DEF RecordInbox
    <3>3. QED BY <3>1, <3>2
  <2>3. QED BY <1>3, <2>1, <2>2 DEF RecordInbox, TypeOK, tables
<1>4. QED BY <1>2, <1>3

LEMMA TypeLockWallet ==
  ASSUME TypeOK, NEW p \in Procs, LockWallet(p)
  PROVE  TypeOK'
<1>1. job[p].req.wallet \in Wallets
  BY RequestFields DEF TypeOK, Job
<1>2. plan' \in [Procs -> Plan] /\ pc' \in [Procs -> PCs]
  <2>1. Failed("NOT_FOUND") \in Plan /\ Failed("INVALID_INPUT") \in Plan
    BY TypeFailed DEF Errors
  <2>2. QED BY <2>1, OutcomeTypes, GotoType DEF LockWallet, TypeOK, PCs
<1>3. holder' \in [Wallets -> Procs \cup {NoProc}] /\ view' \in [Procs -> Wallet]
  BY <1>1 DEF LockWallet, TypeOK
<1>4. QED BY <1>2, <1>3 DEF LockWallet, TypeOK, tables

LEMMA TypeFind ==
  ASSUME TypeOK, NEW p \in Procs, FindByIdempotencyKey(p) \/ FindByExternalID(p)
  PROVE  TypeOK'
<1>1. plan[p].row \in Row /\ plan \in [Procs -> Plan]
  BY DEF TypeOK, Plan
<1>2. CASE FindByIdempotencyKey(p)
  <2>1. \A i \in DOMAIN txs : [NoPlan EXCEPT !.row = txs[i]] \in Plan
    BY PlanTypes DEF TypeOK
  <2>2. Failed("IDEMPOTENCY_KEY_CONFLICT") \in Plan
    BY TypeFailed DEF Errors
  <2>3. plan' \in [Procs -> Plan] /\ pc' \in [Procs -> PCs]
    BY <1>1, <1>2, <2>1, <2>2, OutcomeTypes, GotoType DEF ReplayOf, FindByIdempotencyKey, PCs
  <2>4. QED BY <1>2, <2>3 DEF FindByIdempotencyKey, TypeOK, tables
<1>3. CASE FindByExternalID(p)
  <2>1. Failed("OPERATION_ALREADY_APPLIED") \in Plan /\ Failed("MISSING_FIELD") \in Plan
    BY TypeFailed DEF Errors
  <2>2. \A why \in FailureCodes : Written("insert", Reject(plan[p].row, why), "NONE") \in Plan
    BY <1>1, RejectType, PlanTypes DEF Directions
  <2>3. DirectDirection(job[p].req.kind) \in Directions
    BY DEF DirectDirection, Directions
  <2>4. plan' \in [Procs -> Plan] /\ pc' \in [Procs -> PCs]
    BY <1>1, <1>3, <2>1, <2>2, <2>3, OutcomeTypes, GotoType, MoveTypes
       DEF FindByExternalID, PCs, FailureCodes
  <2>5. QED BY <1>3, <2>4 DEF FindByExternalID, TypeOK, tables
<1>4. QED BY <1>2, <1>3

LEMMA RefusalType ==
  ASSUME NEW reference, NEW r, ReversalRejection(reference, r) # Nil
  PROVE  ReversalRejection(reference, r) \in FailureCodes
BY DEF ReversalRejection, FailureCodes

LEMMA TypeFindReference ==
  ASSUME TypeOK, NEW p \in Procs, FindReference(p)
  PROVE  TypeOK'
<1> DEFINE row == plan[p].row
<1>1. row \in Row /\ How(p) \in {"insert", "update"} /\ "NONE" \in Directions
  BY DEF TypeOK, Plan, How, Directions
<1>2. ASSUME NEW how \in {"insert", "update"}, NEW why \in FailureCodes
      PROVE  Written(how, Reject(row, why), "NONE") \in Plan
  BY <1>1, RejectType, PlanTypes
<1>3. /\ Written("insert", MarkPendingReference(row), "NONE") \in Plan
      /\ Written("update", ScheduleReferenceRetry(row), "NONE") \in Plan
  BY <1>1, WaitingTypes, PlanTypes
<1>4. plan' \in [Procs -> Plan] /\ pc' \in [Procs -> PCs] /\ job' \in [Procs -> Job]
  <2>1. job \in [Procs -> Job] /\ plan \in [Procs -> Plan]
    BY DEF TypeOK
  <2>2. CASE WaitOrExpire(p) /\ UNCHANGED job
    <3>1. "REFERENCE_NOT_FOUND" \in FailureCodes
      BY DEF FailureCodes
    <3>2. QED BY <1>2, <1>3, <2>1, <2>2, <3>1, OutcomeTypes DEF WaitOrExpire
  <2>3. CASE Write(p, Written("insert", MarkPendingReference(row), "NONE")) /\ UNCHANGED job
    BY <1>3, <2>1, <2>3, OutcomeTypes
  <2>4. ASSUME NEW i \in DOMAIN txs,
               LET refusal == ReversalRejection(txs[i], job[p].req) IN
               IF refusal # Nil
                 THEN Write(p, Written(How(p), Reject(row, refusal), "NONE")) /\ UNCHANGED job
                 ELSE /\ job' = [job EXCEPT ![p].ref = i]
                      /\ Goto(p, "reversed")
                      /\ UNCHANGED plan
        PROVE  plan' \in [Procs -> Plan] /\ pc' \in [Procs -> PCs] /\ job' \in [Procs -> Job]
    <3>1. CASE ReversalRejection(txs[i], job[p].req) # Nil
      BY <1>1, <1>2, <2>1, <2>4, <3>1, RefusalType, OutcomeTypes
    <3>2. CASE ReversalRejection(txs[i], job[p].req) = Nil
      <4>0. i \in Nat
        BY DEF TypeOK
      <4>1. [job[p] EXCEPT !.ref = i] \in Job
        BY <2>1, <4>0 DEF Job
      <4>2. job' = [job EXCEPT ![p] = [job[p] EXCEPT !.ref = i]]
        BY <2>4, <3>2
      <4>3. QED BY <2>1, <2>4, <3>2, <4>1, <4>2, GotoType DEF PCs
    <3>3. QED BY <3>1, <3>2
  <2>5. QED BY <2>2, <2>3, <2>4 DEF FindReference, SettledRows
<1>5. QED BY <1>4 DEF FindReference, TypeOK, tables

LEMMA TypeCheckReversed ==
  ASSUME TypeOK, NEW p \in Procs, CheckReversed(p)
  PROVE  TypeOK'
<1>1. plan[p].row \in Row /\ job[p].ref \in Nat /\ How(p) \in {"insert", "update"}
  BY DEF TypeOK, Plan, Job, How
<1>2. ReversalDirection(txs[job[p].ref].req.kind) \in Directions /\ "NONE" \in Directions
  BY DEF ReversalDirection, Directions
<1>3. Written(How(p), Reject(plan[p].row, "DUPLICATE_REVERSAL"), "NONE") \in Plan
  <2>1. "DUPLICATE_REVERSAL" \in FailureCodes
    BY DEF FailureCodes
  <2>2. QED BY <1>1, <1>2, <2>1, RejectType, PlanTypes
<1>4. plan' \in [Procs -> Plan] /\ pc' \in [Procs -> PCs]
  BY <1>1, <1>2, <1>3, MoveTypes, OutcomeTypes DEF CheckReversed
<1>5. QED BY <1>4 DEF CheckReversed, TypeOK, tables

LEMMA TypePersist ==
  ASSUME TypeOK, NEW p \in Procs, Persist(p)
  PROVE  TypeOK'
<1>1. Failed("DB_CONFLICT") \in Plan
  BY TypeFailed DEF Errors
<1>2. plan' \in [Procs -> Plan] /\ pc' \in [Procs -> PCs]
  BY <1>1, OutcomeTypes, GotoType DEF Persist, TypeOK, PCs
<1>3. QED BY <1>2 DEF Persist, TypeOK, tables

LEMMA TypeRelease ==
  ASSUME TypeOK, NEW p \in Procs, Release(p)
  PROVE  /\ holder' \in [Wallets -> Procs \cup {NoProc}]
         /\ pc' \in [Procs -> PCs]
         /\ job' \in [Procs -> Job]
         /\ view' \in [Procs -> Wallet]
         /\ plan' \in [Procs -> Plan]
<1>1. NoPlan \in Plan /\ NoJob \in Job
  BY NoRowType, AnyRequestType DEF NoPlan, Plan, NoJob, Job, Directions
<1>2. QED BY <1>1, ClosedWalletType DEF TypeOK, Release, PCs

\* A row enters the due rows at some place, and leaves them from its place.
LEMMA PartsOfDue ==
  ASSUME TypeOK, NEW k \in 0..Len(due)
  PROVE  SubSeq(due, 1, k) \in Seq(Nat) /\ SubSeq(due, k + 1, Len(due)) \in Seq(Nat)
<1>1. due \in Seq(Nat) /\ Len(due) \in Nat /\ k \in Int /\ k + 1 \in Int
  BY DEF TypeOK
<1>2. /\ \A n \in 1..k : due[n] \in Nat
      /\ \A n \in (k + 1)..Len(due) : due[n] \in Nat
  BY <1>1
<1>3. QED BY <1>1, <1>2, SubSeqProperties

LEMMA LaterType ==
  ASSUME TypeOK, NEW i \in Nat
  PROVE  Later(i) \in Seq(Nat)
<1> DEFINE at == CHOOSE k \in DOMAIN due : due[k] = i
<1>1. CASE \E k \in DOMAIN due : due[k] = i
  <2>1. at \in DOMAIN due
    BY <1>1
  <2>2. at \in 1..Len(due) /\ Len(due) \in Nat
    BY <2>1 DEF TypeOK
  <2>3. SubSeq(due, 1, at - 1) \in Seq(Nat) /\ SubSeq(due, at + 1, Len(due)) \in Seq(Nat)
    <3>1. at - 1 \in 0..Len(due) /\ at \in 0..Len(due)
      BY <2>2
    <3> HIDE DEF at
    <3>2. QED BY <3>1, PartsOfDue
  <2>4. Later(i) = SubSeq(due, 1, at - 1) \o SubSeq(due, at + 1, Len(due))
    BY <1>1 DEF Later
  <2> HIDE DEF at
  <2>5. QED BY <2>3, <2>4, ConcatProperties
<1>2. CASE ~ \E k \in DOMAIN due : due[k] = i
  BY <1>2 DEF Later, TypeOK
<1>3. QED BY <1>1, <1>2

LEMMA TypeBecomesDue ==
  ASSUME TypeOK, NEW i \in DOMAIN txs, BecomesDue(i)
  PROVE  TypeOK'
<1>1. PICK k \in 0..Len(due) :
        due' = SubSeq(due, 1, k) \o <<i>> \o SubSeq(due, k + 1, Len(due))
  BY DEF BecomesDue
<1>2. i \in Nat
  BY DEF TypeOK
<1>3. due' \in Seq(Nat)
  <2>1. <<i>> \in Seq(Nat)
    BY <1>2
  <2>2. SubSeq(due, 1, k) \in Seq(Nat) /\ SubSeq(due, k + 1, Len(due)) \in Seq(Nat)
    BY PartsOfDue
  <2>3. SubSeq(due, 1, k) \o <<i>> \in Seq(Nat)
    BY <2>1, <2>2, ConcatProperties
  <2>4. QED BY <1>1, <2>2, <2>3, ConcatProperties
<1>4. QED BY <1>3 DEF TypeOK, BecomesDue, work

LEMMA TypeApply ==
  ASSUME TypeOK, NEW p \in Procs, Apply(p)
  PROVE  /\ txs' \in Seq(Row)
         /\ due' \in Seq(Nat)
         /\ ledger' \in [Wallets -> Seq(Entry)]
         /\ wallets' \in [Wallets -> Wallet]
         /\ outbox' \in Seq(Event)
         /\ inbox' \subseteq [id : {m.id : m \in Messages} \cup {Nil}, body : StoredRequests]
<1> DEFINE row == plan[p].row
           w   == job[p].req.wallet
<1>1. row \in Row /\ row.req.amount \in 0..MaxMinor /\ row.balance \in 0..MaxMinor
      /\ row.version \in Nat /\ plan[p].direction \in Directions
  BY RequestFields DEF TypeOK, Plan, Row
<1>2. TxId(p) \in Nat /\ view[p].balance \in 0..MaxMinor /\ w \in Wallets
  BY RequestFields DEF TypeOK, TxId, Job, Wallet
<1>3. txs' \in Seq(Row)
  <2>1. txs' = Append(txs, row) \/ txs' = [txs EXCEPT ![job[p].tx] = row] \/ txs' = txs
    BY DEF Apply
  <2>2. [txs EXCEPT ![job[p].tx] = row] \in Seq(Row)
    <3>1. txs \in [1..Len(txs) -> Row] /\ Len(txs) \in Nat
      BY DEF TypeOK
    <3>2. [txs EXCEPT ![job[p].tx] = row] \in [1..Len(txs) -> Row]
      BY <1>1, <3>1
    <3>3. QED BY <3>1, <3>2, IsASeq
  <2>3. txs \in Seq(Row) /\ Append(txs, row) \in Seq(Row)
    BY <1>1, AppendProperties DEF TypeOK
  <2>4. QED BY <2>1, <2>2, <2>3
<1>4. ledger' \in [Wallets -> Seq(Entry)] /\ wallets' \in [Wallets -> Wallet]
  <2>1. CASE plan[p].direction = "NONE"
    BY <2>1 DEF Apply, TypeOK
  <2>2. CASE plan[p].direction # "NONE"
    <3>1. Movement(p) \in Entry
      BY <1>1, <1>2, <2>2 DEF Movement, Entry, Directions
    <3>2. ledger' = [ledger EXCEPT ![w] = Append(@, Movement(p))]
          /\ wallets' = [wallets EXCEPT ![w] = [open |-> TRUE, balance |-> row.balance,
                                                version |-> row.version]]
      BY <2>2 DEF Apply
    <3>3. QED BY <1>1, <1>2, <3>1, <3>2 DEF TypeOK, Wallet
  <2>3. QED BY <2>1, <2>2
<1>5. outbox' \in Seq(Event)
  <2>1. Events(p) \in Seq(Event)
    <3> DEFINE types == EventsOf(row, plan[p].direction)
               EventTypes == {"WagerTransactionPendingReference", "WagerTransactionRejected",
                              "WagerTransactionProcessed", "WalletBalanceChanged"}
    <3>1. types \in Seq(EventTypes)
      <4>1. \A x, y \in EventTypes : <<x>> \in Seq(EventTypes) /\ <<x, y>> \in Seq(EventTypes)
        OBVIOUS
      <4>2. QED BY <4>1 DEF EventsOf
    <3>2. Len(types) \in Nat /\ DOMAIN types = 1..Len(types)
          /\ \A k \in DOMAIN types : types[k] \in EventTypes
      BY <3>1
    <3>3. \A k \in DOMAIN types :
            [type |-> types[k], tx |-> TxId(p), version |-> row.version] \in Event
      BY <1>1, <1>2, <3>2 DEF Event
    <3> DEFINE told == [k \in DOMAIN types |->
                         [type |-> types[k], tx |-> TxId(p), version |-> row.version]]
    <3>4. told \in Seq(Event)
      <4> HIDE DEF types
      <4>1. told \in [1..Len(types) -> Event]
        BY <3>2, <3>3
      <4>2. QED BY <3>2, <4>1, IsASeq
    <3>5. Events(p) = <<>> \/ Events(p) = told
      BY DEF Events
    <3> HIDE DEF told
    <3>6. <<>> \in Seq(Event)
      OBVIOUS
    <3>7. QED BY <3>4, <3>5, <3>6
  <2>2. QED BY <2>1 DEF Apply, TypeOK
<1>6. inbox' \subseteq [id : {m.id : m \in Messages} \cup {Nil}, body : StoredRequests]
  <2> DEFINE seen == [id |-> job[p].msg, body |-> job[p].req]
  <2>1. seen \in [id : {m.id : m \in Messages} \cup {Nil}, body : StoredRequests]
    BY DEF TypeOK, Job
  <2>2. inbox' = inbox \cup {seen} \/ inbox' = inbox
    BY DEF Apply
  <2> HIDE DEF seen
  <2>3. QED BY <2>1, <2>2 DEF TypeOK
<1>7. due' \in Seq(Nat)
  <2>1. due' = due \/ due' = Later(job[p].tx)
    BY DEF Apply
  <2>2. job[p].tx \in Nat /\ due \in Seq(Nat)
    BY DEF TypeOK, Job
  <2>3. QED BY <2>1, <2>2, LaterType
<1>8. QED BY <1>3, <1>4, <1>5, <1>6, <1>7

LEMMA TypeEnd ==
  ASSUME TypeOK, NEW p \in Procs, Commit(p) \/ Rollback(p) \/ Crash(p)
  PROVE  TypeOK'
<1>1. CASE Commit(p)
  <2>1. AnswerOf(plan[p].row) \in Answer
    BY DEF TypeOK, Plan, Row, AnswerOf, Answer
  <2>2. answers' \in [Requests -> SUBSET Answer]
    <3>1. \/ answers' = answers
          \/ answers' = [answers EXCEPT ![job[p].req] =
                           answers[job[p].req] \cup {AnswerOf(plan[p].row)}]
      BY <1>1 DEF Commit
    <3>2. answers \in [Requests -> SUBSET Answer]
      BY DEF TypeOK
    <3>3. CASE job[p].req \in Requests
      BY <2>1, <3>1, <3>2, <3>3
    <3>4. CASE job[p].req \notin Requests
      BY <3>1, <3>2, <3>4
    <3>5. QED BY <3>3, <3>4
  <2>3. QED BY <1>1, <2>2, TypeRelease, TypeApply DEF Commit, TypeOK
<1>2. CASE Rollback(p)
  BY <1>2, TypeRelease DEF Rollback, TypeOK, tables
<1>3. CASE Crash(p)
  BY <1>3, TypeRelease DEF Crash, TypeOK, tables
<1>4. QED BY <1>1, <1>2, <1>3

LEMMA TypeNext == TypeOK /\ [Next]_vars => TypeOK'
<1> SUFFICES ASSUME TypeOK, [Next]_vars PROVE TypeOK'
  OBVIOUS
<1>1. CASE UNCHANGED vars
  BY <1>1 DEF vars, TypeOK
<1>2. ASSUME NEW w \in Wallets, NEW b \in OpeningBalances, OpenWallet(w, b) PROVE TypeOK'
  BY <1>2, TypeOpenWallet
<1>3. CASE \/ \E p \in Sessions, r \in Requests : Submit(p, r)
           \/ \E p \in Consumers, m \in Messages : Deliver(p, m)
           \/ \E p \in Workers, i \in DOMAIN txs : Claim(p, i)
  BY <1>3, TypeBegin
<1>4. ASSUME NEW p \in Procs, Step(p) PROVE TypeOK'
  BY <1>4, TypeInbox, TypeLockWallet, TypeFind, TypeFindReference, TypeCheckReversed,
     TypePersist, TypeEnd DEF Step
<1>5. ASSUME NEW p \in Procs, Crash(p) PROVE TypeOK'
  BY <1>5, TypeEnd
<1>6. ASSUME NEW i \in DOMAIN txs, BecomesDue(i) PROVE TypeOK'
  BY <1>6, TypeBecomesDue
<1>7. QED BY <1>1, <1>2, <1>3, <1>4, <1>5, <1>6 DEF Next

\* Every reachable state is well typed: in particular no committed balance,
\* entry or frozen result is ever negative or above the largest amount
\* (wallet.Credit, wallet.Debit, money.Add).
THEOREM TypeCorrect == Spec => []TypeOK
<1>1. Init => TypeOK
  BY TypeInit
<1>2. TypeOK /\ [Next]_vars => TypeOK'
  BY TypeNext
<1>3. QED BY <1>1, <1>2, PTL DEF Spec

-----------------------------------------------------------------------------
(* Outcomes: the movement a plan announces starts from the process's copy. *)

\* The balance planned[p] announces follows from view[p] (and nothing else
\* has to be known of a plan without movement).
Follows(outcome, p) ==
  outcome.direction # "NONE" =>
    outcome.row.balance = BalanceAfter(outcome.direction, view[p].balance, outcome.row.req.amount)

LEMMA RefusalsMoveNothing ==
  ASSUME NEW row, NEW why, NEW how, NEW error, NEW direction, NEW other
  PROVE  /\ NoPlan.direction = "NONE"
         /\ [NoPlan EXCEPT !.row = other].direction = "NONE"
         /\ Failed(error).direction = "NONE"
         /\ Written(how, row, "NONE").direction = "NONE"
BY DEF NoPlan, Failed, Written

LEMMA MovedFollows ==
  ASSUME TypeOK, NEW p \in Procs, NEW how, NEW row \in Row, NEW reference, NEW direction
  PROVE  Follows(Written(how, Moved(row, reference, direction,
                                    view[p].balance, view[p].version), direction), p)
<1> SUFFICES ASSUME NEW after,
                    after = Moved(row, reference, direction, view[p].balance, view[p].version)
             PROVE  Follows(Written(how, after, direction), p)
  OBVIOUS
<1>1. CASE Overdraws(direction, view[p].balance, row.req.amount)
  <2>1. after.status = "REJECTED"
    BY <1>1 DEF Moved, Reject, Row
  <2>2. QED BY <2>1 DEF Follows, Written
<1>2. CASE ~ Overdraws(direction, view[p].balance, row.req.amount)
  <2>1. /\ after.balance = BalanceAfter(direction, view[p].balance, row.req.amount)
        /\ after.status = "PROCESSED" /\ after.req = row.req
    BY <1>2 DEF Moved, MarkProcessed, Row
  <2>2. Written(how, after, direction).row = after
        /\ Written(how, after, direction).direction = direction
    BY <2>1 DEF Written
  <2>3. QED BY <2>1, <2>2 DEF Follows
<1>3. QED BY <1>1, <1>2

-----------------------------------------------------------------------------
(* Steps that touch no wallet.                                             *)

\* While the wallets, their ledgers and locks stay as they are, a process may
\* decide what its copy implies, or move among the states that hold no lock.
LEMMA Deliberation ==
  ASSUME TypeOK, LedgerInvariant, NEW p \in Procs,
         UNCHANGED <<wallets, ledger, holder, view>>,
         \A q \in Procs \ {p} : pc'[q] = pc[q] /\ job'[q] = job[q] /\ plan'[q] = plan[q],
         \/ /\ pc[p] \in Deciding /\ pc'[p] \in Deciding \cup {"return"}
            /\ job'[p].req = job[p].req
            /\ plan'[p].direction # "NONE" => pc'[p] \in {"persist", "return"}
            /\ Follows(plan'[p], p)
         \/ /\ pc[p] \notin Deciding \cup {"return"} /\ pc'[p] \notin Deciding
            /\ plan'[p].direction = "NONE"
  PROVE  LedgerInvariant'
<1>1. LockDiscipline'
  BY DEF LedgerInvariant, LockDiscipline
<1>2. SnapshotIsCurrent'
  BY DEF LedgerInvariant, SnapshotIsCurrent
<1>3. PlannedMovements'
  <2> SUFFICES ASSUME NEW q \in Procs, plan'[q].direction # "NONE"
               PROVE  /\ pc'[q] \in {"persist", "return"}
                      /\ holder'[job'[q].req.wallet] = q
                      /\ plan'[q].row.balance =
                           BalanceAfter(plan'[q].direction, view'[q].balance, plan'[q].row.req.amount)
    BY DEF PlannedMovements
  <2>1. CASE q = p
    BY <2>1 DEF LedgerInvariant, LockDiscipline, Follows
  <2>2. CASE q # p
    BY <2>2 DEF LedgerInvariant, PlannedMovements
  <2>3. QED BY <2>1, <2>2
<1>4. ClosedIsUntouched' /\ LedgerBacksBalance'
  BY DEF LedgerInvariant, ClosedIsUntouched, LedgerBacksBalance
<1>5. QED BY <1>1, <1>2, <1>3, <1>4 DEF LedgerInvariant

LEMMA OutcomeFrame ==
  ASSUME TypeOK, NEW p \in Procs, NEW outcome
  PROVE  /\ Finish(p, outcome) =>
              /\ pc'[p] = "return" /\ plan'[p] = outcome
              /\ \A q \in Procs \ {p} : pc'[q] = pc[q] /\ plan'[q] = plan[q]
         /\ Write(p, outcome) =>
              /\ pc'[p] = "persist" /\ plan'[p] = outcome
              /\ \A q \in Procs \ {p} : pc'[q] = pc[q] /\ plan'[q] = plan[q]
         /\ \A next : Goto(p, next) =>
              /\ pc'[p] = next
              /\ \A q \in Procs \ {p} : pc'[q] = pc[q]
BY DEF TypeOK, Finish, Write, Goto

LEMMA StartKeepsLedger ==
  ASSUME TypeOK, LedgerInvariant, NEW p \in Procs, NEW newJob, NEW newPlan,
         NEW first \in {"findInbox", "lock"}, newPlan.direction = "NONE",
         Start(p, newJob, newPlan, first)
  PROVE  LedgerInvariant'
<1>1. /\ \A q \in Procs \ {p} : pc'[q] = pc[q] /\ job'[q] = job[q] /\ plan'[q] = plan[q]
      /\ pc[p] = "idle" /\ pc'[p] = first /\ plan'[p] = newPlan
      /\ UNCHANGED <<wallets, ledger, holder, view>>
  BY DEF Start, TypeOK, tables
<1>2. pc[p] \notin Deciding \cup {"return"} /\ pc'[p] \notin Deciding
  BY <1>1 DEF Deciding
<1>3. QED BY <1>1, <1>2, Deliberation

LEMMA InboxKeepsLedger ==
  ASSUME TypeOK, LedgerInvariant, NEW p \in Procs, FindInbox(p) \/ RecordInbox(p)
  PROVE  LedgerInvariant'
<1>1. /\ UNCHANGED <<wallets, ledger, holder, view>>
      /\ pc[p] \in {"findInbox", "recordInbox"}
      /\ \A q \in Procs \ {p} : job'[q] = job[q]
  BY DEF FindInbox, RecordInbox, TypeOK, tables
<1>2. plan[p].direction = "NONE"
  BY <1>1 DEF LedgerInvariant, PlannedMovements
<1>3. /\ \A q \in Procs \ {p} : pc'[q] = pc[q] /\ plan'[q] = plan[q]
      /\ pc'[p] \in {"return", "recordInbox", "lock"}
      /\ plan'[p].direction = "NONE"
  BY <1>2, OutcomeFrame, RefusalsMoveNothing DEF FindInbox, RecordInbox, SeenBefore
<1>4. QED BY <1>1, <1>3, Deliberation DEF Deciding

LEMMA LockKeepsLedger ==
  ASSUME TypeOK, LedgerInvariant, NEW p \in Procs, LockWallet(p)
  PROVE  LedgerInvariant'
<1> DEFINE w == job[p].req.wallet
<1>1. /\ w \in Wallets /\ pc[p] = "lock" /\ UNCHANGED <<wallets, ledger, job>>
      /\ \A v \in Wallets : holder[v] # p
      /\ plan[p].direction = "NONE"
  <2>1. w \in Wallets
    BY RequestFields DEF TypeOK, Job
  <2>2. pc[p] = "lock" /\ UNCHANGED <<wallets, ledger, job>>
    BY DEF LockWallet, tables
  <2>3. QED BY <2>1, <2>2 DEF LedgerInvariant, LockDiscipline, PlannedMovements, Deciding
<1>2. CASE ~ Parses(p) \/ ~ wallets[w].open
  <2>1. /\ Finish(p, Failed("INVALID_INPUT")) \/ Finish(p, Failed("NOT_FOUND"))
        /\ UNCHANGED <<holder, view>>
    BY <1>2 DEF LockWallet
  <2>2. QED BY <1>1, <2>1, OutcomeFrame, RefusalsMoveNothing, Deliberation DEF Deciding
<1>3. CASE Parses(p) /\ wallets[w].open
  <2>1. /\ holder[w] = NoProc
        /\ holder' = [holder EXCEPT ![w] = p]
        /\ view' = [view EXCEPT ![p] = wallets[w]]
        /\ plan' = plan
        /\ pc'[p] \in {"ref", "key"}
        /\ \A q \in Procs \ {p} : pc'[q] = pc[q]
    BY <1>3, OutcomeFrame DEF LockWallet, Lockable
  <2>2. /\ holder'[w] = p /\ view'[p] = wallets[w]
        /\ \A v \in Wallets \ {w} : holder'[v] = holder[v]
        /\ \A q \in Procs \ {p} : view'[q] = view[q] /\ holder[w] # q
    BY <1>1, <2>1, EngineAssumption DEF TypeOK
  <2>3. LockDiscipline'
    BY <1>1, <2>1, <2>2 DEF LedgerInvariant, LockDiscipline, Deciding
  <2>4. SnapshotIsCurrent'
    BY <1>1, <2>1, <2>2 DEF LedgerInvariant, SnapshotIsCurrent
  <2>5. PlannedMovements'
    BY <1>1, <2>1, <2>2 DEF LedgerInvariant, PlannedMovements
  <2>6. ClosedIsUntouched' /\ LedgerBacksBalance'
    BY <1>1, <1>3, <2>2 DEF LedgerInvariant, ClosedIsUntouched, LedgerBacksBalance
  <2>7. QED BY <2>3, <2>4, <2>5, <2>6 DEF LedgerInvariant
<1>4. QED BY <1>2, <1>3

LEMMA MoveFollows ==
  ASSUME TypeOK, NEW p \in Procs, NEW how, NEW reference, NEW direction,
         Move(p, how, reference, direction)
  PROVE  /\ pc'[p] \in {"persist", "return"}
         /\ \A q \in Procs \ {p} : pc'[q] = pc[q] /\ plan'[q] = plan[q]
         /\ Follows(plan'[p], p)
<1>1. plan[p].row \in Row
  BY DEF TypeOK, Plan
<1>2. Follows(Failed("AMOUNT_OVERFLOW"), p)
  BY RefusalsMoveNothing DEF Follows
<1>3. CASE Overflows(direction, view[p].balance, plan[p].row.req.amount)
  BY <1>2, <1>3, OutcomeFrame DEF Move
<1>4. CASE ~ Overflows(direction, view[p].balance, plan[p].row.req.amount)
  <2> DEFINE outcome == Written(how, Moved(plan[p].row, reference, direction,
                                           view[p].balance, view[p].version), direction)
  <2>1. Write(p, outcome)
    BY <1>4 DEF Move
  <2>2. Follows(outcome, p)
    BY <1>1, MovedFollows
  <2> HIDE DEF outcome
  <2>3. QED BY <2>1, <2>2, OutcomeFrame
<1>5. QED BY <1>3, <1>4

LEMMA DecisionsKeepLedger ==
  ASSUME TypeOK, LedgerInvariant, NEW p \in Procs,
         \/ FindByIdempotencyKey(p) \/ FindByExternalID(p) \/ FindReference(p)
         \/ CheckReversed(p) \/ Persist(p)
  PROVE  LedgerInvariant'
<1>1. \A outcome : outcome.direction = "NONE" => Follows(outcome, p)
  BY DEF Follows
<1>2. pc[p] # "persist" => plan[p].direction = "NONE" \/ pc[p] = "return"
  BY DEF LedgerInvariant, PlannedMovements
<1>3. CASE FindByIdempotencyKey(p)
  <2>1. UNCHANGED <<wallets, ledger, holder, view, job>> /\ pc[p] = "key"
    BY <1>3 DEF FindByIdempotencyKey, tables
  <2>2. \/ Goto(p, "ext") /\ UNCHANGED plan
        \/ \E outcome : outcome.direction = "NONE" /\ Finish(p, outcome)
    BY <1>3, RefusalsMoveNothing DEF ReplayOf, FindByIdempotencyKey
  <2>3. /\ \A q \in Procs \ {p} : pc'[q] = pc[q] /\ plan'[q] = plan[q]
        /\ pc'[p] \in {"return", "ext"} /\ plan'[p].direction = "NONE"
    BY <1>2, <2>1, <2>2, OutcomeFrame
  <2>4. QED BY <1>1, <2>1, <2>3, Deliberation DEF Deciding
<1>4. CASE FindByExternalID(p)
  <2>1. /\ UNCHANGED <<wallets, ledger, holder, view, job>> /\ pc[p] = "ext"
    BY <1>4 DEF FindByExternalID, tables
  <2>2. /\ \A q \in Procs \ {p} : pc'[q] = pc[q] /\ plan'[q] = plan[q]
        /\ \/ pc'[p] \in {"persist", "return"} /\ Follows(plan'[p], p)
           \/ pc'[p] = "ref" /\ plan'[p].direction = "NONE"
    BY <1>1, <1>2, <1>4, <2>1, OutcomeFrame, RefusalsMoveNothing, MoveFollows DEF FindByExternalID
  <2>3. QED BY <1>1, <2>1, <2>2, Deliberation DEF Deciding
<1>5. CASE FindReference(p)
  <2>1. /\ UNCHANGED <<wallets, ledger, holder, view>> /\ pc[p] = "ref"
        /\ \A q \in Procs \ {p} : job'[q] = job[q]
        /\ job'[p].req = job[p].req
    BY <1>5 DEF FindReference, TypeOK, tables, Job
  <2>2. /\ \A q \in Procs \ {p} : pc'[q] = pc[q] /\ plan'[q] = plan[q]
        /\ pc'[p] \in {"persist", "reversed"} /\ plan'[p].direction = "NONE"
    BY <1>2, <1>5, <2>1, OutcomeFrame, RefusalsMoveNothing DEF FindReference, WaitOrExpire
  <2>3. QED BY <1>1, <2>1, <2>2, Deliberation DEF Deciding
<1>6. CASE CheckReversed(p)
  <2>1. /\ UNCHANGED <<wallets, ledger, holder, view, job>> /\ pc[p] = "reversed"
        /\ \A q \in Procs \ {p} : pc'[q] = pc[q] /\ plan'[q] = plan[q]
        /\ pc'[p] \in {"persist", "return"} /\ Follows(plan'[p], p)
    BY <1>1, <1>6, OutcomeFrame, RefusalsMoveNothing, MoveFollows DEF CheckReversed, tables
  <2>2. QED BY <2>1, Deliberation DEF Deciding
<1>7. CASE Persist(p)
  <2>1. UNCHANGED <<wallets, ledger, holder, view, job>> /\ pc[p] = "persist"
    BY <1>7 DEF Persist, tables
  <2>2. Follows(plan[p], p)
    BY DEF LedgerInvariant, PlannedMovements, Follows
  <2>3. /\ \A q \in Procs \ {p} : pc'[q] = pc[q] /\ plan'[q] = plan[q]
        /\ pc'[p] = "return" /\ Follows(plan'[p], p)
    BY <1>1, <1>7, <2>2, OutcomeFrame, RefusalsMoveNothing DEF Persist
  <2>4. QED BY <2>1, <2>3, Deliberation DEF Deciding
<1>8. QED BY <1>3, <1>4, <1>5, <1>6, <1>7

-----------------------------------------------------------------------------
(* The end of a unit of work, and the opening of a wallet.                 *)

LEMMA ReleaseFrame ==
  ASSUME TypeOK, NEW p \in Procs, Release(p)
  PROVE  /\ \A q \in Procs \ {p} : /\ pc'[q] = pc[q] /\ job'[q] = job[q]
                                   /\ view'[q] = view[q] /\ plan'[q] = plan[q]
         /\ pc'[p] = "idle" /\ plan'[p].direction = "NONE"
         /\ \A w \in Wallets : holder'[w] # p
         /\ \A w \in Wallets, q \in Procs \ {p} : (holder'[w] = q) <=> (holder[w] = q)
         /\ \A w \in Wallets : holder'[w] = NoProc \/ holder'[w] = holder[w]
         /\ \A w \in Wallets : holder[w] = NoProc => holder'[w] = NoProc
BY EngineAssumption DEF TypeOK, Release, NoPlan

LEMMA AbortKeepsLedger ==
  ASSUME TypeOK, LedgerInvariant, NEW p \in Procs, Release(p), UNCHANGED tables
  PROVE  LedgerInvariant'
<1>1. UNCHANGED <<wallets, ledger>>
  BY DEF tables
<1>2. \A q \in Procs : job[q].req.wallet \in Wallets
  BY RequestFields DEF TypeOK, Job
<1>3. LockDiscipline'
  BY <1>2, ReleaseFrame DEF LedgerInvariant, LockDiscipline, Deciding
<1>4. SnapshotIsCurrent'
  BY <1>1, ReleaseFrame DEF LedgerInvariant, SnapshotIsCurrent
<1>5. PlannedMovements'
  BY <1>2, ReleaseFrame DEF LedgerInvariant, PlannedMovements
<1>6. ClosedIsUntouched' /\ LedgerBacksBalance'
  BY <1>1, ReleaseFrame DEF LedgerInvariant, ClosedIsUntouched, LedgerBacksBalance
<1>7. QED BY <1>3, <1>4, <1>5, <1>6 DEF LedgerInvariant

\* One more entry that starts where the ledger ended keeps the chain whole.
LEMMA ChainGrows ==
  ASSUME NEW es \in Seq(Entry), NEW balance, Backs(es, balance), NEW entry \in Entry,
         entry.before = balance,
         entry.after = BalanceAfter(entry.direction, entry.before, entry.amount)
  PROVE  Backs(Append(es, entry), entry.after)
<1> DEFINE n == Len(es)
<1>1. n \in Nat /\ DOMAIN es = 1..n /\ (es = <<>> <=> n = 0)
  OBVIOUS
<1> SUFFICES ASSUME NEW longer, longer = Append(es, entry)
             PROVE  Backs(longer, entry.after)
  OBVIOUS
<1>2. /\ Len(longer) = n + 1 /\ DOMAIN longer = 1..(n + 1)
      /\ longer[n + 1] = entry
      /\ \A k \in 1..n : longer[k] = es[k]
  BY <1>1
<1>3. entry.before = (IF n = 0 THEN 0 ELSE es[n].after)
  BY <1>1 DEF Backs
<1>4. ASSUME NEW k \in DOMAIN longer
      PROVE  /\ longer[k].before = (IF k = 1 THEN 0 ELSE longer[k - 1].after)
             /\ longer[k].after = BalanceAfter(longer[k].direction, longer[k].before,
                                              longer[k].amount)
  <2>1. CASE k = n + 1
    <3>1. k - 1 = n /\ longer[k] = entry /\ (k = 1 <=> n = 0)
      BY <1>1, <1>2, <2>1
    <3>2. n # 0 => longer[k - 1] = es[n]
      BY <1>1, <1>2, <3>1
    <3>3. longer[k].before = (IF k = 1 THEN 0 ELSE longer[k - 1].after)
      BY <1>3, <3>1, <3>2
    <3>4. QED BY <3>1, <3>3
  <2>2. CASE k \in 1..n
    <3>1. longer[k] = es[k] /\ (k # 1 => longer[k - 1] = es[k - 1])
      BY <1>1, <1>2, <2>2
    <3>2. QED BY <1>1, <2>2, <3>1 DEF Backs
  <2>3. QED BY <1>1, <1>2, <2>1, <2>2
<1>5. longer # <<>> /\ longer[Len(longer)] = entry
  <2>1. 1 \in DOMAIN longer
    BY <1>1, <1>2
  <2>2. QED BY <1>2, <2>1
<1>6. QED BY <1>4, <1>5 DEF Backs

LEMMA CommitKeepsLedger ==
  ASSUME TypeOK, LedgerInvariant, NEW p \in Procs, Commit(p)
  PROVE  LedgerInvariant'
<1> DEFINE w == job[p].req.wallet
<1>1. \A q \in Procs : job[q].req.wallet \in Wallets
  BY RequestFields DEF TypeOK, Job
<1>2. Release(p) /\ Apply(p) /\ pc[p] = "return"
  BY DEF Commit
<1>3. LockDiscipline'
  BY <1>1, <1>2, ReleaseFrame DEF LedgerInvariant, LockDiscipline, Deciding
<1>4. PlannedMovements'
  BY <1>1, <1>2, ReleaseFrame DEF LedgerInvariant, PlannedMovements
<1>5. CASE plan[p].direction = "NONE"
  <2>1. UNCHANGED <<wallets, ledger>>
    BY <1>2, <1>5 DEF Apply
  <2>2. SnapshotIsCurrent'
    BY <1>2, <2>1, ReleaseFrame DEF LedgerInvariant, SnapshotIsCurrent
  <2>3. ClosedIsUntouched' /\ LedgerBacksBalance'
    BY <1>2, <2>1, ReleaseFrame DEF LedgerInvariant, ClosedIsUntouched, LedgerBacksBalance
  <2>4. QED BY <1>3, <1>4, <2>2, <2>3 DEF LedgerInvariant
<1>6. CASE plan[p].direction # "NONE"
  <2> DEFINE row == plan[p].row
             account == [open |-> TRUE, balance |-> row.balance, version |-> row.version]
             entry == Movement(p)
  <2>1. /\ ledger' = [ledger EXCEPT ![w] = Append(@, entry)]
        /\ wallets' = [wallets EXCEPT ![w] = account]
    BY <1>2, <1>6 DEF Apply
  <2>2. /\ entry.before = wallets[w].balance /\ entry.after = row.balance
        /\ entry.after = BalanceAfter(entry.direction, entry.before, entry.amount)
    BY <1>1, <1>6 DEF LedgerInvariant, PlannedMovements, SnapshotIsCurrent, Movement
  <2>3. entry \in Entry
    <3>1. row \in Row /\ row.req.amount \in 0..MaxMinor /\ row.balance \in 0..MaxMinor
          /\ plan[p].direction \in Directions
      BY RequestFields DEF TypeOK, Plan, Row
    <3>2. TxId(p) \in Nat /\ view[p].balance \in 0..MaxMinor
      BY DEF TypeOK, TxId, Job, Wallet
    <3>3. QED BY <1>6, <3>1, <3>2 DEF Movement, Entry, Directions
  <2>4. LedgerBacksBalance'
    <3> SUFFICES ASSUME NEW v \in Wallets PROVE Backs(ledger'[v], wallets'[v].balance)
      BY DEF LedgerBacksBalance
    <3>1. CASE v = w
      <4>1. Backs(ledger[w], wallets[w].balance) /\ ledger[w] \in Seq(Entry)
        BY <1>1 DEF LedgerInvariant, LedgerBacksBalance, TypeOK
      <4>2. Backs(Append(ledger[w], entry), entry.after)
        BY <2>2, <2>3, <4>1, ChainGrows
      <4>3. ledger'[v] = Append(ledger[w], entry) /\ wallets'[v].balance = entry.after
        BY <1>1, <2>1, <2>2, <3>1 DEF TypeOK
      <4>4. QED BY <4>2, <4>3
    <3>2. CASE v # w
      BY <2>1, <3>2 DEF LedgerInvariant, LedgerBacksBalance, TypeOK
    <3>3. QED BY <3>1, <3>2
  <2>5. \A v \in Wallets \ {w} : wallets'[v] = wallets[v] /\ ledger'[v] = ledger[v]
    BY <2>1 DEF TypeOK
  <2>6. holder[w] = p /\ wallets'[w].open
    BY <1>1, <1>6, <2>1 DEF LedgerInvariant, PlannedMovements, TypeOK
  <2>7. SnapshotIsCurrent'
    BY <1>2, <2>5, <2>6, ReleaseFrame DEF LedgerInvariant, SnapshotIsCurrent
  <2>8. ClosedIsUntouched'
    BY <1>2, <2>5, <2>6, ReleaseFrame DEF LedgerInvariant, ClosedIsUntouched
  <2>9. QED BY <1>3, <1>4, <2>4, <2>7, <2>8 DEF LedgerInvariant
<1>7. QED BY <1>5, <1>6

LEMMA OpeningKeepsLedger ==
  ASSUME TypeOK, LedgerInvariant, NEW w \in Wallets, NEW initial \in OpeningBalances,
         OpenWallet(w, initial)
  PROVE  LedgerInvariant'
<1>1. /\ ~ wallets[w].open /\ ledger[w] = <<>> /\ UNCHANGED <<holder, pc, job, view, plan>>
      /\ \A q \in Procs : holder[w] # q
  BY EngineAssumption DEF OpenWallet, LedgerInvariant, ClosedIsUntouched, work
<1>2. /\ wallets' = [wallets EXCEPT ![w] = [open |-> TRUE, balance |-> initial, version |-> 1]]
      /\ \A v \in Wallets \ {w} : wallets'[v] = wallets[v]
      /\ wallets'[w].open /\ wallets'[w].balance = initial
  BY DEF OpenWallet, TypeOK
<1>3. LockDiscipline' /\ PlannedMovements'
  BY <1>1 DEF LedgerInvariant, LockDiscipline, PlannedMovements
<1>4. SnapshotIsCurrent'
  BY <1>1, <1>2 DEF LedgerInvariant, SnapshotIsCurrent
<1>5. /\ \A v \in Wallets \ {w} : ledger'[v] = ledger[v]
      /\ Backs(ledger'[w], initial)
  <2>1. Backs(<<>>, 0)
    BY DEF Backs
  <2>2. CASE initial = 0
    BY <1>1, <2>1, <2>2 DEF OpenWallet
  <2>3. CASE initial # 0
    <3> DEFINE entry == [tx |-> Len(txs) + 1, direction |-> "CREDIT", amount |-> initial,
                         before |-> 0, after |-> initial]
    <3>1. ledger' = [ledger EXCEPT ![w] = Append(ledger[w], entry)]
      BY <2>3 DEF OpenWallet
    <3>2. entry \in Entry /\ initial \in Nat
      BY EngineAssumption, DomainAssumption DEF TypeOK, Entry
    <3>3. /\ <<>> \in Seq(Entry) /\ entry.before = 0 /\ entry.after = initial
          /\ entry.after = BalanceAfter(entry.direction, entry.before, entry.amount)
      BY <3>2 DEF BalanceAfter
    <3>4. ledger'[w] = Append(<<>>, entry)
      BY <1>1, <3>1 DEF TypeOK
    <3>5. \A v \in Wallets \ {w} : ledger'[v] = ledger[v]
      BY <3>1 DEF TypeOK
    <3> HIDE DEF entry
    <3>6. Backs(Append(<<>>, entry), entry.after)
      BY <2>1, <3>2, <3>3, ChainGrows
    <3>7. QED BY <3>3, <3>4, <3>5, <3>6
  <2>4. QED BY <2>2, <2>3
<1>6. ClosedIsUntouched' /\ LedgerBacksBalance'
  BY <1>1, <1>2, <1>5 DEF LedgerInvariant, ClosedIsUntouched, LedgerBacksBalance
<1>7. QED BY <1>3, <1>4, <1>6 DEF LedgerInvariant

-----------------------------------------------------------------------------
(* The invariant.                                                          *)

LEMMA LedgerInit == Init => LedgerInvariant
<1> SUFFICES ASSUME Init PROVE LedgerInvariant
  OBVIOUS
<1>1. \A p \in Procs : p # NoProc
  BY EngineAssumption
<1>2. LockDiscipline /\ SnapshotIsCurrent /\ ClosedIsUntouched
  BY <1>1 DEF Init, LockDiscipline, SnapshotIsCurrent, ClosedIsUntouched, Deciding
<1>3. PlannedMovements
  BY DEF Init, PlannedMovements, NoPlan
<1>4. LedgerBacksBalance
  BY DEF Init, LedgerBacksBalance, Backs, ClosedWallet
<1>5. QED BY <1>2, <1>3, <1>4 DEF LedgerInvariant

LEMMA LedgerNext == TypeOK /\ LedgerInvariant /\ [Next]_vars => LedgerInvariant'
<1> SUFFICES ASSUME TypeOK, LedgerInvariant, [Next]_vars PROVE LedgerInvariant'
  OBVIOUS
<1>1. CASE UNCHANGED vars
  BY <1>1 DEF vars, LedgerInvariant, LockDiscipline, SnapshotIsCurrent, PlannedMovements,
              ClosedIsUntouched, LedgerBacksBalance
<1>2. ASSUME NEW w \in Wallets, NEW b \in OpeningBalances, OpenWallet(w, b)
      PROVE  LedgerInvariant'
  BY <1>2, OpeningKeepsLedger
<1>3. ASSUME NEW p \in Sessions, NEW r \in Requests, Submit(p, r) PROVE LedgerInvariant'
  BY <1>3, RefusalsMoveNothing, StartKeepsLedger DEF Submit, Procs
<1>4. ASSUME NEW p \in Consumers, NEW m \in Messages, Deliver(p, m) PROVE LedgerInvariant'
  BY <1>4, RefusalsMoveNothing, StartKeepsLedger DEF Deliver, Procs
<1>5. ASSUME NEW p \in Workers, NEW i \in DOMAIN txs, Claim(p, i) PROVE LedgerInvariant'
  BY <1>5, RefusalsMoveNothing, StartKeepsLedger DEF Claim, Procs
<1>6. ASSUME NEW p \in Procs, Step(p) PROVE LedgerInvariant'
  BY <1>6, InboxKeepsLedger, LockKeepsLedger, DecisionsKeepLedger, CommitKeepsLedger,
     AbortKeepsLedger DEF Step, Rollback
<1>7. ASSUME NEW p \in Procs, Crash(p) PROVE LedgerInvariant'
  BY <1>7, AbortKeepsLedger DEF Crash
<1>8. ASSUME NEW i \in DOMAIN txs, BecomesDue(i) PROVE LedgerInvariant'
  BY <1>8 DEF BecomesDue, work, LedgerInvariant, LockDiscipline, SnapshotIsCurrent,
              PlannedMovements, ClosedIsUntouched, LedgerBacksBalance
<1>9. QED BY <1>1, <1>2, <1>3, <1>4, <1>5, <1>6, <1>7, <1>8 DEF Next

\* The invariant of the ledger: what the plans, copies and locks of the units of
\* work must agree on, so that a commit extends the history of its wallet.
THEOREM LedgerInvariantCorrect == Spec => []LedgerInvariant
<1>1. Init => TypeOK /\ LedgerInvariant
  BY TypeInit, LedgerInit
<1>2. TypeOK /\ LedgerInvariant /\ [Next]_vars => TypeOK' /\ LedgerInvariant'
  BY TypeNext, LedgerNext
<1>3. QED BY <1>1, <1>2, PTL DEF Spec

\* No interleaving of sessions, consumers, workers and crashes leaves a balance
\* that its ledger does not explain entry by entry (UnitOfWork.Execute,
\* LockByID, appendEntry, UpdateBalance).
THEOREM LedgerCorrect == Spec => []LedgerBacksBalance
<1>1. LedgerInvariant => LedgerBacksBalance
  BY DEF LedgerInvariant
<1>2. QED BY <1>1, LedgerInvariantCorrect, PTL

\* Who holds the row lock of a wallet knows its committed state: an UPDATE
\* without version predicate (UpdateBalance) overwrites nothing it has not read.
THEOREM SnapshotCorrect == Spec => []SnapshotIsCurrent
<1>1. LedgerInvariant => SnapshotIsCurrent
  BY DEF LedgerInvariant
<1>2. QED BY <1>1, LedgerInvariantCorrect, PTL

-----------------------------------------------------------------------------
(* What the domain does to a row.                                          *)

\* A valid request has an identity, the request of an OPENING row has none.
LEMMA Identities ==
  /\ \A r \in Requests : r.kind # "OPENING" /\ (Valid(r) => r.key # Nil /\ r.ext # Nil)
  /\ \A r \in StoredRequests : r.key # Nil => r \in Requests
<1>1. \A r \in Requests : r.kind # "OPENING" /\ (Valid(r) => r.key # Nil /\ r.ext # Nil)
  BY DomainAssumption DEF Valid, Request, ExternalKinds
<1>2. ASSUME NEW r \in StoredRequests, r.key # Nil PROVE r \in Requests
  BY <1>2 DEF StoredRequests, OpeningRequest
<1>3. QED BY <1>1, <1>2

\* A refusal, a movement and a wait keep the request of the row, and the first
\* two settle it.
LEMMA RowsKeepTheirRequest ==
  ASSUME NEW row \in Row, NEW why, NEW reference, NEW direction, NEW balance, NEW version
  PROVE  /\ Settles(row, Reject(row, why))
         /\ Settles(row, ScheduleReferenceRetry(row))
         /\ Settles(row, Moved(row, reference, direction, balance, version))
         /\ MarkPendingReference(row).req = row.req
<1>1. Settles(row, Reject(row, why))
  BY DEF Settles, Reject, Row
<1>2. Settles(row, ScheduleReferenceRetry(row))
  BY DEF Settles, ScheduleReferenceRetry, Row
<1>3. MarkPendingReference(row).req = row.req
  BY DEF MarkPendingReference, Row
<1>4. CASE Overdraws(direction, balance, row.req.amount)
  <2> DEFINE resolved == [row EXCEPT !.refTx = reference]
             code == InsufficientFundsCode(row.req.kind)
  <2>1. resolved.req = row.req /\ DOMAIN resolved = DOMAIN row
    BY DEF Row
  <2>2. Moved(row, reference, direction, balance, version) = Reject(resolved, code)
    BY <1>4 DEF Moved
  <2>3. Reject(resolved, code).req = row.req /\ Reject(resolved, code).status = "REJECTED"
    BY <2>1 DEF Reject, Row
  <2>4. QED BY <1>1, <1>2, <1>3, <2>2, <2>3 DEF Settles
<1>5. CASE ~ Overdraws(direction, balance, row.req.amount)
  <2> DEFINE after == BalanceAfter(direction, balance, row.req.amount)
             ver == VersionAfter(direction, version)
  <2>1. Moved(row, reference, direction, balance, version) = MarkProcessed(row, reference, after, ver)
    BY <1>5 DEF Moved
  <2> HIDE DEF after, ver
  <2>2. /\ MarkProcessed(row, reference, after, ver).req = row.req
        /\ MarkProcessed(row, reference, after, ver).status = "PROCESSED"
    BY DEF MarkProcessed, Row
  <2>3. QED BY <1>1, <1>2, <1>3, <2>1, <2>2 DEF Settles
<1>6. QED BY <1>4, <1>5

-----------------------------------------------------------------------------
(* What a process may plan.                                                *)

\* An outcome that p may plan: a worker settles the row it has claimed, anybody
\* else inserts the request it was handed.
Admissible(p, outcome) ==
  \/ /\ p \in Workers /\ outcome.write = "update"
     /\ Settles(txs[job[p].tx], outcome.row)
  \/ /\ p \notin Workers /\ outcome.write = "insert"
     /\ outcome.row.req = job[p].req

LEMMA PlainOutcomes ==
  ASSUME NEW p, NEW row, NEW error
  PROVE  /\ NoPlan.write = "none" /\ NoPlan.row.status = "PENDING"
         /\ Failed(error).write = "none" /\ Failed(error).row.status = "PENDING"
         /\ [NoPlan EXCEPT !.row = row].write = "none" /\ [NoPlan EXCEPT !.row = row].row = row
BY DEF NoPlan, Failed, NoRow, NewExternal, BlankRow

LEMMA WrittenFields ==
  ASSUME NEW how, NEW row, NEW direction
  PROVE  Written(how, row, direction).write = how /\ Written(how, row, direction).row = row
BY DEF Written

\* A process before its decision holds the row it decides about.
Undecided(p) ==
  /\ plan[p].row \in Row
  /\ p \in Workers => plan[p].row = txs[job[p].tx]
  /\ p \notin Workers => plan[p].row.req = job[p].req

LEMMA SettlingIsAdmissible ==
  ASSUME NEW p \in Procs, Undecided(p), NEW after, Settles(plan[p].row, after), NEW direction
  PROVE  Admissible(p, Written(How(p), after, direction))
BY WrittenFields DEF Admissible, Undecided, How, Settles

\* A decision: p writes, or ends without writing, or goes on deciding.
Decides(p) ==
  /\ txs' = txs
  /\ \A q \in Procs \ {p} : pc'[q] = pc[q] /\ job'[q] = job[q] /\ plan'[q] = plan[q]
  /\ job'[p].req = job[p].req /\ job'[p].tx = job[p].tx
  /\ \/ /\ pc'[p] = "persist" /\ Admissible(p, plan'[p])
     \/ /\ pc'[p] = "return" /\ plan'[p].write = "none"
        /\ \/ plan'[p].row.status = "PENDING"
           \/ plan'[p].row.req = job[p].req /\ \E i \in DOMAIN txs : txs[i] = plan'[p].row
     \/ /\ pc'[p] \in (IF p \in Workers THEN {"ref", "reversed"}
                       ELSE {"recordInbox", "lock", "key", "ext", "ref", "reversed"})
        /\ plan'[p] = plan[p]

LEMMA HistoryOutcomes ==
  ASSUME TypeOK, NEW p \in Procs, NEW outcome
  PROVE  /\ Finish(p, outcome) =>
              /\ pc'[p] = "return" /\ plan'[p] = outcome
              /\ \A q \in Procs \ {p} : pc'[q] = pc[q] /\ plan'[q] = plan[q]
         /\ Write(p, outcome) =>
              /\ pc'[p] = "persist" /\ plan'[p] = outcome
              /\ \A q \in Procs \ {p} : pc'[q] = pc[q] /\ plan'[q] = plan[q]
         /\ \A next : Goto(p, next) =>
              /\ pc'[p] = next
              /\ \A q \in Procs \ {p} : pc'[q] = pc[q]
BY DEF TypeOK, Finish, Write, Goto

LEMMA MoveDecides ==
  ASSUME TypeOK, NEW p \in Procs, Undecided(p), NEW reference, NEW direction,
         Move(p, How(p), reference, direction), txs' = txs, job' = job
  PROVE  Decides(p)
<1>1. CASE Overflows(direction, view[p].balance, plan[p].row.req.amount)
  BY <1>1, HistoryOutcomes, PlainOutcomes DEF Move, Decides
<1>2. CASE ~ Overflows(direction, view[p].balance, plan[p].row.req.amount)
  <2> DEFINE after == Moved(plan[p].row, reference, direction, view[p].balance, view[p].version)
  <2>1. Settles(plan[p].row, after)
    BY RowsKeepTheirRequest DEF Undecided
  <2>2. Write(p, Written(How(p), after, direction))
    BY <1>2 DEF Move
  <2> HIDE DEF after
  <2>3. Admissible(p, Written(How(p), after, direction))
    BY <2>1, SettlingIsAdmissible
  <2>4. QED BY <2>2, <2>3, HistoryOutcomes DEF Decides
<1>3. QED BY <1>1, <1>2

Undeciding == {"findInbox", "recordInbox", "lock", "key", "ext", "ref", "reversed"}

LEMMA UndecidedBefore ==
  ASSUME TypeOK, HistoryInvariant, NEW p \in Procs, pc[p] \in Undeciding
  PROVE  /\ Undecided(p) /\ plan[p].write = "none"
         /\ p \in Workers => pc[p] \in {"lock", "ref", "reversed"}
<1>1. plan[p].row \in Row
  BY DEF TypeOK, Plan
<1>2. CASE p \in Workers
  BY <1>1, <1>2 DEF HistoryInvariant, RowsAreClaimed, Undecided, Undeciding
<1>3. CASE p \notin Workers
  BY <1>1, <1>3 DEF HistoryInvariant, RequestsAreCarried, Undecided, Undeciding, Procs
<1>4. QED BY <1>2, <1>3

\* Every statement before Persist is a decision.
LEMMA InboxDecides ==
  ASSUME TypeOK, HistoryInvariant, NEW p \in Procs, FindInbox(p) \/ RecordInbox(p)
  PROVE  Decides(p)
<1>1. pc[p] \in {"findInbox", "recordInbox"} /\ p \notin Workers /\ txs' = txs
  <2>1. pc[p] \in {"findInbox", "recordInbox"} /\ txs' = txs
    BY DEF FindInbox, RecordInbox, tables
  <2>2. QED BY <2>1, UndecidedBefore DEF Undeciding
<1>2. /\ \A q \in Procs \ {p} : job'[q] = job[q]
      /\ job'[p].req = job[p].req /\ job'[p].tx = job[p].tx
  BY DEF FindInbox, RecordInbox, TypeOK, Job
<1>3. \/ \E outcome : outcome.write = "none" /\ outcome.row.status = "PENDING" /\ Finish(p, outcome)
      \/ (Goto(p, "recordInbox") \/ Goto(p, "lock")) /\ UNCHANGED plan
  BY PlainOutcomes DEF FindInbox, RecordInbox, SeenBefore
<1>4. QED BY <1>1, <1>2, <1>3, HistoryOutcomes DEF Decides

LEMMA LockDecides ==
  ASSUME TypeOK, NEW p \in Procs, LockWallet(p)
  PROVE  Decides(p)
<1>1. txs' = txs /\ job' = job
  BY DEF LockWallet, tables
<1>2. \/ Finish(p, Failed("INVALID_INPUT")) \/ Finish(p, Failed("NOT_FOUND"))
      \/ Goto(p, IF p \in Workers THEN "ref" ELSE "key") /\ UNCHANGED plan
  BY DEF LockWallet
<1>3. QED BY <1>1, <1>2, PlainOutcomes, HistoryOutcomes DEF Decides

LEMMA ReplayDecides ==
  ASSUME TypeOK, HistoryInvariant, NEW p \in Procs, FindByIdempotencyKey(p)
  PROVE  Decides(p)
<1>1. pc[p] = "key" /\ p \notin Workers /\ txs' = txs /\ job' = job
  BY UndecidedBefore DEF FindByIdempotencyKey, Undeciding, tables
<1>2. \/ Goto(p, "ext") /\ UNCHANGED plan
      \/ \E outcome : /\ outcome.write = "none" /\ Finish(p, outcome)
                       /\ \/ outcome.row.status = "PENDING"
                          \/ outcome.row.req = job[p].req /\ \E i \in DOMAIN txs : txs[i] = outcome.row
  <2>1. CASE Goto(p, "ext") /\ UNCHANGED plan
    BY <2>1
  <2>2. CASE Finish(p, Failed("IDEMPOTENCY_KEY_CONFLICT"))
    BY <2>2, PlainOutcomes
  <2>3. ASSUME NEW i \in DOMAIN txs, txs[i].req = job[p].req, Finish(p, ReplayOf(p, i))
        PROVE  \E outcome : /\ outcome.write = "none" /\ Finish(p, outcome)
                            /\ outcome.row.req = job[p].req /\ \E k \in DOMAIN txs : txs[k] = outcome.row
    <3>1. ReplayOf(p, i).write = "none" /\ ReplayOf(p, i).row = txs[i]
      BY PlainOutcomes DEF ReplayOf
    <3>2. QED BY <2>3, <3>1
  <2>4. QED BY <2>1, <2>2, <2>3 DEF FindByIdempotencyKey
<1>3. QED BY <1>1, <1>2, HistoryOutcomes DEF Decides

\* A refusal by p is admissible.
LEMMA RefusalDecides ==
  ASSUME TypeOK, NEW p \in Procs, Undecided(p), NEW why,
         Write(p, Written(How(p), Reject(plan[p].row, why), "NONE")), txs' = txs,
         \A q \in Procs \ {p} : job'[q] = job[q],
         job'[p].req = job[p].req, job'[p].tx = job[p].tx
  PROVE  Decides(p)
<1>1. Settles(plan[p].row, Reject(plan[p].row, why))
  BY RowsKeepTheirRequest DEF Undecided
<1>2. QED BY <1>1, SettlingIsAdmissible, HistoryOutcomes DEF Decides

LEMMA DirectDecides ==
  ASSUME TypeOK, HistoryInvariant, NEW p \in Procs, FindByExternalID(p)
  PROVE  Decides(p)
<1>1. /\ pc[p] = "ext" /\ p \notin Workers /\ txs' = txs /\ job' = job
      /\ Undecided(p) /\ How(p) = "insert"
  BY UndecidedBefore DEF FindByExternalID, Undeciding, tables, How
<1>2. \/ Finish(p, Failed("OPERATION_ALREADY_APPLIED")) \/ Finish(p, Failed("MISSING_FIELD"))
      \/ Goto(p, "ref") /\ UNCHANGED plan
      \/ \E why : Write(p, Written(How(p), Reject(plan[p].row, why), "NONE"))
      \/ \E direction : Move(p, How(p), 0, direction)
  BY <1>1 DEF FindByExternalID
<1>3. CASE \/ Finish(p, Failed("OPERATION_ALREADY_APPLIED")) \/ Finish(p, Failed("MISSING_FIELD"))
           \/ Goto(p, "ref") /\ UNCHANGED plan
  BY <1>1, <1>3, PlainOutcomes, HistoryOutcomes DEF Decides
<1>4. CASE \E why : Write(p, Written(How(p), Reject(plan[p].row, why), "NONE"))
  BY <1>1, <1>4, RefusalDecides
<1>5. CASE \E direction : Move(p, How(p), 0, direction)
  BY <1>1, <1>5, MoveDecides
<1>6. QED BY <1>2, <1>3, <1>4, <1>5

\* A retry, an expiry and a first wait are admissible.
LEMMA WaitDecides ==
  ASSUME TypeOK, NEW p \in Procs, Undecided(p), txs' = txs, job' = job,
         \/ p \in Workers /\ WaitOrExpire(p)
         \/ /\ p \notin Workers
            /\ Write(p, Written("insert", MarkPendingReference(plan[p].row), "NONE"))
  PROVE  Decides(p)
<1>1. CASE p \in Workers
  <2>1. PICK after : Settles(plan[p].row, after) /\ Write(p, Written("update", after, "NONE"))
    BY <1>1, RowsKeepTheirRequest DEF WaitOrExpire, Undecided
  <2>2. Admissible(p, Written(How(p), after, "NONE")) /\ How(p) = "update"
    BY <1>1, <2>1, SettlingIsAdmissible DEF How
  <2>3. QED BY <2>1, <2>2, HistoryOutcomes DEF Decides
<1>2. CASE p \notin Workers
  <2>1. Admissible(p, Written("insert", MarkPendingReference(plan[p].row), "NONE"))
    BY <1>2, RowsKeepTheirRequest, WrittenFields DEF Admissible, Undecided
  <2>2. QED BY <1>2, <2>1, HistoryOutcomes DEF Decides
<1>3. QED BY <1>1, <1>2

LEMMA ReversalDecides ==
  ASSUME TypeOK, HistoryInvariant, NEW p \in Procs, FindReference(p) \/ CheckReversed(p)
  PROVE  Decides(p)
<1>1. pc[p] \in {"ref", "reversed"} /\ txs' = txs /\ Undecided(p)
  BY UndecidedBefore DEF FindReference, CheckReversed, Undeciding, tables
<1>2. /\ \A q \in Procs \ {p} : job'[q] = job[q]
      /\ job'[p].req = job[p].req /\ job'[p].tx = job[p].tx
  BY DEF FindReference, CheckReversed, TypeOK, Job
<1>3. CASE FindReference(p)
  <2>1. \/ /\ job' = job
           /\ \/ p \in Workers /\ WaitOrExpire(p)
              \/ /\ p \notin Workers
                 /\ Write(p, Written("insert", MarkPendingReference(plan[p].row), "NONE"))
        \/ \E why : Write(p, Written(How(p), Reject(plan[p].row, why), "NONE"))
        \/ Goto(p, "reversed") /\ UNCHANGED plan
    BY <1>3 DEF FindReference
  <2>2. CASE Goto(p, "reversed") /\ UNCHANGED plan
    BY <1>1, <1>2, <2>2, HistoryOutcomes DEF Decides
  <2>3. QED BY <1>1, <1>2, <2>1, <2>2, WaitDecides, RefusalDecides
<1>4. CASE CheckReversed(p)
  <2>1. job' = job
    BY <1>4 DEF CheckReversed
  <2>2. \/ Write(p, Written(How(p), Reject(plan[p].row, "DUPLICATE_REVERSAL"), "NONE"))
        \/ \E direction : Move(p, How(p), job[p].ref, direction)
    BY <1>4 DEF CheckReversed
  <2>3. QED BY <1>1, <1>2, <2>1, <2>2, RefusalDecides, MoveDecides
<1>5. QED BY <1>3, <1>4

-----------------------------------------------------------------------------
(* Steps that leave the transactions alone.                                *)

\* The invariant, seen from one process.
ClaimInOrder(p) ==
  pc[p] # "idle" =>
    /\ job[p].tx \in DOMAIN txs
    /\ txs[job[p].tx].status = "PENDING_REFERENCE"
    /\ txs[job[p].tx].req = job[p].req
    /\ pc[p] \in {"lock", "ref", "reversed"} => plan[p].write = "none" /\ plan[p].row = txs[job[p].tx]
    /\ plan[p].write \in {"none", "update"}
    /\ plan[p].write = "update" => Settles(txs[job[p].tx], plan[p].row)
    /\ pc[p] \in {"lock", "ref", "reversed", "persist", "return"}
RequestInOrder(p) ==
  /\ job[p].req \in Requests /\ job[p].tx = 0
  /\ pc[p] \notin {"idle", "persist", "return"} => plan[p].write = "none" /\ plan[p].row.req = job[p].req
  /\ plan[p].write \in {"none", "insert"}
  /\ plan[p].write = "insert" => plan[p].row.req = job[p].req
  /\ LetThrough(p)

LEMMA InvariantByProcess ==
  /\ RowsAreClaimed <=>
       \A p \in Workers :
         /\ ClaimInOrder(p)
         /\ pc[p] # "idle" =>
              \A q \in Workers : pc[q] # "idle" /\ job[q].tx = job[p].tx => q = p
  /\ RequestsAreCarried <=> \A p \in Sessions \cup Consumers : RequestInOrder(p)
BY DEF RowsAreClaimed, ClaimInOrder, RequestsAreCarried, RequestInOrder

\* A step of p that leaves the transactions alone, keeps p's own part in order,
\* claims no row of another worker and brings no clashing insert to its commit.
LEMMA QuietStep ==
  ASSUME HistoryInvariant, NEW p \in Procs, txs' = txs,
         \A q \in Procs \ {p} : pc'[q] = pc[q] /\ job'[q] = job[q] /\ plan'[q] = plan[q],
         p \in Workers => ClaimInOrder(p)',
         p \in Workers /\ pc'[p] # "idle" =>
           \A q \in Workers \ {p} : pc[q] # "idle" => job[q].tx # job'[p].tx,
         p \notin Workers => RequestInOrder(p)',
         p \notin Workers /\ InFlight(p)' =>
           /\ \A i \in DOMAIN txs : ~ SameIdentity(txs[i], plan'[p].row)
           /\ \A q \in (Sessions \cup Consumers) \ {p} :
                InFlight(q) => ~ SameIdentity(plan[q].row, plan'[p].row)
  PROVE  HistoryInvariant'
<1>1. RowsAreClaimed'
  <2>1. \A q \in Workers : ClaimInOrder(q)'
    <3>1. \A q \in Workers \ {p} : ClaimInOrder(q)'
      BY InvariantByProcess DEF HistoryInvariant, ClaimInOrder, Procs
    <3>2. QED BY <3>1
  <2>2. \A q, r \in Workers : pc'[q] # "idle" /\ pc'[r] # "idle" /\ job'[r].tx = job'[q].tx => r = q
    BY DEF HistoryInvariant, RowsAreClaimed, Procs
  <2>3. QED BY <2>1, <2>2 DEF RowsAreClaimed, ClaimInOrder
<1>2. RequestsAreCarried'
  <2>1. \A q \in Sessions \cup Consumers : RequestInOrder(q)'
    <3>1. \A q \in (Sessions \cup Consumers) \ {p} : RequestInOrder(q)'
      BY InvariantByProcess DEF HistoryInvariant, RequestInOrder, LetThrough, Procs
    <3>2. QED BY <3>1, EngineAssumption
  <2>2. QED BY <2>1 DEF RequestsAreCarried, RequestInOrder
<1>3. InsertsAreNew'
  <2> DEFINE Others == Sessions \cup Consumers
  <2>1. \A q \in Others \ {p} : InFlight(q)' <=> InFlight(q)
    BY DEF InFlight, Procs
  <2>2. \A a, b : SameIdentity(a, b) <=> SameIdentity(b, a)
    BY DEF SameIdentity
  <2> SUFFICES ASSUME NEW q \in Others, InFlight(q)'
               PROVE  /\ \A i \in DOMAIN txs : ~ SameIdentity(txs[i], plan'[q].row)
                      /\ \A r \in Others \ {q} :
                           InFlight(r)' => ~ SameIdentity(plan'[r].row, plan'[q].row)
    BY DEF InsertsAreNew, SameIdentity
  <2>3. CASE q = p
    <3>1. p \notin Workers
      BY <2>3, EngineAssumption
    <3>2. QED BY <2>1, <2>3, <3>1 DEF Procs
  <2>4. CASE q # p
    <3>1. /\ InFlight(q) /\ plan'[q] = plan[q]
          /\ \A i \in DOMAIN txs : ~ SameIdentity(txs[i], plan[q].row)
          /\ \A r \in Others \ {q} : InFlight(r) => ~ SameIdentity(plan[r].row, plan[q].row)
      BY <2>1, <2>4 DEF HistoryInvariant, InsertsAreNew, Procs
    <3>2. ASSUME NEW r \in Others \ {q}, InFlight(r)'
          PROVE  ~ SameIdentity(plan'[r].row, plan'[q].row)
      <4>1. CASE r = p
        <5>1. p \notin Workers
          BY <4>1, EngineAssumption
        <5>2. ~ SameIdentity(plan[q].row, plan'[p].row)
          BY <2>4, <3>1, <3>2, <4>1, <5>1
        <5>3. QED BY <2>2, <3>1, <4>1, <5>2
      <4>2. CASE r # p
        BY <2>1, <3>1, <3>2, <4>2 DEF Procs
      <4>3. QED BY <4>1, <4>2
    <3>3. QED BY <3>1, <3>2
  <2>5. QED BY <2>3, <2>4
<1>4. OneOperationPerIdentity' /\ StoredRowsAreValid'
  BY DEF HistoryInvariant, OneOperationPerIdentity, StoredRowsAreValid
<1>5. QED BY <1>1, <1>2, <1>3, <1>4 DEF HistoryInvariant

\* No statement decides about a command that parse and NewExternal have not let
\* through.
LEMMA StatementsLetThrough ==
  ASSUME TypeOK, HistoryInvariant, NEW p \in Procs, p \notin Workers,
         \/ FindInbox(p) \/ RecordInbox(p) \/ LockWallet(p) \/ FindByIdempotencyKey(p)
         \/ FindByExternalID(p) \/ FindReference(p) \/ CheckReversed(p)
  PROVE  LetThrough(p)'
<1>1. job'[p].req = job[p].req
  BY DEF FindInbox, RecordInbox, LockWallet, FindByIdempotencyKey, FindByExternalID,
         FindReference, CheckReversed, TypeOK, Job
<1>2. LetThrough(p)
  BY InvariantByProcess DEF HistoryInvariant, RequestInOrder, Procs
<1>3. plan[p].write = "none"
  BY UndecidedBefore DEF FindInbox, RecordInbox, LockWallet, FindByIdempotencyKey,
         FindByExternalID, FindReference, CheckReversed, Undeciding
<1>4. CASE Valid(job[p].req) /\ Complete(job[p].req)
  BY <1>1, <1>4 DEF LetThrough
<1>5. ASSUME NEW outcome, outcome.write = "none", Finish(p, outcome) PROVE LetThrough(p)'
  BY <1>5, HistoryOutcomes DEF LetThrough, Deciding
<1>6. ASSUME NEW next \in {"recordInbox", "lock"}, Goto(p, next), UNCHANGED plan
      PROVE  LetThrough(p)'
  BY <1>3, <1>6, HistoryOutcomes DEF LetThrough, Deciding
<1>7. ASSUME NEW next \in {"key", "ext"}, Goto(p, next), UNCHANGED plan, Valid(job[p].req)
      PROVE  LetThrough(p)'
  BY <1>1, <1>3, <1>7, HistoryOutcomes DEF LetThrough, Deciding
<1>8. CASE FindInbox(p) \/ RecordInbox(p)
  <2>1. \/ \E outcome : outcome.write = "none" /\ Finish(p, outcome)
        \/ \E next \in {"recordInbox", "lock"} : Goto(p, next) /\ UNCHANGED plan
    BY <1>8, PlainOutcomes DEF FindInbox, RecordInbox, SeenBefore
  <2>2. QED BY <1>5, <1>6, <2>1
<1>9. CASE LockWallet(p)
  <2>1. \/ \E outcome : outcome.write = "none" /\ Finish(p, outcome)
        \/ Goto(p, "key") /\ UNCHANGED plan /\ Valid(job[p].req)
    BY <1>9, PlainOutcomes DEF LockWallet, Parses
  <2>2. QED BY <1>5, <1>7, <2>1
<1>10. CASE FindByIdempotencyKey(p)
  <2>1. Valid(job[p].req)
    BY <1>2, <1>10 DEF FindByIdempotencyKey, LetThrough, Deciding
  <2>2. \/ \E outcome : outcome.write = "none" /\ Finish(p, outcome)
        \/ Goto(p, "ext") /\ UNCHANGED plan
    BY <1>10, PlainOutcomes DEF FindByIdempotencyKey, ReplayOf
  <2>3. QED BY <1>5, <1>7, <2>1, <2>2
<1>11. CASE FindByExternalID(p)
  <2>1. Valid(job[p].req)
    BY <1>2, <1>11 DEF FindByExternalID, LetThrough, Deciding
  <2>2. Complete(job[p].req) \/ \E outcome : outcome.write = "none" /\ Finish(p, outcome)
    BY <1>11, PlainOutcomes DEF FindByExternalID
  <2>3. QED BY <1>4, <1>5, <2>1, <2>2
<1>12. CASE FindReference(p) \/ CheckReversed(p)
  <2>1. Valid(job[p].req) /\ Complete(job[p].req)
    BY <1>2, <1>12 DEF FindReference, CheckReversed, LetThrough
  <2>2. QED BY <1>4, <2>1
<1>13. QED BY <1>8, <1>9, <1>10, <1>11, <1>12

LEMMA DecisionsKeepHistory ==
  ASSUME TypeOK, HistoryInvariant, NEW p \in Procs, pc[p] \in Undeciding, Decides(p),
         p \notin Workers => LetThrough(p)'
  PROVE  HistoryInvariant'
<1>1. Undecided(p) /\ plan[p].write = "none"
  BY UndecidedBefore
<1>2. ~ InFlight(p)'
  BY <1>1 DEF Decides, InFlight
<1>3. CASE p \in Workers
  <2>1. ClaimInOrder(p) /\ pc[p] # "idle"
        /\ \A q \in Workers : pc[q] # "idle" /\ job[q].tx = job[p].tx => q = p
    BY <1>3, InvariantByProcess DEF HistoryInvariant, Undeciding
  <2>2. ClaimInOrder(p)'
    BY <1>1, <1>3, <2>1 DEF ClaimInOrder, Decides, Admissible, Undecided
  <2>3. \A q \in Workers \ {p} : pc[q] # "idle" => job[q].tx # job'[p].tx
    BY <2>1 DEF Decides
  <2>4. QED BY <1>2, <1>3, <2>2, <2>3, QuietStep DEF Decides
<1>4. CASE p \notin Workers
  <2>1. RequestInOrder(p)
    BY <1>4, InvariantByProcess DEF HistoryInvariant, Procs
  <2>2. RequestInOrder(p)'
    BY <1>1, <1>4, <2>1 DEF RequestInOrder, Decides, Admissible, Undecided
  <2>3. QED BY <1>2, <1>4, <2>2, QuietStep DEF Decides
<1>5. QED BY <1>3, <1>4

\* Persist lets only a new identity through to its commit.
LEMMA PersistKeepsHistory ==
  ASSUME TypeOK, HistoryInvariant, NEW p \in Procs, Persist(p)
  PROVE  HistoryInvariant'
<1>1. /\ pc[p] = "persist" /\ txs' = txs /\ job' = job
      /\ \/ Finish(p, Failed("DB_CONFLICT"))
         \/ /\ Goto(p, "return") /\ plan' = plan
            /\ \A i \in DOMAIN txs \ {job[p].tx} : ~ Clash(txs[i], plan[p].row)
            /\ \A q \in Procs \ {p} : ~ (InFlight(q) /\ Clash(plan[q].row, plan[p].row))
  BY DEF Persist, tables
<1>2. /\ \A q \in Procs \ {p} : pc'[q] = pc[q] /\ job'[q] = job[q] /\ plan'[q] = plan[q]
      /\ pc'[p] = "return"
      /\ plan'[p] = plan[p] \/ plan'[p].write = "none"
  BY <1>1, HistoryOutcomes, PlainOutcomes
<1>3. CASE p \in Workers
  <2>1. ClaimInOrder(p) /\ pc[p] # "idle"
        /\ \A q \in Workers : pc[q] # "idle" /\ job[q].tx = job[p].tx => q = p
    BY <1>1, <1>3, InvariantByProcess DEF HistoryInvariant
  <2>2. ClaimInOrder(p)'
    BY <1>1, <1>2, <2>1 DEF ClaimInOrder
  <2>3. QED BY <1>1, <1>2, <1>3, <2>1, <2>2, QuietStep
<1>4. CASE p \notin Workers
  <2>1. RequestInOrder(p)
    BY <1>4, InvariantByProcess DEF HistoryInvariant, Procs
  <2>2. RequestInOrder(p)'
    <3>1. Valid(job[p].req)
      BY <1>1, <2>1 DEF RequestInOrder, LetThrough, Deciding
    <3>2. LetThrough(p)'
      BY <1>1, <1>2, <2>1, <3>1 DEF RequestInOrder, LetThrough, Deciding
    <3>3. QED BY <1>1, <1>2, <2>1, <3>2 DEF RequestInOrder
  <2>3. ASSUME InFlight(p)'
        PROVE  /\ \A i \in DOMAIN txs : ~ SameIdentity(txs[i], plan'[p].row)
               /\ \A q \in (Sessions \cup Consumers) \ {p} :
                    InFlight(q) => ~ SameIdentity(plan[q].row, plan'[p].row)
    <3>1. /\ plan' = plan
          /\ \A i \in DOMAIN txs \ {job[p].tx} : ~ Clash(txs[i], plan[p].row)
          /\ \A q \in Procs \ {p} : ~ (InFlight(q) /\ Clash(plan[q].row, plan[p].row))
      BY <1>1, <2>3, HistoryOutcomes, PlainOutcomes DEF InFlight
    <3>2. job[p].tx \notin DOMAIN txs
      <4>1. txs \in Seq(Row)
        BY DEF TypeOK
      <4>2. 0 \notin DOMAIN txs
        BY <4>1, LenProperties
      <4>3. QED BY <2>1, <4>2 DEF RequestInOrder
    <3>3. \A a, b : SameIdentity(a, b) => Clash(a, b)
      BY DEF Clash, SameIdentity
    <3>4. DOMAIN txs \ {job[p].tx} = DOMAIN txs /\ plan'[p] = plan[p]
      BY <3>1, <3>2
    <3>5. \A i \in DOMAIN txs : ~ SameIdentity(txs[i], plan'[p].row)
      BY <3>1, <3>3, <3>4
    <3>6. \A q \in (Sessions \cup Consumers) \ {p} :
            InFlight(q) => ~ SameIdentity(plan[q].row, plan'[p].row)
      <4> SUFFICES ASSUME NEW q \in (Sessions \cup Consumers) \ {p}, InFlight(q)
                   PROVE  ~ SameIdentity(plan[q].row, plan[p].row)
        BY <3>4
      <4>1. ~ Clash(plan[q].row, plan[p].row)
        BY <3>1 DEF Procs
      <4>2. QED BY <3>3, <4>1
    <3>7. QED BY <3>5, <3>6
  <2>4. QED BY <1>1, <1>2, <1>4, <2>2, <2>3, QuietStep
<1>5. QED BY <1>3, <1>4

\* A new unit of work carries its request, or a row nobody else has claimed.
LEMMA StartKeepsHistory ==
  ASSUME TypeOK, HistoryInvariant
  PROVE  /\ \A p \in Sessions, r \in Requests : Submit(p, r) => HistoryInvariant'
         /\ \A p \in Consumers, m \in Messages : Deliver(p, m) => HistoryInvariant'
         /\ \A p \in Workers, i \in DOMAIN txs : Claim(p, i) => HistoryInvariant'
<1>1. ASSUME NEW p \in Procs, NEW newJob, NEW newPlan, NEW first \in {"lock", "findInbox"},
             Start(p, newJob, newPlan, first)
      PROVE  /\ txs' = txs /\ pc[p] = "idle" /\ pc'[p] = first
             /\ job'[p] = newJob /\ plan'[p] = newPlan
             /\ \A q \in Procs \ {p} : pc'[q] = pc[q] /\ job'[q] = job[q] /\ plan'[q] = plan[q]
             /\ ~ InFlight(p)'
  BY <1>1 DEF Start, TypeOK, tables, InFlight
<1>2. ASSUME NEW p \in Sessions \cup Consumers, NEW r \in Requests, NEW m,
             NEW first \in {"lock", "findInbox"},
             \/ Start(p, [NoJob EXCEPT !.req = r], [NoPlan EXCEPT !.row = NewExternal(r)], first)
             \/ Start(p, [NoJob EXCEPT !.req = r, !.msg = m],
                      [NoPlan EXCEPT !.row = NewExternal(r)], first)
      PROVE  HistoryInvariant'
  <2>1. p \in Procs /\ p \notin Workers
    BY EngineAssumption DEF Procs
  <2>2. /\ txs' = txs /\ job'[p].req = r /\ job'[p].tx = 0
        /\ plan'[p].write = "none" /\ plan'[p].row.req = r /\ pc'[p] = first
        /\ \A q \in Procs \ {p} : pc'[q] = pc[q] /\ job'[q] = job[q] /\ plan'[q] = plan[q]
        /\ ~ InFlight(p)'
    <3> DEFINE asked == [NoJob EXCEPT !.req = r]
               heard == [NoJob EXCEPT !.req = r, !.msg = m]
               carried == [NoPlan EXCEPT !.row = NewExternal(r)]
    <3>1. asked.req = r /\ asked.tx = 0 /\ heard.req = r /\ heard.tx = 0
      BY DEF NoJob
    <3>2. carried.write = "none" /\ carried.row = NewExternal(r)
      BY DEF NoPlan
    <3>3. NewExternal(r).req = r
      BY DEF NewExternal, BlankRow
    <3>4. Start(p, asked, carried, first) \/ Start(p, heard, carried, first)
      BY <1>2
    <3> HIDE DEF asked, heard, carried
    <3>5. CASE Start(p, asked, carried, first)
      BY <1>1, <2>1, <3>1, <3>2, <3>3, <3>5
    <3>6. CASE Start(p, heard, carried, first)
      BY <1>1, <2>1, <3>1, <3>2, <3>3, <3>6
    <3>7. QED BY <3>4, <3>5, <3>6
  <2>3. RequestInOrder(p)'
    BY <2>2 DEF RequestInOrder, LetThrough, Deciding
  <2>4. QED BY <2>1, <2>2, <2>3, QuietStep
<1>3. ASSUME NEW p \in Workers, NEW i \in DOMAIN txs, Claim(p, i) PROVE HistoryInvariant'
  <2>1. p \in Procs /\ Claimable(i)
    BY <1>3 DEF Procs, Claim, FirstClaimable
  <2>2. /\ txs' = txs /\ pc'[p] = "lock" /\ job'[p].req = txs[i].req /\ job'[p].tx = i
        /\ plan'[p].write = "none" /\ plan'[p].row = txs[i]
        /\ \A q \in Procs \ {p} : pc'[q] = pc[q] /\ job'[q] = job[q] /\ plan'[q] = plan[q]
    <3> DEFINE claimed == [NoJob EXCEPT !.req = txs[i].req, !.tx = i]
               resumed == [NoPlan EXCEPT !.row = txs[i]]
    <3>1. claimed.req = txs[i].req /\ claimed.tx = i
      BY DEF NoJob
    <3>2. resumed.write = "none" /\ resumed.row = txs[i]
      BY DEF NoPlan
    <3>3. Start(p, claimed, resumed, "lock")
      BY <1>3 DEF Claim
    <3> HIDE DEF claimed, resumed
    <3>4. QED BY <1>1, <2>1, <3>1, <3>2, <3>3
  <2>3. ClaimInOrder(p)'
    BY <2>1, <2>2 DEF ClaimInOrder, Claimable
  <2>4. \A q \in Workers \ {p} : pc[q] # "idle" => job[q].tx # job'[p].tx
    BY <2>1, <2>2 DEF Claimable
  <2>5. QED BY <1>3, <2>1, <2>2, <2>3, <2>4, QuietStep
<1>4. QED BY <1>2, <1>3, EngineAssumption DEF Submit, Deliver

-----------------------------------------------------------------------------
(* Steps that end a unit of work or open a wallet.                         *)

\* q goes on as it was, or its unit of work is over.
Rests(q) ==
  \/ pc'[q] = pc[q] /\ job'[q] = job[q] /\ plan'[q] = plan[q]
  \/ pc'[q] = "idle" /\ job'[q] = NoJob /\ plan'[q] = NoPlan

\* Every row keeps its request, the rows other workers have claimed stay, and
\* at most one row is new, with an identity nobody has.
LEMMA EndKeepsHistory ==
  ASSUME TypeOK, HistoryInvariant,
         \A q \in Procs : Rests(q),
         DOMAIN txs \subseteq DOMAIN txs',
         \A i \in DOMAIN txs : txs'[i].req = txs[i].req,
         \A q \in Workers : pc'[q] # "idle" => txs'[job[q].tx] = txs[job[q].tx],
         \A i, j \in DOMAIN txs' \ DOMAIN txs : i = j,
         \A i \in DOMAIN txs' \ DOMAIN txs :
           /\ \A j \in DOMAIN txs :
                txs[j].req.key # Nil \/ txs'[i].req.key # Nil => ~ SameIdentity(txs[j], txs'[i])
           /\ \A q \in Sessions \cup Consumers :
                pc'[q] # "idle" /\ InFlight(q) => ~ SameIdentity(plan[q].row, txs'[i])
           /\ txs'[i].req.kind # "OPENING" => Valid(txs'[i].req) /\ Complete(txs'[i].req)
  PROVE  HistoryInvariant'
<1>1. RowsAreClaimed'
  <2>1. ASSUME NEW q \in Workers, pc'[q] # "idle"
        PROVE  pc'[q] = pc[q] /\ job'[q] = job[q] /\ plan'[q] = plan[q]
    BY <2>1 DEF Rests, Procs
  <2>2. \A q \in Workers : ClaimInOrder(q)'
    <3> SUFFICES ASSUME NEW q \in Workers, pc'[q] # "idle" PROVE ClaimInOrder(q)'
      BY DEF ClaimInOrder
    <3>1. ClaimInOrder(q) /\ pc[q] # "idle" /\ job[q].tx \in DOMAIN txs
      BY <2>1, InvariantByProcess DEF HistoryInvariant, ClaimInOrder
    <3>2. QED BY <2>1, <3>1 DEF ClaimInOrder
  <2>3. \A q, r \in Workers : pc'[q] # "idle" /\ pc'[r] # "idle" /\ job'[r].tx = job'[q].tx => r = q
    BY <2>1 DEF HistoryInvariant, RowsAreClaimed
  <2>4. QED BY <2>2, <2>3 DEF RowsAreClaimed, ClaimInOrder
<1>2. RequestsAreCarried'
  <2> SUFFICES ASSUME NEW q \in Sessions \cup Consumers PROVE RequestInOrder(q)'
    BY DEF RequestsAreCarried, RequestInOrder
  <2>1. RequestInOrder(q) /\ Rests(q)
    BY InvariantByProcess DEF HistoryInvariant, Procs
  <2>2. NoJob.req \in Requests /\ NoJob.tx = 0 /\ NoPlan.write = "none"
    BY AnyRequestType DEF NoJob, NoPlan
  <2>3. QED BY <2>1, <2>2 DEF RequestInOrder, LetThrough, Deciding, Rests
<1>3. ASSUME NEW q \in Sessions \cup Consumers, InFlight(q)'
      PROVE  pc'[q] # "idle" /\ InFlight(q) /\ plan'[q] = plan[q]
  BY <1>3 DEF Rests, InFlight, Procs
<1>4. \A a, b, c : a.req = b.req => (SameIdentity(a, c) <=> SameIdentity(b, c))
  BY DEF SameIdentity
<1>5. InsertsAreNew'
  <2> SUFFICES ASSUME NEW q \in Sessions \cup Consumers, InFlight(q)'
               PROVE  /\ \A i \in DOMAIN txs' : ~ SameIdentity(txs'[i], plan'[q].row)
                      /\ \A r \in (Sessions \cup Consumers) \ {q} :
                           InFlight(r)' => ~ SameIdentity(plan'[r].row, plan'[q].row)
    BY DEF InsertsAreNew, SameIdentity
  <2>1. /\ pc'[q] # "idle" /\ InFlight(q) /\ plan'[q] = plan[q]
        /\ \A i \in DOMAIN txs : ~ SameIdentity(txs[i], plan[q].row)
        /\ \A r \in (Sessions \cup Consumers) \ {q} :
             InFlight(r) => ~ SameIdentity(plan[r].row, plan[q].row)
    BY <1>3 DEF HistoryInvariant, InsertsAreNew
  <2>2. \A i \in DOMAIN txs' \ DOMAIN txs : ~ SameIdentity(txs'[i], plan[q].row)
    BY <2>1 DEF SameIdentity
  <2>3. \A i \in DOMAIN txs' : ~ SameIdentity(txs'[i], plan'[q].row)
    BY <1>4, <2>1, <2>2
  <2>4. QED BY <1>3, <2>1, <2>3
<1>6. OneOperationPerIdentity'
  <2> SUFFICES ASSUME NEW i \in DOMAIN txs', NEW j \in DOMAIN txs', i # j, txs'[i].req.key # Nil
               PROVE  txs'[i].req.key # txs'[j].req.key /\ txs'[i].req.ext # txs'[j].req.ext
    BY DEF OneOperationPerIdentity
  <2>1. CASE i \in DOMAIN txs /\ j \in DOMAIN txs
    BY <2>1 DEF HistoryInvariant, OneOperationPerIdentity
  <2>2. CASE i \in DOMAIN txs /\ j \notin DOMAIN txs
    <3>1. ~ SameIdentity(txs[i], txs'[j])
      BY <2>2
    <3>2. QED BY <2>2, <3>1 DEF SameIdentity
  <2>3. CASE i \notin DOMAIN txs /\ j \in DOMAIN txs
    <3>1. ~ SameIdentity(txs[j], txs'[i])
      BY <2>3
    <3>2. QED BY <2>3, <3>1 DEF SameIdentity
  <2>4. QED BY <2>1, <2>2, <2>3
<1>7. StoredRowsAreValid'
  BY DEF HistoryInvariant, StoredRowsAreValid
<1>8. QED BY <1>1, <1>2, <1>5, <1>6, <1>7 DEF HistoryInvariant

\* The row of an opening with money.
OpeningRow(w, b) == MarkProcessed(NewExternal(OpeningRequest(w, b)), 0, b, 1)

LEMMA OpeningRowType ==
  ASSUME NEW w \in Wallets, NEW b \in OpeningBalances, b # 0
  PROVE  OpeningRow(w, b) \in Row
<1>1. b \in 0..MaxMinor /\ b \in 1..MaxMinor
  <2>1. b \in 0..MaxMinor
    BY EngineAssumption
  <2>2. QED BY <2>1, DomainAssumption
<1>2. OpeningRequest(w, b) \in StoredRequests
  BY <1>1 DEF StoredRequests
<1>3. NewExternal(OpeningRequest(w, b)) \in Row
  BY <1>2, NewRowType
<1>4. QED BY <1>1, <1>3, ResolvedTypes DEF OpeningRow

LEMMA ReleaseRests ==
  ASSUME TypeOK, NEW p \in Procs, Release(p)
  PROVE  /\ \A q \in Procs : Rests(q)
         /\ pc'[p] = "idle"
BY DEF TypeOK, Release, Rests

LEMMA AppendedRow ==
  ASSUME TypeOK, NEW row \in Row, txs' = Append(txs, row)
  PROVE  /\ DOMAIN txs \subseteq DOMAIN txs'
         /\ \A i \in DOMAIN txs : txs'[i] = txs[i]
         /\ \A i \in DOMAIN txs' \ DOMAIN txs : i = Len(txs) + 1 /\ txs'[i] = row
<1>1. txs \in Seq(Row) /\ Len(txs) \in Nat /\ DOMAIN txs = 1..Len(txs)
  BY DEF TypeOK
<1>2. /\ Len(txs') = Len(txs) + 1 /\ txs' \in Seq(Row)
      /\ \A i \in 1..Len(txs) : txs'[i] = txs[i]
      /\ txs'[Len(txs) + 1] = row
  BY <1>1, AppendProperties
<1>3. DOMAIN txs' = 1..(Len(txs) + 1)
  BY <1>2
<1>4. QED BY <1>1, <1>2, <1>3

\* What a commit does to the transactions: a new row with the identity of its
\* process, or the settlement of the row its worker has claimed, or nothing.
LEMMA CommittedRow ==
  ASSUME TypeOK, HistoryInvariant, NEW p \in Procs, Commit(p)
  PROVE  \/ /\ p \in Sessions \cup Consumers /\ InFlight(p)
            /\ txs' = Append(txs, plan[p].row) /\ plan[p].row \in Row
         \/ /\ p \in Workers
            /\ job[p].tx \in DOMAIN txs /\ txs[job[p].tx].status = "PENDING_REFERENCE"
            /\ Settles(txs[job[p].tx], plan[p].row)
            /\ txs' = [txs EXCEPT ![job[p].tx] = plan[p].row]
         \/ txs' = txs
<1>1. pc[p] = "return" /\ plan[p].row \in Row
  BY DEF Commit, TypeOK, Plan
<1>2. /\ plan[p].write = "insert" => txs' = Append(txs, plan[p].row)
      /\ plan[p].write = "update" => txs' = [txs EXCEPT ![job[p].tx] = plan[p].row]
      /\ plan[p].write = "none" => txs' = txs
  BY DEF Commit, Apply
<1>3. CASE p \in Workers
  <2>1. ClaimInOrder(p)
    BY <1>3, InvariantByProcess DEF HistoryInvariant
  <2>2. QED BY <1>1, <1>2, <1>3, <2>1 DEF ClaimInOrder
<1>4. CASE p \notin Workers
  <2>1. RequestInOrder(p) /\ p \in Sessions \cup Consumers
    BY <1>4, InvariantByProcess DEF HistoryInvariant, Procs
  <2>2. QED BY <1>1, <1>2, <2>1 DEF RequestInOrder, InFlight
<1>5. QED BY <1>3, <1>4

\* What is about to be inserted was let through.
LEMMA InsertsAreValid ==
  ASSUME TypeOK, HistoryInvariant, NEW p \in Sessions \cup Consumers, InFlight(p)
  PROVE  /\ plan[p].write = "insert"
         /\ plan[p].row.req = job[p].req /\ job[p].req \in Requests
         /\ Valid(plan[p].row.req) /\ Complete(plan[p].row.req)
BY InvariantByProcess DEF HistoryInvariant, RequestInOrder, LetThrough, InFlight

LEMMA CommitKeepsHistory ==
  ASSUME TypeOK, HistoryInvariant, NEW p \in Procs, Commit(p)
  PROVE  HistoryInvariant'
<1>1. (\A q \in Procs : Rests(q)) /\ pc'[p] = "idle"
  BY ReleaseRests DEF Commit
<1>2. CASE /\ p \in Sessions \cup Consumers /\ InFlight(p)
           /\ txs' = Append(txs, plan[p].row) /\ plan[p].row \in Row
  <2>1. /\ DOMAIN txs \subseteq DOMAIN txs'
        /\ \A i \in DOMAIN txs : txs'[i] = txs[i]
        /\ \A i \in DOMAIN txs' \ DOMAIN txs : i = Len(txs) + 1 /\ txs'[i] = plan[p].row
    BY <1>2, AppendedRow
  <2>2. /\ \A j \in DOMAIN txs : ~ SameIdentity(txs[j], plan[p].row)
        /\ \A q \in (Sessions \cup Consumers) \ {p} :
             InFlight(q) => ~ SameIdentity(plan[q].row, plan[p].row)
    BY <1>2 DEF HistoryInvariant, InsertsAreNew
  <2>3. \A q \in Workers : pc'[q] # "idle" => txs'[job[q].tx] = txs[job[q].tx]
    BY <1>1, <2>1 DEF HistoryInvariant, RowsAreClaimed, Rests, Procs
  <2>4. \A i, j \in DOMAIN txs' \ DOMAIN txs : i = j
    BY <2>1
  <2>5. \A i \in DOMAIN txs' \ DOMAIN txs :
          /\ \A j \in DOMAIN txs :
               txs[j].req.key # Nil \/ txs'[i].req.key # Nil => ~ SameIdentity(txs[j], txs'[i])
          /\ \A q \in Sessions \cup Consumers :
               pc'[q] # "idle" /\ InFlight(q) => ~ SameIdentity(plan[q].row, txs'[i])
          /\ txs'[i].req.kind # "OPENING" => Valid(txs'[i].req) /\ Complete(txs'[i].req)
    BY <1>1, <1>2, <2>1, <2>2, InsertsAreValid
  <2>6. \A i \in DOMAIN txs : txs'[i].req = txs[i].req
    BY <2>1
  <2>7. QED BY <1>1, <2>1, <2>3, <2>4, <2>5, <2>6, EndKeepsHistory
<1>3. CASE /\ p \in Workers
           /\ job[p].tx \in DOMAIN txs /\ txs[job[p].tx].status = "PENDING_REFERENCE"
           /\ Settles(txs[job[p].tx], plan[p].row)
           /\ txs' = [txs EXCEPT ![job[p].tx] = plan[p].row]
  <2>1. DOMAIN txs' = DOMAIN txs
        /\ \A i \in DOMAIN txs : txs'[i] = (IF i = job[p].tx THEN plan[p].row ELSE txs[i])
    BY <1>3
  <2>2. \A i \in DOMAIN txs : txs'[i].req = txs[i].req
    BY <1>3, <2>1 DEF Settles
  <2>3. \A q \in Workers : pc'[q] # "idle" => txs'[job[q].tx] = txs[job[q].tx]
    <3> SUFFICES ASSUME NEW q \in Workers, pc'[q] # "idle"
                 PROVE  txs'[job[q].tx] = txs[job[q].tx]
      OBVIOUS
    <3>1. q # p /\ pc[q] # "idle" /\ pc[p] # "idle"
      BY <1>1 DEF Rests, Procs, Commit
    <3>2. job[q].tx # job[p].tx /\ job[q].tx \in DOMAIN txs
      BY <1>3, <3>1 DEF HistoryInvariant, RowsAreClaimed
    <3>3. QED BY <2>1, <3>2
  <2>4. DOMAIN txs' \ DOMAIN txs = {}
    BY <2>1
  <2>5. QED BY <1>1, <2>1, <2>2, <2>3, <2>4, EndKeepsHistory
<1>4. CASE txs' = txs
  BY <1>1, <1>4, EndKeepsHistory
<1>5. QED BY <1>2, <1>3, <1>4, CommittedRow

LEMMA AbortKeepsHistory ==
  ASSUME TypeOK, HistoryInvariant, NEW p \in Procs, Rollback(p) \/ Crash(p)
  PROVE  HistoryInvariant'
<1>1. txs' = txs /\ Release(p)
  BY DEF Rollback, Crash, tables
<1>2. \A q \in Procs : Rests(q)
  BY <1>1, ReleaseRests
<1>3. QED BY <1>1, <1>2, EndKeepsHistory

\* An OPENING row has no identity to share.
LEMMA OpeningKeepsHistory ==
  ASSUME TypeOK, HistoryInvariant, NEW w \in Wallets, NEW b \in OpeningBalances, OpenWallet(w, b)
  PROVE  HistoryInvariant'
<1>1. \A q \in Procs : Rests(q)
  BY DEF OpenWallet, work, Rests
<1>2. CASE txs' = txs
  BY <1>1, <1>2, EndKeepsHistory
<1>3. CASE b # 0
  <2> DEFINE row == OpeningRow(w, b)
  <2>1. txs' = Append(txs, row)
    BY <1>3 DEF OpenWallet, OpeningRow
  <2>2. /\ row.req = OpeningRequest(w, b) /\ row.req.key = Nil /\ row.req.ext = Nil
        /\ row.req.kind = "OPENING"
    BY DEF OpeningRow, MarkProcessed, NewExternal, BlankRow, OpeningRequest
  <2>3. row \in Row
    BY <1>3, OpeningRowType
  <2> HIDE DEF row
  <2>4. /\ DOMAIN txs \subseteq DOMAIN txs'
        /\ \A i \in DOMAIN txs : txs'[i] = txs[i]
        /\ \A i \in DOMAIN txs' \ DOMAIN txs : i = Len(txs) + 1 /\ txs'[i] = row
    BY <2>1, <2>3, AppendedRow
  <2>5. \A j \in DOMAIN txs : txs[j].req.key # Nil => ~ SameIdentity(txs[j], row)
    <3> SUFFICES ASSUME NEW j \in DOMAIN txs, txs[j].req.key # Nil
                 PROVE  ~ SameIdentity(txs[j], row)
      OBVIOUS
    <3>0. txs[j] \in Row
      BY DEF TypeOK
    <3>1. txs[j].req \in StoredRequests
      BY <3>0 DEF Row
    <3>2. txs[j].req.ext # Nil
      BY <3>1, Identities DEF HistoryInvariant, StoredRowsAreValid
    <3>3. QED BY <2>2, <3>2 DEF SameIdentity
  <2>6. \A q \in Sessions \cup Consumers : InFlight(q) => ~ SameIdentity(plan[q].row, row)
    <3> SUFFICES ASSUME NEW q \in Sessions \cup Consumers, InFlight(q)
                 PROVE  ~ SameIdentity(plan[q].row, row)
      OBVIOUS
    <3>1. plan[q].row.req \in Requests /\ Valid(plan[q].row.req)
      BY InsertsAreValid
    <3>2. QED BY <2>2, <3>1, Identities DEF SameIdentity
  <2>7. \A q \in Workers : pc'[q] # "idle" => txs'[job[q].tx] = txs[job[q].tx]
    BY <1>1, <2>4 DEF HistoryInvariant, RowsAreClaimed, Rests, Procs
  <2>8. \A i, j \in DOMAIN txs' \ DOMAIN txs : i = j
    BY <2>4
  <2>9. \A i \in DOMAIN txs' \ DOMAIN txs :
          /\ \A j \in DOMAIN txs :
               txs[j].req.key # Nil \/ txs'[i].req.key # Nil => ~ SameIdentity(txs[j], txs'[i])
          /\ \A q \in Sessions \cup Consumers :
               pc'[q] # "idle" /\ InFlight(q) => ~ SameIdentity(plan[q].row, txs'[i])
          /\ txs'[i].req.kind # "OPENING" => Valid(txs'[i].req) /\ Complete(txs'[i].req)
    BY <2>2, <2>4, <2>5, <2>6
  <2>10. \A i \in DOMAIN txs : txs'[i].req = txs[i].req
    BY <2>4
  <2>11. QED BY <1>1, <2>4, <2>7, <2>8, <2>9, <2>10, EndKeepsHistory
<1>4. CASE b = 0
  BY <1>2, <1>4 DEF OpenWallet
<1>5. QED BY <1>3, <1>4

-----------------------------------------------------------------------------
(* The theorems.                                                           *)

LEMMA HistoryInit == Init => HistoryInvariant
<1> SUFFICES ASSUME Init PROVE HistoryInvariant
  OBVIOUS
<1>1. /\ \A p \in Procs : pc[p] = "idle" /\ job[p] = NoJob /\ plan[p] = NoPlan
      /\ DOMAIN txs = {}
  BY DEF Init
<1>2. NoJob.req \in Requests /\ NoJob.tx = 0 /\ NoPlan.write = "none"
  BY AnyRequestType DEF NoJob, NoPlan
<1>3. RowsAreClaimed /\ InsertsAreNew /\ OneOperationPerIdentity /\ StoredRowsAreValid
  BY <1>1 DEF RowsAreClaimed, InsertsAreNew, InFlight, OneOperationPerIdentity, Procs,
              StoredRowsAreValid
<1>4. RequestsAreCarried
  BY <1>1, <1>2 DEF RequestsAreCarried, LetThrough, Deciding, Procs
<1>5. QED BY <1>3, <1>4 DEF HistoryInvariant

LEMMA HistoryNext == TypeOK /\ HistoryInvariant /\ [Next]_vars => HistoryInvariant'
<1> SUFFICES ASSUME TypeOK, HistoryInvariant, [Next]_vars PROVE HistoryInvariant'
  OBVIOUS
<1>1. CASE UNCHANGED vars
  <2>1. txs' = txs /\ \A q \in Procs : Rests(q)
    BY <1>1 DEF vars, Rests
  <2>2. QED BY <2>1, EndKeepsHistory
<1>2. ASSUME NEW w \in Wallets, NEW b \in OpeningBalances, OpenWallet(w, b) PROVE HistoryInvariant'
  BY <1>2, OpeningKeepsHistory
<1>3. CASE \/ \E p \in Sessions, r \in Requests : Submit(p, r)
           \/ \E p \in Consumers, m \in Messages : Deliver(p, m)
           \/ \E p \in Workers, i \in DOMAIN txs : Claim(p, i)
  BY <1>3, StartKeepsHistory
<1>4. ASSUME NEW p \in Procs, Step(p) PROVE HistoryInvariant'
  <2>1. CASE FindInbox(p) \/ RecordInbox(p)
    <3>1. pc[p] \in Undeciding
      BY <2>1 DEF FindInbox, RecordInbox, Undeciding
    <3>2. QED BY <2>1, <3>1, InboxDecides, StatementsLetThrough, DecisionsKeepHistory
  <2>2. CASE LockWallet(p)
    <3>1. pc[p] \in Undeciding
      BY <2>2 DEF LockWallet, Undeciding
    <3>2. QED BY <2>2, <3>1, LockDecides, StatementsLetThrough, DecisionsKeepHistory
  <2>3. CASE FindByIdempotencyKey(p) \/ FindByExternalID(p)
    <3>1. pc[p] \in Undeciding
      BY <2>3 DEF FindByIdempotencyKey, FindByExternalID, Undeciding
    <3>2. QED BY <2>3, <3>1, ReplayDecides, DirectDecides, StatementsLetThrough, DecisionsKeepHistory
  <2>4. CASE FindReference(p) \/ CheckReversed(p)
    <3>1. pc[p] \in Undeciding
      BY <2>4 DEF FindReference, CheckReversed, Undeciding
    <3>2. QED BY <2>4, <3>1, ReversalDecides, StatementsLetThrough, DecisionsKeepHistory
  <2>5. CASE Persist(p)
    BY <2>5, PersistKeepsHistory
  <2>6. CASE Commit(p)
    BY <2>6, CommitKeepsHistory
  <2>7. CASE Rollback(p)
    BY <2>7, AbortKeepsHistory
  <2>8. QED BY <1>4, <2>1, <2>2, <2>3, <2>4, <2>5, <2>6, <2>7 DEF Step
<1>5. ASSUME NEW p \in Procs, Crash(p) PROVE HistoryInvariant'
  BY <1>5, AbortKeepsHistory
<1>6. ASSUME NEW i \in DOMAIN txs, BecomesDue(i) PROVE HistoryInvariant'
  <2>1. txs' = txs /\ \A q \in Procs : Rests(q)
    BY <1>6 DEF BecomesDue, work, Rests
  <2>2. QED BY <2>1, EndKeepsHistory
<1>7. QED BY <1>1, <1>2, <1>3, <1>4, <1>5, <1>6 DEF Next

\* Only a commit and an opening touch the transactions.
LEMMA OtherStepsKeepRows ==
  ASSUME [Next]_vars,
         \A p \in Procs : ~ Commit(p),
         \A w \in Wallets, b \in OpeningBalances : ~ OpenWallet(w, b)
  PROVE  txs' = txs
<1>1. CASE \E i \in DOMAIN txs : BecomesDue(i)
  BY <1>1 DEF BecomesDue
<1>2. CASE \E p \in Workers, i \in DOMAIN txs : Claim(p, i)
  BY <1>2 DEF Claim, Start, tables
<1>3. CASE ~ \E i \in DOMAIN txs : BecomesDue(i)
  BY <1>2, <1>3 DEF Next, Step, vars, tables, Submit, Deliver, Start, FindInbox, RecordInbox,
       LockWallet, FindByIdempotencyKey, FindByExternalID, FindReference, CheckReversed, Persist,
       Rollback, Crash
<1>4. QED BY <1>1, <1>3

LEMMA RowsSettle ==
  ASSUME TypeOK, HistoryInvariant, [Next]_vars
  PROVE  [\A i \in DOMAIN txs :
            /\ i \in DOMAIN txs'
            /\ txs'[i] # txs[i] => txs[i].status = "PENDING_REFERENCE" /\ Settles(txs[i], txs'[i])]_txs
<1>1. ASSUME NEW p \in Procs, Commit(p), NEW i \in DOMAIN txs
      PROVE  /\ i \in DOMAIN txs'
             /\ txs'[i] # txs[i] => txs[i].status = "PENDING_REFERENCE" /\ Settles(txs[i], txs'[i])
  <2>1. CASE txs' = Append(txs, plan[p].row) /\ plan[p].row \in Row
    BY <2>1, AppendedRow
  <2>2. CASE /\ job[p].tx \in DOMAIN txs /\ txs[job[p].tx].status = "PENDING_REFERENCE"
             /\ Settles(txs[job[p].tx], plan[p].row)
             /\ txs' = [txs EXCEPT ![job[p].tx] = plan[p].row]
    <3>1. CASE i = job[p].tx
      BY <2>2, <3>1
    <3>2. CASE i # job[p].tx
      BY <2>2, <3>2
    <3>3. QED BY <3>1, <3>2
  <2>3. QED BY <1>1, <2>1, <2>2, CommittedRow
<1>2. ASSUME NEW w \in Wallets, NEW b \in OpeningBalances, OpenWallet(w, b), NEW i \in DOMAIN txs
      PROVE  i \in DOMAIN txs' /\ txs'[i] = txs[i]
  <2>1. CASE b = 0
    BY <1>2, <2>1 DEF OpenWallet
  <2>2. CASE b # 0
    <3>1. txs' = Append(txs, OpeningRow(w, b))
      BY <1>2, <2>2 DEF OpenWallet, OpeningRow
    <3>2. OpeningRow(w, b) \in Row
      BY <2>2, OpeningRowType
    <3>3. QED BY <3>1, <3>2, AppendedRow
  <2>3. QED BY <2>1, <2>2
<1>3. QED BY <1>1, <1>2, OtherStepsKeepRows

\* The invariant of the history: which rows the units of work carry, and what
\* keeps those that are past Persist apart.
THEOREM HistoryInvariantCorrect == Spec => []HistoryInvariant
<1>1. Init => HistoryInvariant
  BY HistoryInit
<1>2. TypeOK /\ HistoryInvariant /\ [Next]_vars => HistoryInvariant'
  BY HistoryNext
<1>3. QED BY <1>1, <1>2, TypeCorrect, PTL DEF Spec

\* An idempotency key and an external id name one operation for ever, however
\* many calls, deliveries and workers carry it at once (findReplay and the
\* unique indexes of wager_transactions).
THEOREM IdentityCorrect == Spec => []OneOperationPerIdentity
<1>1. HistoryInvariant => OneOperationPerIdentity
  BY DEF HistoryInvariant
<1>2. QED BY <1>1, HistoryInvariantCorrect, PTL

\* A settled operation never changes and a waiting one only waits or settles:
\* no two workers, and no worker and retry, settle it twice (resolve_pending.go).
THEOREM SettledCorrect == Spec => SettledForGood
<1>1. TypeOK /\ HistoryInvariant /\ [Next]_vars =>
        [\A i \in DOMAIN txs :
           /\ i \in DOMAIN txs'
           /\ txs'[i] # txs[i] => txs[i].status = "PENDING_REFERENCE" /\ Settles(txs[i], txs'[i])]_txs
  BY RowsSettle
<1>2. QED BY <1>1, HistoryInvariantCorrect, TypeCorrect, PTL DEF Spec, SettledForGood
=============================================================================

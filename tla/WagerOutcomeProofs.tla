------------------------- MODULE WagerOutcomeProofs -------------------------
(***************************************************************************)
(* What providers get, for any requests, wallets, processes and messages:  *)
(* one outcome per request, effects no message is missing for, and one     *)
(* reversal of an operation that gives back what it moved.                 *)
(***************************************************************************)
EXTENDS WagerEngineProofs, FiniteSetTheorems

-----------------------------------------------------------------------------
(* Settled rows.                                                           *)

\* A row keeps its place and its request, and once settled everything else.
LEMMA SettledRowsStay ==
  ASSUME TypeOK, HistoryInvariant, [Next]_vars, NEW i \in DOMAIN txs
  PROVE  /\ i \in DOMAIN txs'
         /\ txs[i].status # "PENDING_REFERENCE" => txs'[i] = txs[i]
         /\ txs'[i].req = txs[i].req
<1>1. CASE txs' = txs
  BY <1>1
<1>2. CASE txs' # txs
  BY <1>2, RowsSettle DEF Settles
<1>3. QED BY <1>1, <1>2

-----------------------------------------------------------------------------
(* Answers.                                                                *)

\* AnswersAreStored, seen from one process.
AnswersInOrder(p) ==
  /\ pc[p] = "persist" => plan[p].write # "none"
  /\ Replays(p) => plan[p].row.req = job[p].req /\ \E i \in DOMAIN txs : txs[i] = plan[p].row

\* Stored answers stay: a step has to be looked at for the processes it moves
\* and for the answers it adds.
LEMMA AnswersStep ==
  ASSUME TypeOK, HistoryInvariant, AnswersAreStored, [Next]_vars,
         \A q \in Procs : Rests(q) \/ AnswersInOrder(q)',
         \A r \in Requests : \A a \in answers'[r] :
           \/ a \in answers[r]
           \/ \E i \in DOMAIN txs' : txs'[i].req = r /\ IsTerminal(txs'[i].status) /\ a = AnswerOf(txs'[i])
  PROVE  AnswersAreStored'
<1>1. \A q \in Procs : AnswersInOrder(q)'
  <2> SUFFICES ASSUME NEW q \in Procs, Rests(q) PROVE AnswersInOrder(q)'
    OBVIOUS
  <2>1. CASE pc'[q] = "idle"
    BY <2>1 DEF AnswersInOrder, Replays
  <2>2. CASE pc'[q] = pc[q] /\ job'[q] = job[q] /\ plan'[q] = plan[q]
    <3>1. AnswersInOrder(q)
      BY DEF AnswersAreStored, AnswersInOrder
    <3>2. ASSUME Replays(q)
          PROVE  \E i \in DOMAIN txs' : txs'[i] = plan[q].row
      <4>1. PICK i \in DOMAIN txs : txs[i] = plan[q].row
        BY <3>1, <3>2 DEF AnswersInOrder
      <4>2. txs[i].status # "PENDING_REFERENCE"
        BY <3>2, <4>1 DEF Replays, IsTerminal
      <4>3. QED BY <4>1, <4>2, SettledRowsStay
    <3>3. QED BY <2>2, <3>1, <3>2 DEF AnswersInOrder, Replays
  <2>3. QED BY <2>1, <2>2 DEF Rests
<1>2. ASSUME NEW r \in Requests, NEW a \in answers'[r]
      PROVE  \E i \in DOMAIN txs' : txs'[i].req = r /\ IsTerminal(txs'[i].status) /\ a = AnswerOf(txs'[i])
  <2>1. CASE a \in answers[r]
    <3>1. PICK i \in DOMAIN txs : txs[i].req = r /\ IsTerminal(txs[i].status) /\ a = AnswerOf(txs[i])
      BY <2>1 DEF AnswersAreStored
    <3>2. txs[i].status # "PENDING_REFERENCE"
      BY <3>1 DEF IsTerminal
    <3>3. QED BY <3>1, <3>2, SettledRowsStay
  <2>2. QED BY <1>2, <2>1
<1>3. QED BY <1>1, <1>2 DEF AnswersAreStored, AnswersInOrder, Replays

\* A decision plans a write, or ends with no outcome or with a stored one.
LEMMA DecisionsAnswer ==
  ASSUME TypeOK, HistoryInvariant, NEW p \in Procs, Decides(p)
  PROVE  \A q \in Procs : Rests(q) \/ AnswersInOrder(q)'
<1>1. \A q \in Procs \ {p} : Rests(q)
  BY DEF Decides, Rests
<1>2. CASE pc'[p] = "persist" /\ Admissible(p, plan'[p])
  BY <1>1, <1>2 DEF AnswersInOrder, Replays, Admissible
<1>3. CASE /\ pc'[p] = "return" /\ plan'[p].write = "none"
           /\ \/ plan'[p].row.status = "PENDING"
              \/ plan'[p].row.req = job[p].req /\ \E i \in DOMAIN txs : txs[i] = plan'[p].row
  BY <1>1, <1>3 DEF AnswersInOrder, Replays, Decides, IsTerminal
<1>4. CASE pc'[p] \in Undeciding
  BY <1>1, <1>4 DEF AnswersInOrder, Replays, Undeciding
<1>5. QED BY <1>2, <1>3, <1>4 DEF Decides, Undeciding

\* The start of a unit of work.
LEMMA StartFrame ==
  ASSUME TypeOK, NEW p \in Procs, NEW newJob, NEW newPlan, NEW first,
         Start(p, newJob, newPlan, first)
  PROVE  /\ \A q \in Procs \ {p} : pc'[q] = pc[q] /\ job'[q] = job[q] /\ plan'[q] = plan[q]
         /\ pc[p] = "idle" /\ pc'[p] = first /\ job'[p] = newJob /\ plan'[p] = newPlan
         /\ UNCHANGED <<txs, ledger, inbox, holder, answers>>
BY DEF Start, TypeOK, tables

LEMMA StartAnswers ==
  ASSUME TypeOK, NEW p \in Procs, NEW newJob, NEW newPlan, NEW first \in {"lock", "findInbox"},
         Start(p, newJob, newPlan, first)
  PROVE  \A q \in Procs : Rests(q) \/ AnswersInOrder(q)'
BY StartFrame DEF Rests, AnswersInOrder, Replays

LEMMA PersistAnswers ==
  ASSUME TypeOK, AnswersAreStored, NEW p \in Procs, Persist(p)
  PROVE  \A q \in Procs : Rests(q) \/ AnswersInOrder(q)'
<1>1. /\ pc[p] = "persist" /\ job' = job
      /\ Finish(p, Failed("DB_CONFLICT")) \/ (Goto(p, "return") /\ plan' = plan)
  BY DEF Persist
<1>2. /\ \A q \in Procs \ {p} : Rests(q)
      /\ pc'[p] = "return"
      /\ plan'[p] = plan[p] \/ plan'[p].row.status = "PENDING"
  BY <1>1, HistoryOutcomes, PlainOutcomes DEF Rests
<1>3. plan[p].write # "none"
  BY <1>1 DEF AnswersAreStored
<1>4. QED BY <1>2, <1>3 DEF AnswersInOrder, Replays, IsTerminal

\* The answer of a commit is the row it stores or the stored row it replays.
LEMMA CommitAnswers ==
  ASSUME TypeOK, HistoryInvariant, AnswersAreStored, NEW p \in Procs, Commit(p),
         NEW r \in Requests, NEW a \in answers'[r], a \notin answers[r]
  PROVE  \E i \in DOMAIN txs' : txs'[i].req = r /\ IsTerminal(txs'[i].status) /\ a = AnswerOf(txs'[i])
<1> DEFINE row == plan[p].row
<1>1. /\ p \in Sessions /\ IsTerminal(row.status) /\ pc[p] = "return"
      /\ r = job[p].req /\ a = AnswerOf(row)
  BY DEF Commit, TypeOK
<1>2. RequestInOrder(p) /\ row \in Row
  BY <1>1, InvariantByProcess DEF HistoryInvariant, TypeOK, Plan
<1>3. CASE plan[p].write = "insert"
  <2>1. txs' = Append(txs, row)
    BY <1>3 DEF Commit, Apply
  <2>2. row = txs'[Len(txs) + 1] /\ Len(txs) + 1 \in DOMAIN txs'
    BY <1>2, <2>1 DEF TypeOK
  <2>3. QED BY <1>1, <1>2, <1>3, <2>2 DEF RequestInOrder
<1>4. CASE plan[p].write = "none"
  <2>1. txs' = txs
    BY <1>4 DEF Commit, Apply
  <2>2. QED BY <1>1, <1>4, <2>1 DEF AnswersAreStored, Replays
<1>5. QED BY <1>2, <1>3, <1>4 DEF RequestInOrder

\* The statements before Persist.
LEMMA StepsDecide ==
  ASSUME TypeOK, HistoryInvariant, NEW p \in Procs, Step(p)
  PROVE  \/ Decides(p) /\ UNCHANGED <<tables, answers>>
         \/ Persist(p) \/ Commit(p) \/ Rollback(p)
<1>1. CASE FindInbox(p) \/ RecordInbox(p)
  BY <1>1, InboxDecides DEF FindInbox, RecordInbox
<1>2. CASE LockWallet(p)
  BY <1>2, LockDecides DEF LockWallet
<1>3. CASE FindByIdempotencyKey(p)
  BY <1>3, ReplayDecides DEF FindByIdempotencyKey
<1>4. CASE FindByExternalID(p)
  BY <1>4, DirectDecides DEF FindByExternalID
<1>5. CASE FindReference(p) \/ CheckReversed(p)
  BY <1>5, ReversalDecides DEF FindReference, CheckReversed
<1>6. QED BY <1>1, <1>2, <1>3, <1>4, <1>5 DEF Step

LEMMA AnswersNext ==
  ASSUME TypeOK, HistoryInvariant, AnswersAreStored, [Next]_vars
  PROVE  AnswersAreStored'
<1>1. CASE UNCHANGED vars
  BY <1>1, AnswersStep DEF vars, Rests
<1>2. ASSUME NEW w \in Wallets, NEW b \in OpeningBalances, OpenWallet(w, b) PROVE AnswersAreStored'
  BY <1>2, AnswersStep DEF OpenWallet, work, Rests
<1>3. ASSUME NEW p \in Procs, NEW newJob, NEW newPlan, NEW first \in {"lock", "findInbox"},
             Start(p, newJob, newPlan, first)
      PROVE  AnswersAreStored'
  BY <1>3, StartFrame, StartAnswers, AnswersStep
<1>4. CASE \/ \E p \in Sessions, r \in Requests : Submit(p, r)
           \/ \E p \in Consumers, m \in Messages : Deliver(p, m)
           \/ \E p \in Workers, i \in DOMAIN txs : Claim(p, i)
  BY <1>3, <1>4 DEF Submit, Deliver, Claim, Procs
<1>5. ASSUME NEW p \in Procs, Commit(p) PROVE AnswersAreStored'
  BY <1>5, ReleaseRests, CommitAnswers, AnswersStep DEF Commit
<1>6. ASSUME NEW p \in Procs, Rollback(p) \/ Crash(p) PROVE AnswersAreStored'
  BY <1>6, ReleaseRests, AnswersStep DEF Rollback, Crash
<1>7. ASSUME NEW p \in Procs, Step(p) PROVE AnswersAreStored'
  <2>1. CASE Decides(p) /\ UNCHANGED <<tables, answers>>
    BY <2>1, DecisionsAnswer, AnswersStep
  <2>2. CASE Persist(p)
    BY <2>2, PersistAnswers, AnswersStep DEF Persist
  <2>3. QED BY <1>5, <1>6, <1>7, <2>1, <2>2, StepsDecide
<1>8. ASSUME NEW i \in DOMAIN txs, BecomesDue(i) PROVE AnswersAreStored'
  BY <1>8, AnswersStep DEF BecomesDue, work, Rests
<1>9. QED BY <1>1, <1>2, <1>4, <1>6, <1>7, <1>8 DEF Next

LEMMA OneAnswer == HistoryInvariant /\ AnswersAreStored => OneOutcomePerRequest
<1> SUFFICES ASSUME HistoryInvariant, AnswersAreStored, NEW r \in Requests, NEW a \in answers[r]
             PROVE  /\ \E i \in DOMAIN txs : txs[i].req = r /\ a = AnswerOf(txs[i])
                    /\ answers[r] = {a}
  BY DEF OneOutcomePerRequest
<1>1. PICK i \in DOMAIN txs : txs[i].req = r /\ a = AnswerOf(txs[i])
  BY DEF AnswersAreStored
<1> r.key # Nil
  <2>1. r.kind # "OPENING"
    BY Identities
  <2>2. QED BY <1>1, <2>1, Identities DEF HistoryInvariant, StoredRowsAreValid
<1>2. ASSUME NEW b \in answers[r] PROVE b = a
  <2>1. PICK j \in DOMAIN txs : txs[j].req = r /\ b = AnswerOf(txs[j])
    BY DEF AnswersAreStored
  <2>2. i = j
    BY <1>1, <2>1 DEF HistoryInvariant, OneOperationPerIdentity
  <2>3. QED BY <1>1, <2>1, <2>2
<1>3. QED BY <1>1, <1>2

-----------------------------------------------------------------------------
(* Messages.                                                               *)

\* A step of p that leaves p's record of its message in order, and commits or
\* takes over no message another process has recorded.
LEMMA RecordsStep ==
  ASSUME InboxDiscipline, NEW p \in Procs,
         \A q \in Procs \ {p} : pc'[q] = pc[q] /\ job'[q] = job[q] /\ plan'[q] = plan[q],
         RecordsInOrder(p)',
         \A q \in Procs \ {p} : job[q].recorded =>
           \A seen \in inbox' : seen \in inbox \/ seen.id # job[q].msg,
         job'[p].recorded => \A q \in Procs \ {p} : job[q].recorded => job[q].msg # job'[p].msg
  PROVE  InboxDiscipline'
<1>1. ASSUME NEW q \in Procs \ {p} PROVE RecordsInOrder(q)'
  BY DEF InboxDiscipline, RecordsInOrder, Unseen
<1>2. ASSUME NEW q \in Procs, NEW o \in Procs,
             job'[q].recorded, job'[o].recorded, job'[q].msg = job'[o].msg
      PROVE  q = o
  BY <1>2 DEF InboxDiscipline
<1>3. QED BY <1>1, <1>2 DEF InboxDiscipline

\* A message is recorded once: at its INSERT no other process has it.
LEMMA InboxRecords ==
  ASSUME TypeOK, InboxDiscipline, NEW p \in Procs, FindInbox(p) \/ RecordInbox(p)
  PROVE  InboxDiscipline'
<1>1. /\ pc[p] \in {"findInbox", "recordInbox"} /\ inbox' = inbox
      /\ \A q \in Procs \ {p} : job'[q] = job[q]
      /\ job'[p].msg = job[p].msg
  BY DEF FindInbox, RecordInbox, TypeOK, Job, tables
<1>2. p \in Consumers /\ ~ job[p].recorded /\ plan[p].write = "none"
  BY <1>1 DEF InboxDiscipline, RecordsInOrder
<1>3. CASE job' = job
  <2>1. /\ pc'[p] \in {"recordInbox", "return"} /\ plan'[p].write = "none"
        /\ \A q \in Procs \ {p} : pc'[q] = pc[q] /\ plan'[q] = plan[q]
    <3>1. CASE FindInbox(p)
      BY <1>2, <3>1, HistoryOutcomes, PlainOutcomes DEF FindInbox, SeenBefore
    <3>2. CASE RecordInbox(p)
      <4>1. SeenBefore(p)
        <5>1. CASE job' = [job EXCEPT ![p].recorded = TRUE]
          BY <1>2, <1>3, <5>1 DEF TypeOK, Job
        <5>2. QED BY <3>2, <5>1 DEF RecordInbox
      <4>2. QED BY <4>1, HistoryOutcomes, PlainOutcomes DEF SeenBefore
    <3>3. QED BY <3>1, <3>2
  <2>2. RecordsInOrder(p)'
    BY <1>2, <1>3, <2>1 DEF RecordsInOrder, Deciding
  <2>3. QED BY <1>1, <1>2, <1>3, <2>1, <2>2, RecordsStep
<1>4. CASE job' # job
  <2>1. /\ Unseen(p) /\ job'[p].recorded /\ Goto(p, "lock") /\ plan' = plan
        /\ \A q \in Consumers \ {p} : ~ (job[q].recorded /\ job[q].msg = job[p].msg)
    BY <1>4 DEF FindInbox, RecordInbox, TypeOK, Job
  <2>2. /\ pc'[p] = "lock"
        /\ \A q \in Procs \ {p} : pc'[q] = pc[q] /\ plan'[q] = plan[q]
    BY <2>1, HistoryOutcomes
  <2>3. RecordsInOrder(p)'
    BY <1>1, <1>2, <2>1, <2>2 DEF RecordsInOrder, Unseen
  <2>4. \A q \in Procs \ {p} : job[q].recorded => job[q].msg # job'[p].msg
    BY <1>1, <2>1 DEF InboxDiscipline, RecordsInOrder
  <2>5. QED BY <1>1, <2>2, <2>3, <2>4, RecordsStep
<1>5. QED BY <1>3, <1>4

\* The statements after it have the message recorded.
LEMMA LaterStatements ==
  ASSUME TypeOK, NEW p \in Procs,
         \/ LockWallet(p) \/ FindByIdempotencyKey(p) \/ FindByExternalID(p)
         \/ FindReference(p) \/ CheckReversed(p) \/ Persist(p)
  PROVE  /\ pc[p] \in Deciding \cup {"lock"} /\ pc'[p] \in Deciding \cup {"return"}
         /\ job'[p].recorded = job[p].recorded /\ job'[p].msg = job[p].msg
         /\ inbox' = inbox
         /\ \A q \in Procs \ {p} : pc'[q] = pc[q] /\ job'[q] = job[q] /\ plan'[q] = plan[q]
<1>1. pc[p] \in Deciding \cup {"lock"} /\ inbox' = inbox
  BY DEF LockWallet, FindByIdempotencyKey, FindByExternalID, FindReference, CheckReversed, Persist,
         Deciding, tables
<1>2. /\ job'[p].recorded = job[p].recorded /\ job'[p].msg = job[p].msg
      /\ \A q \in Procs \ {p} : job'[q] = job[q]
  BY DEF LockWallet, FindByIdempotencyKey, FindByExternalID, FindReference, CheckReversed, Persist,
         TypeOK, Job
<1>3. \/ \E outcome : Finish(p, outcome) \/ Write(p, outcome)
      \/ \E next \in Deciding \cup {"return"} : Goto(p, next) /\ plan' = plan
  <2>1. CASE LockWallet(p)
    BY <2>1 DEF LockWallet, Deciding
  <2>2. CASE FindByIdempotencyKey(p)
    BY <2>2 DEF FindByIdempotencyKey, Deciding
  <2>3. CASE FindByExternalID(p)
    BY <2>3 DEF FindByExternalID, Move, Deciding
  <2>4. CASE FindReference(p)
    BY <2>4 DEF FindReference, WaitOrExpire, Deciding
  <2>5. CASE CheckReversed(p)
    BY <2>5 DEF CheckReversed, Move
  <2>6. CASE Persist(p)
    BY <2>6 DEF Persist
  <2>7. QED BY <2>1, <2>2, <2>3, <2>4, <2>5, <2>6
<1>4. QED BY <1>1, <1>2, <1>3, HistoryOutcomes DEF Deciding

LEMMA LaterStatementsKeepRecords ==
  ASSUME TypeOK, InboxDiscipline, NEW p \in Procs,
         \/ LockWallet(p) \/ FindByIdempotencyKey(p) \/ FindByExternalID(p)
         \/ FindReference(p) \/ CheckReversed(p) \/ Persist(p)
  PROVE  InboxDiscipline'
<1>1. RecordsInOrder(p)
  BY DEF InboxDiscipline
<1>2. RecordsInOrder(p)'
  BY <1>1, LaterStatements DEF RecordsInOrder, Deciding, Unseen
<1>3. job'[p].recorded => \A q \in Procs \ {p} : job[q].recorded => job[q].msg # job'[p].msg
  BY LaterStatements DEF InboxDiscipline
<1>4. QED BY <1>2, <1>3, LaterStatements, RecordsStep

LEMMA StartKeepsRecords ==
  ASSUME TypeOK, InboxDiscipline
  PROVE  /\ \A p \in Sessions, r \in Requests : Submit(p, r) => InboxDiscipline'
         /\ \A p \in Consumers, m \in Messages : Deliver(p, m) => InboxDiscipline'
         /\ \A p \in Workers, i \in DOMAIN txs : Claim(p, i) => InboxDiscipline'
<1>1. ASSUME NEW p \in Procs, NEW newJob, NEW newPlan, NEW first, Start(p, newJob, newPlan, first),
             ~ newJob.recorded, newPlan.write = "none",
             first = IF p \in Consumers THEN "findInbox" ELSE "lock"
      PROVE  InboxDiscipline'
  <2>1. RecordsInOrder(p)'
    BY <1>1, StartFrame DEF RecordsInOrder, Deciding
  <2>2. QED BY <1>1, <2>1, StartFrame, RecordsStep
<1>2. ASSUME NEW p \in Sessions, NEW r \in Requests, Submit(p, r) PROVE InboxDiscipline'
  <2> DEFINE newJob  == [NoJob EXCEPT !.req = r]
             newPlan == [NoPlan EXCEPT !.row = NewExternal(r)]
  <2>1. p \in Procs \ Consumers /\ ~ newJob.recorded
    BY EngineAssumption DEF Procs, NoJob
  <2>2. newPlan.write = "none" /\ Start(p, newJob, newPlan, "lock")
    BY <1>2, PlainOutcomes DEF Submit
  <2> HIDE DEF newJob, newPlan
  <2>3. QED BY <1>1, <1>2, <2>1, <2>2
<1>3. ASSUME NEW p \in Consumers, NEW m \in Messages, Deliver(p, m) PROVE InboxDiscipline'
  <2> DEFINE newJob  == [NoJob EXCEPT !.req = m.body, !.msg = m.id]
             newPlan == [NoPlan EXCEPT !.row = NewExternal(m.body)]
  <2>1. p \in Procs /\ p \in Consumers /\ ~ newJob.recorded
    BY DEF Procs, NoJob
  <2>2. newPlan.write = "none" /\ Start(p, newJob, newPlan, "findInbox")
    BY <1>3, PlainOutcomes DEF Deliver
  <2> HIDE DEF newJob, newPlan
  <2>3. QED BY <1>1, <1>3, <2>1, <2>2
<1>4. ASSUME NEW p \in Workers, NEW i \in DOMAIN txs, Claim(p, i) PROVE InboxDiscipline'
  <2> DEFINE newJob  == [NoJob EXCEPT !.req = txs[i].req, !.tx = i]
             newPlan == [NoPlan EXCEPT !.row = txs[i]]
  <2>1. p \in Procs \ Consumers /\ ~ newJob.recorded
    BY EngineAssumption DEF Procs, NoJob
  <2>2. newPlan.write = "none" /\ Start(p, newJob, newPlan, "lock")
    BY <1>4, PlainOutcomes DEF Claim
  <2> HIDE DEF newJob, newPlan
  <2>3. QED BY <1>1, <1>4, <2>1, <2>2
<1>5. QED BY <1>2, <1>3, <1>4

\* The commit of a message adds it to the inbox, where nobody has it.
LEMMA EndKeepsRecords ==
  ASSUME TypeOK, InboxDiscipline, NEW p \in Procs, Commit(p) \/ Rollback(p) \/ Crash(p)
  PROVE  InboxDiscipline'
<1>1. /\ \A q \in Procs \ {p} : pc'[q] = pc[q] /\ job'[q] = job[q] /\ plan'[q] = plan[q]
      /\ pc'[p] = "idle" /\ job'[p] = NoJob /\ plan'[p] = NoPlan
  BY DEF Commit, Rollback, Crash, Release, TypeOK
<1>2. RecordsInOrder(p)'
  BY <1>1 DEF RecordsInOrder, Deciding, NoJob, NoPlan
<1>3. \/ inbox' = inbox
      \/ /\ job[p].recorded
         /\ inbox' = inbox \cup {[id |-> job[p].msg, body |-> job[p].req]}
  BY DEF Commit, Apply, Rollback, Crash, tables
<1>4. ASSUME NEW q \in Procs \ {p}, job[q].recorded, NEW seen \in inbox', seen.id = job[q].msg
      PROVE  seen \in inbox
  BY <1>3, <1>4 DEF InboxDiscipline
<1>5. QED BY <1>1, <1>2, <1>4, RecordsStep DEF NoJob

LEMMA RecordsNext == TypeOK /\ InboxDiscipline /\ [Next]_vars => InboxDiscipline'
<1> SUFFICES ASSUME TypeOK, InboxDiscipline, [Next]_vars PROVE InboxDiscipline'
  OBVIOUS
<1>1. ASSUME UNCHANGED <<inbox, pc, job, plan>> PROVE InboxDiscipline'
  BY <1>1 DEF InboxDiscipline, RecordsInOrder, Unseen
<1>2. CASE UNCHANGED vars
  BY <1>1, <1>2 DEF vars
<1>3. CASE \/ \E w \in Wallets, b \in OpeningBalances : OpenWallet(w, b)
           \/ \E i \in DOMAIN txs : BecomesDue(i)
  BY <1>1, <1>3 DEF OpenWallet, BecomesDue, work
<1>4. CASE \/ \E p \in Sessions, r \in Requests : Submit(p, r)
           \/ \E p \in Consumers, m \in Messages : Deliver(p, m)
           \/ \E p \in Workers, i \in DOMAIN txs : Claim(p, i)
  BY <1>4, StartKeepsRecords
<1>5. ASSUME NEW p \in Procs, Step(p) PROVE InboxDiscipline'
  BY <1>5, InboxRecords, LaterStatementsKeepRecords, EndKeepsRecords DEF Step
<1>6. ASSUME NEW p \in Procs, Crash(p) PROVE InboxDiscipline'
  BY <1>6, EndKeepsRecords
<1>7. QED BY <1>2, <1>3, <1>4, <1>5, <1>6 DEF Next

\* An operation that is new was inserted by a commit or is an OPENING.
LEMMA NewRows ==
  ASSUME TypeOK, HistoryInvariant, [Next]_vars, NEW i \in DOMAIN txs' \ DOMAIN txs
  PROVE  \/ \E p \in Procs : /\ Commit(p) /\ p \notin Workers /\ plan[p].write = "insert"
                             /\ txs'[i] = plan[p].row /\ plan[p].row.req = job[p].req
         \/ \E w \in Wallets, b \in OpeningBalances : OpenWallet(w, b) /\ txs'[i] = OpeningRow(w, b)
<1>1. CASE \E p \in Procs : Commit(p)
  <2>1. PICK p \in Procs : Commit(p)
    BY <1>1
  <2>2. CASE plan[p].write = "insert" /\ p \notin Workers
    <3>1. plan[p].row \in Row /\ txs' = Append(txs, plan[p].row)
      BY <2>1, <2>2 DEF TypeOK, Plan, Commit, Apply
    <3>2. txs'[i] = plan[p].row
      BY <3>1, AppendedRow
    <3>3. RequestInOrder(p)
      BY <2>2, InvariantByProcess DEF HistoryInvariant, Procs
    <3>4. QED BY <2>1, <2>2, <3>2, <3>3 DEF RequestInOrder
  <2>3. CASE ~ (plan[p].write = "insert" /\ p \notin Workers)
    <3>1. pc[p] = "return" /\ (p \in Workers => plan[p].write # "insert")
      BY <2>1, InvariantByProcess DEF HistoryInvariant, ClaimInOrder, Commit
    <3>2. txs' = txs \/ txs' = [txs EXCEPT ![job[p].tx] = plan[p].row]
      BY <2>1, <2>3, <3>1 DEF Commit, Apply
    <3>3. DOMAIN txs' = DOMAIN txs
      BY <3>2 DEF TypeOK
    <3>4. QED BY <3>3
  <2>4. QED BY <2>2, <2>3
<1>2. CASE \E w \in Wallets, b \in OpeningBalances : OpenWallet(w, b)
  <2>1. PICK w \in Wallets, b \in OpeningBalances : OpenWallet(w, b)
    BY <1>2
  <2>2. b # 0
    BY <2>1 DEF OpenWallet
  <2>3. txs' = Append(txs, OpeningRow(w, b)) /\ OpeningRow(w, b) \in Row
    BY <2>1, <2>2, OpeningRowType DEF OpenWallet, OpeningRow
  <2>4. QED BY <2>1, <2>3, AppendedRow
<1>3. QED BY <1>1, <1>2, OtherStepsKeepRows

LEMMA InboxGrows ==
  ASSUME [Next]_vars
  PROVE  /\ inbox \subseteq inbox'
         /\ (\A p \in Procs : ~ Commit(p)) => inbox' = inbox
<1>1. CASE \E p \in Procs : Commit(p)
  BY <1>1 DEF Commit, Apply
<1>2. CASE ~ \E p \in Procs : Commit(p)
  <2>1. CASE \E i \in DOMAIN txs : BecomesDue(i)
    BY <2>1 DEF BecomesDue
  <2>2. CASE \E p \in Workers, i \in DOMAIN txs : Claim(p, i)
    BY <2>2 DEF Claim, Start, tables
  <2>3. QED
    BY <1>2, <2>1, <2>2 DEF Next, Step, vars, tables, Submit, Deliver, Start, FindInbox, RecordInbox,
       LockWallet, FindByIdempotencyKey, FindByExternalID, FindReference, CheckReversed, Persist,
       Rollback, Crash, OpenWallet
<1>3. QED BY <1>1, <1>2

LEMMA CoverageNext ==
  ASSUME TypeOK, HistoryInvariant, InboxDiscipline, EffectsAreCoveredByInbox, [Next]_vars
  PROVE  EffectsAreCoveredByInbox'
<1>1. ASSUME NEW a \in inbox', NEW b \in inbox', a.id = b.id PROVE a = b
  <2>1. CASE inbox' = inbox
    BY <1>1, <2>1 DEF EffectsAreCoveredByInbox
  <2>2. CASE inbox' # inbox
    <3>1. PICK p \in Procs : Commit(p)
      BY <2>2, InboxGrows
    <3>2. job[p].recorded /\ inbox' = inbox \cup {[id |-> job[p].msg, body |-> job[p].req]}
      BY <2>2, <3>1 DEF Commit, Apply
    <3>3. Unseen(p)
      BY <3>2 DEF InboxDiscipline, RecordsInOrder
    <3>4. QED BY <1>1, <3>2, <3>3 DEF Unseen, EffectsAreCoveredByInbox
  <2>3. QED BY <2>1, <2>2
<1>2. ASSUME Sessions = {}, NEW i \in DOMAIN txs', txs'[i].req.kind # "OPENING"
      PROVE  \E m \in inbox' : m.body = txs'[i].req
  <2>1. CASE i \in DOMAIN txs
    BY <1>2, <2>1, SettledRowsStay, InboxGrows DEF EffectsAreCoveredByInbox
  <2>2. CASE i \notin DOMAIN txs
    <3>1. ASSUME NEW w, NEW b PROVE OpeningRow(w, b).req.kind = "OPENING"
      BY DEF OpeningRow, MarkProcessed, NewExternal, BlankRow, OpeningRequest
    <3>2. PICK p \in Procs : /\ Commit(p) /\ p \notin Workers /\ plan[p].write = "insert"
                             /\ txs'[i] = plan[p].row /\ plan[p].row.req = job[p].req
      BY <1>2, <2>2, <3>1, NewRows
    <3>3. job[p].recorded
      BY <1>2, <3>2 DEF InboxDiscipline, RecordsInOrder, Procs
    <3>4. inbox' = inbox \cup {[id |-> job[p].msg, body |-> job[p].req]}
      BY <3>2, <3>3 DEF Commit, Apply
    <3>5. [id |-> job[p].msg, body |-> job[p].req].body = txs'[i].req
      BY <3>2
    <3>6. QED BY <3>4, <3>5
  <2>3. QED BY <2>1, <2>2
<1>3. QED BY <1>1, <1>2 DEF EffectsAreCoveredByInbox

-----------------------------------------------------------------------------
(* Reversals: what is true of a reference stays true.                      *)

LEMMA AcceptedReference ==
  ASSUME NEW i, NEW r, Accepted(i, r)
  PROVE  /\ i \in DOMAIN txs /\ txs[i].status = "PROCESSED"
         /\ EligibleForReversal(r.kind, txs[i].req.kind)
         /\ txs[i].req.wallet = r.wallet /\ txs[i].req.amount = r.amount
BY DomainAssumption DEF Accepted, ReversalRejection, FailureCodes

\* The reference of a settled reversal is known.
LEMMA JustifiedReference ==
  ASSUME NEW row, Justified(row), row.status = "PROCESSED", IsReversal(row.req.kind)
  PROVE  /\ Accepted(row.refTx, row.req)
         /\ row.refTx \in DOMAIN txs /\ txs[row.refTx].status = "PROCESSED"
BY AcceptedReference DEF Justified

LEMMA JustifiedStays ==
  ASSUME TypeOK, HistoryInvariant, [Next]_vars
  PROVE  /\ \A i, r : Accepted(i, r) => Accepted(i, r)'
         /\ \A row : Justified(row) => Justified(row)'
         /\ \A row : Justified(row) /\ row.status = "PROCESSED" => DirectionOf(row)' = DirectionOf(row)
<1>1. ASSUME NEW i, NEW r, Accepted(i, r) PROVE Accepted(i, r)'
  <2>1. i \in DOMAIN txs' /\ txs'[i] = txs[i]
    BY <1>1, AcceptedReference, SettledRowsStay
  <2>2. QED BY <1>1, <2>1 DEF Accepted
<1>2. ASSUME NEW row, Justified(row) PROVE Justified(row)'
  BY <1>1, <1>2 DEF Justified
<1>3. ASSUME NEW row, Justified(row), row.status = "PROCESSED"
      PROVE  DirectionOf(row)' = DirectionOf(row)
  <2>1. CASE IsReversal(row.req.kind)
    <3>1. txs'[row.refTx] = txs[row.refTx]
      BY <1>3, <2>1, JustifiedReference, SettledRowsStay
    <3>2. QED BY <2>1, <3>1 DEF DirectionOf
  <2>2. CASE ~ IsReversal(row.req.kind)
    BY <2>2 DEF DirectionOf
  <2>3. QED BY <2>1, <2>2
<1>4. QED BY <1>1, <1>2, <1>3

-----------------------------------------------------------------------------
(* Reversals: what a process may plan.                                     *)

\* PlansAreJustified, seen from one process.
PlanInOrder(p) ==
  /\ pc[p] \in {"ref", "reversed"} => IsReversal(job[p].req.kind)
  /\ pc[p] = "reversed" => Accepted(job[p].ref, job[p].req)
  /\ OutcomeIsJustified(plan[p])

\* An outcome that writes nothing, or leaves its row waiting or refused.
LEMMA UnmovedOutcomes ==
  /\ \A outcome : outcome.write = "none" /\ outcome.direction = "NONE" => OutcomeIsJustified(outcome)
  /\ OutcomeIsJustified(NoPlan)
  /\ \A error : OutcomeIsJustified(Failed(error))
  /\ \A row : OutcomeIsJustified([NoPlan EXCEPT !.row = row])
<1>1. \A outcome : outcome.write = "none" /\ outcome.direction = "NONE" => OutcomeIsJustified(outcome)
  BY DEF OutcomeIsJustified
<1>2. QED BY <1>1, PlainOutcomes, RefusalsMoveNothing

LEMMA WaitingOutcomes ==
  ASSUME NEW how, NEW row \in Row, NEW why, NEW direction
  PROVE  /\ OutcomeIsJustified(Written(how, Reject(row, why), direction))
         /\ IsReversal(row.req.kind) => OutcomeIsJustified(Written(how, MarkPendingReference(row), direction))
         /\ IsReversal(row.req.kind) /\ row.status = "PENDING_REFERENCE" =>
              OutcomeIsJustified(Written(how, ScheduleReferenceRetry(row), direction))
<1>1. ASSUME NEW after, after.status # "PROCESSED",
             after.status = "PENDING_REFERENCE" => IsReversal(after.req.kind)
      PROVE  OutcomeIsJustified(Written(how, after, direction))
  BY <1>1 DEF OutcomeIsJustified, Justified, Written
<1>2. Reject(row, why).status = "REJECTED"
  BY DEF Reject, Row
<1>3. MarkPendingReference(row).status = "PENDING_REFERENCE" /\ MarkPendingReference(row).req = row.req
  BY DEF MarkPendingReference, Row
<1>4. ScheduleReferenceRetry(row).status = row.status /\ ScheduleReferenceRetry(row).req = row.req
  BY DEF ScheduleReferenceRetry, Row
<1>5. QED BY <1>1, <1>2, <1>3, <1>4

\* A movement in the direction of its operation, of a reversal only where the
\* reference accepts it and was not reversed yet.
LEMMA MovingOutcome ==
  ASSUME NEW how, how # "none", NEW row \in Row, NEW reference, NEW direction, NEW balance, NEW ver,
         IsReversal(row.req.kind) =>
           /\ Accepted(reference, row.req) /\ ~ HasSuccessfulReversal(reference)
           /\ direction = ReversalDirection(txs[reference].req.kind),
         ~ IsReversal(row.req.kind) => row.req.kind # "OPENING" /\ direction = DirectDirection(row.req.kind)
  PROVE  OutcomeIsJustified(Written(how, Moved(row, reference, direction, balance, ver), direction))
<1>1. CASE Overdraws(direction, balance, row.req.amount)
  <2>1. Moved(row, reference, direction, balance, ver).status = "REJECTED"
    BY <1>1 DEF Moved, Reject, Row
  <2>2. QED BY <2>1 DEF OutcomeIsJustified, Justified, Written
<1>2. CASE ~ Overdraws(direction, balance, row.req.amount)
  <2> DEFINE after == Moved(row, reference, direction, balance, ver)
  <2>1. /\ after.status = "PROCESSED" /\ after.refTx = reference /\ after.req = row.req
    BY <1>2 DEF Moved, MarkProcessed, Row
  <2> HIDE DEF after
  <2>2. /\ Written(how, after, direction).row = after /\ Written(how, after, direction).write = how
        /\ Written(how, after, direction).direction = direction
    BY <2>1 DEF Written
  <2>3. Justified(after)
    BY <2>1 DEF Justified
  <2>4. direction = DirectionOf(after)
    BY <2>1 DEF DirectionOf
  <2>5. QED BY <2>1, <2>2, <2>3, <2>4 DEF OutcomeIsJustified, after
<1>3. QED BY <1>1, <1>2

LEMMA MovePlans ==
  ASSUME TypeOK, NEW p \in Procs, NEW how, how # "none", NEW reference, NEW direction,
         Move(p, how, reference, direction), txs' = txs,
         IsReversal(plan[p].row.req.kind) =>
           /\ Accepted(reference, plan[p].row.req) /\ ~ HasSuccessfulReversal(reference)
           /\ direction = ReversalDirection(txs[reference].req.kind),
         ~ IsReversal(plan[p].row.req.kind) =>
           plan[p].row.req.kind # "OPENING" /\ direction = DirectDirection(plan[p].row.req.kind)
  PROVE  /\ OutcomeIsJustified(plan'[p]) /\ pc'[p] \in {"persist", "return"}
         /\ \A q \in Procs \ {p} : pc'[q] = pc[q] /\ plan'[q] = plan[q]
<1>1. plan[p].row \in Row
  BY DEF TypeOK, Plan
<1>2. \E outcome : OutcomeIsJustified(outcome) /\ (Finish(p, outcome) \/ Write(p, outcome))
  <2>1. CASE Overflows(direction, view[p].balance, plan[p].row.req.amount)
    BY <2>1, UnmovedOutcomes DEF Move
  <2>2. CASE ~ Overflows(direction, view[p].balance, plan[p].row.req.amount)
    BY <1>1, <2>2, MovingOutcome DEF Move
  <2>3. QED BY <2>1, <2>2
<1>3. QED BY <1>2, HistoryOutcomes

LEMMA SameRows ==
  ASSUME txs' = txs
  PROVE  /\ \A i, r : Accepted(i, r)' <=> Accepted(i, r)
         /\ \A row : Justified(row)' <=> Justified(row)
         /\ \A outcome : OutcomeIsJustified(outcome)' <=> OutcomeIsJustified(outcome)
<1>1. \A i, r : Accepted(i, r)' <=> Accepted(i, r)
  BY DEF Accepted
<1>2. \A row : DirectionOf(row)' = DirectionOf(row)
  BY DEF DirectionOf
<1>3. \A i : HasSuccessfulReversal(i)' <=> HasSuccessfulReversal(i)
  BY DEF HasSuccessfulReversal
<1>4. \A row : Justified(row)' <=> Justified(row)
  BY <1>1 DEF Justified
<1>5. QED BY <1>1, <1>2, <1>3, <1>4 DEF OutcomeIsJustified

\* A step that leaves transactions and entries alone keeps the invariant when
\* the processes it moves plan in order.
LEMMA QuietKeepsReversals ==
  ASSUME ReversalInvariant, txs' = txs, ledger' = ledger,
         \A q \in Procs : Rests(q) \/ PlanInOrder(q)'
  PROVE  ReversalInvariant'
<1>1. ASSUME NEW q \in Procs PROVE PlanInOrder(q)'
  <2>1. CASE pc'[q] = pc[q] /\ job'[q] = job[q] /\ plan'[q] = plan[q]
    BY <2>1, SameRows DEF ReversalInvariant, PlansAreJustified, PlanInOrder
  <2>2. CASE pc'[q] = "idle" /\ plan'[q] = NoPlan
    BY <2>2, SameRows, UnmovedOutcomes DEF PlanInOrder
  <2>3. QED BY <2>1, <2>2 DEF Rests
<1>2. PlansAreJustified'
  BY <1>1 DEF PlansAreJustified, PlanInOrder
<1>3. RowsAreJustified'
  BY SameRows DEF ReversalInvariant, RowsAreJustified
<1>4. EntriesAreRecorded'
  BY DEF ReversalInvariant, EntriesAreRecorded, DirectionOf
<1>5. ReversalsAreDistinct'
  BY DEF ReversalInvariant, ReversalsAreDistinct
<1>6. QED BY <1>2, <1>3, <1>4, <1>5 DEF ReversalInvariant

\* A decision of p keeps the invariant if what p plans now is in order.
LEMMA DecisionKeepsReversals ==
  ASSUME ReversalInvariant, NEW p \in Procs, UNCHANGED <<txs, ledger>>,
         \A q \in Procs \ {p} : pc'[q] = pc[q] /\ job'[q] = job[q] /\ plan'[q] = plan[q],
         pc'[p] \in {"ref", "reversed"} => IsReversal(job'[p].req.kind),
         pc'[p] = "reversed" => Accepted(job'[p].ref, job'[p].req),
         OutcomeIsJustified(plan'[p])
  PROVE  ReversalInvariant'
<1>1. PlanInOrder(p)'
  BY SameRows DEF PlanInOrder
<1>2. QED BY <1>1, QuietKeepsReversals DEF Rests

LEMMA StartKeepsReversals ==
  ASSUME TypeOK, ReversalInvariant, NEW p \in Procs, NEW newJob, NEW newPlan,
         NEW first \in {"lock", "findInbox"}, Start(p, newJob, newPlan, first),
         newPlan.write = "none", newPlan.direction = "NONE"
  PROVE  ReversalInvariant'
BY StartFrame, UnmovedOutcomes, DecisionKeepsReversals

\* The statements before the reference is looked up.
LEMMA EarlyStepsKeepReversals ==
  ASSUME TypeOK, HistoryInvariant, ReversalInvariant, NEW p \in Procs,
         FindInbox(p) \/ RecordInbox(p) \/ LockWallet(p) \/ FindByIdempotencyKey(p)
  PROVE  ReversalInvariant'
<1>1. /\ \A q \in Procs \ {p} : job'[q] = job[q]
      /\ UNCHANGED <<txs, ledger>>
  BY DEF FindInbox, RecordInbox, LockWallet, FindByIdempotencyKey, TypeOK, tables
<1>2. OutcomeIsJustified(plan[p])
  BY DEF ReversalInvariant, PlansAreJustified
<1>3. \/ \E outcome : OutcomeIsJustified(outcome) /\ Finish(p, outcome)
      \/ \E next \in {"recordInbox", "lock", "key", "ext"} : Goto(p, next) /\ plan' = plan
      \/ p \in Workers /\ LockWallet(p) /\ Goto(p, "ref") /\ plan' = plan
  <2>1. CASE FindInbox(p) \/ RecordInbox(p)
    BY <2>1, UnmovedOutcomes DEF FindInbox, RecordInbox, SeenBefore
  <2>2. CASE LockWallet(p)
    BY <2>2, UnmovedOutcomes DEF LockWallet
  <2>3. CASE FindByIdempotencyKey(p)
    BY <2>3, UnmovedOutcomes DEF FindByIdempotencyKey, ReplayOf
  <2>4. QED BY <2>1, <2>2, <2>3
<1>4. CASE \E outcome : OutcomeIsJustified(outcome) /\ Finish(p, outcome)
  BY <1>1, <1>4, HistoryOutcomes, DecisionKeepsReversals
<1>5. CASE \E next \in {"recordInbox", "lock", "key", "ext"} : Goto(p, next) /\ plan' = plan
  BY <1>1, <1>2, <1>5, HistoryOutcomes, DecisionKeepsReversals
<1>6. CASE p \in Workers /\ LockWallet(p) /\ Goto(p, "ref") /\ plan' = plan
  <2>1. ClaimInOrder(p) /\ pc[p] = "lock" /\ job' = job
    BY <1>6, InvariantByProcess DEF HistoryInvariant, LockWallet
  <2>2. IsReversal(job'[p].req.kind)
    BY <2>1 DEF ClaimInOrder, ReversalInvariant, RowsAreJustified, Justified
  <2>3. QED BY <1>1, <1>2, <1>6, <2>2, HistoryOutcomes, DecisionKeepsReversals
<1>7. QED BY <1>3, <1>4, <1>5, <1>6

LEMMA DirectKeepsReversals ==
  ASSUME TypeOK, HistoryInvariant, ReversalInvariant, NEW p \in Procs, FindByExternalID(p)
  PROVE  ReversalInvariant'
<1> DEFINE r == job[p].req
<1>1. /\ pc[p] = "ext" /\ p \notin Workers /\ UNCHANGED <<txs, ledger, job>>
      /\ plan[p].row \in Row /\ plan[p].row.req = r
  BY UndecidedBefore DEF FindByExternalID, Undeciding, Undecided, tables
<1>2. r \in Requests /\ r.kind # "OPENING"
  <2>1. r \in Requests
    BY <1>1, InvariantByProcess DEF HistoryInvariant, RequestInOrder, Procs
  <2>2. QED BY <2>1, Identities
<1>3. OutcomeIsJustified(plan[p])
  BY DEF ReversalInvariant, PlansAreJustified
<1>4. \/ \E outcome : OutcomeIsJustified(outcome) /\ (Finish(p, outcome) \/ Write(p, outcome))
      \/ Goto(p, "ref") /\ plan' = plan /\ IsReversal(r.kind)
      \/ Move(p, "insert", 0, DirectDirection(r.kind)) /\ ~ IsReversal(r.kind)
  BY <1>1, UnmovedOutcomes, WaitingOutcomes DEF FindByExternalID
<1>5. CASE \E outcome : OutcomeIsJustified(outcome) /\ (Finish(p, outcome) \/ Write(p, outcome))
  BY <1>1, <1>5, HistoryOutcomes, DecisionKeepsReversals
<1>6. CASE Goto(p, "ref") /\ plan' = plan /\ IsReversal(r.kind)
  BY <1>1, <1>3, <1>6, HistoryOutcomes, DecisionKeepsReversals
<1>7. CASE Move(p, "insert", 0, DirectDirection(r.kind)) /\ ~ IsReversal(r.kind)
  BY <1>1, <1>2, <1>7, MovePlans, DecisionKeepsReversals
<1>8. QED BY <1>4, <1>5, <1>6, <1>7

LEMMA ReferenceKeepsReversals ==
  ASSUME TypeOK, HistoryInvariant, ReversalInvariant, NEW p \in Procs, FindReference(p)
  PROVE  ReversalInvariant'
<1> DEFINE r == job[p].req
<1>1. /\ pc[p] = "ref" /\ UNCHANGED <<txs, ledger>> /\ plan[p].row \in Row
      /\ plan[p].row.req = r /\ IsReversal(r.kind)
      /\ p \in Workers => plan[p].row.status = "PENDING_REFERENCE"
  <2>1. pc[p] = "ref" /\ UNCHANGED <<txs, ledger>> /\ Undecided(p)
    BY UndecidedBefore DEF FindReference, Undeciding, tables
  <2>2. p \in Workers => ClaimInOrder(p)
    BY InvariantByProcess DEF HistoryInvariant
  <2>3. QED BY <2>1, <2>2 DEF Undecided, ClaimInOrder, ReversalInvariant, PlansAreJustified
<1>2. OutcomeIsJustified(plan[p])
  BY DEF ReversalInvariant, PlansAreJustified
<1>3. \/ /\ job' = job
         /\ \E outcome : OutcomeIsJustified(outcome) /\ Write(p, outcome)
      \/ \E i \in DOMAIN txs :
           /\ job' = [job EXCEPT ![p].ref = i] /\ Goto(p, "reversed") /\ plan' = plan
           /\ ReversalRejection(txs[i], r) = Nil
  <2>1. CASE /\ SettledRows(r.ref) = {} /\ job' = job
             /\ IF p \in Workers THEN WaitOrExpire(p)
                ELSE Write(p, Written("insert", MarkPendingReference(plan[p].row), "NONE"))
    BY <1>1, <2>1, WaitingOutcomes DEF WaitOrExpire
  <2>2. CASE \E i \in SettledRows(r.ref) :
               /\ job' = job
               /\ Write(p, Written(How(p), Reject(plan[p].row, ReversalRejection(txs[i], r)), "NONE"))
    BY <1>1, <2>2, WaitingOutcomes
  <2>3. CASE \E i \in SettledRows(r.ref) :
               /\ ReversalRejection(txs[i], r) = Nil
               /\ job' = [job EXCEPT ![p].ref = i] /\ Goto(p, "reversed") /\ plan' = plan
    BY <2>3 DEF SettledRows
  <2>4. QED BY <2>1, <2>2, <2>3 DEF FindReference
<1>4. CASE job' = job /\ \E outcome : OutcomeIsJustified(outcome) /\ Write(p, outcome)
  BY <1>1, <1>4, HistoryOutcomes, DecisionKeepsReversals
<1>5. ASSUME NEW i \in DOMAIN txs, job' = [job EXCEPT ![p].ref = i], Goto(p, "reversed"),
             plan' = plan, ReversalRejection(txs[i], r) = Nil
      PROVE  ReversalInvariant'
  <2>1. /\ job'[p].ref = i /\ job'[p].req = r
        /\ \A q \in Procs \ {p} : job'[q] = job[q]
    BY <1>5 DEF TypeOK, Job
  <2>2. Accepted(job'[p].ref, job'[p].req)
    BY <1>5, <2>1 DEF Accepted
  <2>3. QED BY <1>1, <1>2, <1>5, <2>1, <2>2, HistoryOutcomes, DecisionKeepsReversals
<1>6. QED BY <1>3, <1>4, <1>5

LEMMA CheckKeepsReversals ==
  ASSUME TypeOK, HistoryInvariant, ReversalInvariant, NEW p \in Procs, CheckReversed(p)
  PROVE  ReversalInvariant'
<1> DEFINE i == job[p].ref
<1>1. /\ pc[p] = "reversed" /\ UNCHANGED <<txs, ledger, job>> /\ plan[p].row \in Row
      /\ plan[p].row.req = job[p].req /\ IsReversal(job[p].req.kind)
      /\ Accepted(i, job[p].req)
  <2>1. pc[p] = "reversed" /\ UNCHANGED <<txs, ledger, job>> /\ Undecided(p)
    BY UndecidedBefore DEF CheckReversed, Undeciding, tables
  <2>2. p \in Workers => ClaimInOrder(p)
    BY InvariantByProcess DEF HistoryInvariant
  <2>3. QED BY <2>1, <2>2 DEF Undecided, ClaimInOrder, ReversalInvariant, PlansAreJustified
<1>2. CASE HasSuccessfulReversal(i)
  BY <1>1, <1>2, WaitingOutcomes, HistoryOutcomes, DecisionKeepsReversals DEF CheckReversed
<1>3. CASE ~ HasSuccessfulReversal(i)
  <2>1. Move(p, How(p), i, ReversalDirection(txs[i].req.kind)) /\ How(p) # "none"
    BY <1>3 DEF CheckReversed, How
  <2>2. QED BY <1>1, <1>3, <2>1, MovePlans, DecisionKeepsReversals
<1>4. QED BY <1>2, <1>3

LEMMA PersistKeepsReversals ==
  ASSUME TypeOK, ReversalInvariant, NEW p \in Procs, Persist(p)
  PROVE  ReversalInvariant'
<1>1. /\ UNCHANGED <<txs, ledger, job>>
      /\ Finish(p, Failed("DB_CONFLICT")) \/ (Goto(p, "return") /\ plan' = plan)
  BY DEF Persist, tables
<1>2. OutcomeIsJustified(plan[p]) /\ OutcomeIsJustified(Failed("DB_CONFLICT"))
  BY UnmovedOutcomes DEF ReversalInvariant, PlansAreJustified
<1>3. QED BY <1>1, <1>2, HistoryOutcomes, DecisionKeepsReversals

-----------------------------------------------------------------------------
(* Reversals: a row arrives.                                               *)

Reverses(row) == row.status = "PROCESSED" /\ IsReversal(row.req.kind)

\* Row is stored at t, new there or in the place of a waiting one.
Arrives(t, row) ==
  /\ DOMAIN txs' = DOMAIN txs \cup {t} /\ txs'[t] = row
  /\ \A i \in DOMAIN txs \ {t} : txs'[i] = txs[i]
  /\ t \in DOMAIN txs => txs[t].status = "PENDING_REFERENCE"
  /\ Justified(row)
  /\ Reverses(row) => ~ HasSuccessfulReversal(row.refTx)

\* The entry that comes with it, if any.
Explained(t, row) ==
  \/ ledger' = ledger
  \/ \E w \in Wallets, entry \in Entry :
       /\ ledger' = [ledger EXCEPT ![w] = Append(@, entry)]
       /\ row.status = "PROCESSED" /\ row.req.wallet = w
       /\ entry.tx = t /\ entry.amount = row.req.amount /\ entry.direction = DirectionOf(row)

\* No reference waits or is what arrives.
LEMMA ReferencesAreOld ==
  ASSUME ReversalInvariant, NEW t, NEW row, Arrives(t, row)
  PROVE  /\ Reverses(row) => row.refTx \in DOMAIN txs /\ row.refTx # t
         /\ \A j \in DOMAIN txs : Reverses(txs[j]) => txs[j].refTx \in DOMAIN txs /\ txs[j].refTx # t
BY JustifiedReference DEF ReversalInvariant, RowsAreJustified, Arrives, Reverses

\* Who reversed a reference before has reversed it still, and nobody else has.
LEMMA ArrivedReversals ==
  ASSUME ReversalInvariant, NEW t, NEW row, Arrives(t, row), NEW j \in DOMAIN txs', NEW i,
         IsSuccessfulReversalOf(txs'[j], i)
  PROVE  /\ i \in DOMAIN txs
         /\ \/ j = t /\ Reverses(row) /\ i = row.refTx
            \/ j # t /\ j \in DOMAIN txs /\ IsSuccessfulReversalOf(txs[j], i)
<1>1. CASE j = t
  BY <1>1, ReferencesAreOld DEF Arrives, Reverses, IsSuccessfulReversalOf
<1>2. CASE j # t
  <2>1. j \in DOMAIN txs /\ IsSuccessfulReversalOf(txs[j], i)
    BY <1>2 DEF Arrives
  <2>2. QED BY <1>2, <2>1, ReferencesAreOld DEF Reverses, IsSuccessfulReversalOf
<1>3. QED BY <1>1, <1>2

LEMMA ArrivalKeepsPlans ==
  ASSUME TypeOK, HistoryInvariant, ReversalInvariant, [Next]_vars,
         NEW t, NEW row, Arrives(t, row),
         \A q \in Procs : Rests(q),
         \A q \in Procs : Reverses(row) /\ plan'[q].write # "none" /\ Reverses(plan'[q].row) =>
                            plan'[q].row.refTx # row.refTx
  PROVE  PlansAreJustified'
<1>1. ASSUME NEW q \in Procs PROVE PlanInOrder(q)'
  <2>1. CASE pc'[q] = pc[q] /\ job'[q] = job[q] /\ plan'[q] = plan[q]
    <3>0. PICK own : own = plan[q].row
      OBVIOUS
    <3>1. PlanInOrder(q)
      BY DEF ReversalInvariant, PlansAreJustified, PlanInOrder
    <3>2. /\ pc'[q] \in {"ref", "reversed"} => IsReversal(job'[q].req.kind)
          /\ pc[q] = "reversed" => Accepted(job[q].ref, job[q].req)'
      BY <2>1, <3>1, JustifiedStays DEF PlanInOrder
    <3>3. CASE plan[q].write = "none"
      BY <2>1, <3>1, <3>2, <3>3 DEF PlanInOrder, OutcomeIsJustified
    <3>4. CASE plan[q].write # "none"
      <4>1. Justified(own) /\ Justified(own)'
        BY <3>0, <3>1, <3>4, JustifiedStays DEF PlanInOrder, OutcomeIsJustified
      <4>2. plan[q].direction = IF own.status = "PROCESSED" THEN DirectionOf(own)' ELSE "NONE"
        BY <3>0, <3>1, <3>4, <4>1, JustifiedStays DEF PlanInOrder, OutcomeIsJustified
      <4>3. Reverses(own) => ~ HasSuccessfulReversal(own.refTx)'
        <5> SUFFICES ASSUME Reverses(own), NEW j \in DOMAIN txs',
                            IsSuccessfulReversalOf(txs'[j], own.refTx)
                     PROVE  FALSE
          BY <2>1 DEF HasSuccessfulReversal
        <5>1. j \in DOMAIN txs /\ IsSuccessfulReversalOf(txs[j], own.refTx)
          BY <2>1, <3>0, <3>4, ArrivedReversals
        <5>2. QED BY <3>0, <3>1, <3>4, <5>1 DEF PlanInOrder, OutcomeIsJustified, HasSuccessfulReversal, Reverses
      <4>4. OutcomeIsJustified(plan[q])'
        BY <2>1, <3>0, <3>4, <4>1, <4>2, <4>3 DEF OutcomeIsJustified, Reverses
      <4>5. QED BY <2>1, <3>2, <4>4 DEF PlanInOrder
    <3>5. QED BY <3>3, <3>4
  <2>2. CASE pc'[q] = "idle" /\ plan'[q] = NoPlan
    BY <2>2, PlainOutcomes, RefusalsMoveNothing DEF PlanInOrder, OutcomeIsJustified
  <2>3. QED BY <2>1, <2>2 DEF Rests
<1>2. QED BY <1>1 DEF PlansAreJustified, PlanInOrder

\* An entry is an old one, or the last of its wallet and the one that arrives.
LEMMA ArrivedEntries ==
  ASSUME TypeOK, NEW t, NEW row, Explained(t, row), NEW w \in Wallets, NEW k \in DOMAIN ledger'[w]
  PROVE  \/ k \in DOMAIN ledger[w] /\ ledger'[w][k] = ledger[w][k]
         \/ /\ k = Len(ledger[w]) + 1 /\ ledger'[w][k].tx = t
            /\ row.status = "PROCESSED" /\ row.req.wallet = w
            /\ ledger'[w][k].amount = row.req.amount /\ ledger'[w][k].direction = DirectionOf(row)
            /\ DOMAIN ledger'[w] = DOMAIN ledger[w] \cup {k}
<1>1. CASE ledger'[w] = ledger[w]
  BY <1>1
<1>2. CASE ledger'[w] # ledger[w]
  <2>1. PICK entry \in Entry :
          /\ ledger' = [ledger EXCEPT ![w] = Append(@, entry)]
          /\ row.status = "PROCESSED" /\ row.req.wallet = w
          /\ entry.tx = t /\ entry.amount = row.req.amount /\ entry.direction = DirectionOf(row)
    BY <1>2 DEF Explained, TypeOK
  <2>2. ledger[w] \in Seq(Entry) /\ ledger'[w] = Append(ledger[w], entry)
    BY <2>1 DEF TypeOK
  <2>3. /\ DOMAIN ledger'[w] = 1..(Len(ledger[w]) + 1) /\ DOMAIN ledger[w] = 1..Len(ledger[w])
        /\ \A n \in 1..Len(ledger[w]) : ledger'[w][n] = ledger[w][n]
        /\ ledger'[w][Len(ledger[w]) + 1] = entry
        /\ Len(ledger[w]) \in Nat
    BY <2>2, AppendProperties
  <2>4. QED BY <2>1, <2>3
<1>3. QED BY <1>1, <1>2

LEMMA ArrivalKeepsRows ==
  ASSUME TypeOK, HistoryInvariant, ReversalInvariant, [Next]_vars, NEW t, NEW row, Arrives(t, row)
  PROVE  RowsAreJustified'
<1>1. ASSUME NEW i \in DOMAIN txs' PROVE Justified(txs[i])' \/ Justified(txs'[i])
  <2>1. CASE i = t
    BY <2>1 DEF Arrives
  <2>2. CASE i # t
    BY <2>2, JustifiedStays DEF Arrives, ReversalInvariant, RowsAreJustified
  <2>3. QED BY <2>1, <2>2
<1>2. QED BY <1>1, JustifiedStays DEF RowsAreJustified

LEMMA ArrivalKeepsEntries ==
  ASSUME TypeOK, HistoryInvariant, ReversalInvariant, [Next]_vars,
         NEW t, NEW row, Arrives(t, row), Explained(t, row)
  PROVE  EntriesAreRecorded'
<1> SUFFICES ASSUME NEW w \in Wallets, NEW k \in DOMAIN ledger'[w], NEW i, i = ledger'[w][k].tx
             PROVE  /\ i \in DOMAIN txs' /\ txs'[i].status = "PROCESSED" /\ txs'[i].req.wallet = w
                    /\ ledger'[w][k].amount = txs'[i].req.amount
                    /\ ledger'[w][k].direction = DirectionOf(txs[i])'
  BY DEF EntriesAreRecorded
<1>1. CASE k \in DOMAIN ledger[w] /\ ledger'[w][k] = ledger[w][k]
  <2>1. /\ i \in DOMAIN txs /\ txs[i].status = "PROCESSED" /\ txs[i].req.wallet = w
        /\ ledger[w][k].amount = txs[i].req.amount /\ ledger[w][k].direction = DirectionOf(txs[i])
        /\ Justified(txs[i])
    BY <1>1 DEF ReversalInvariant, EntriesAreRecorded, RowsAreJustified
  <2>2. i \in DOMAIN txs' /\ txs'[i] = txs[i]
    BY <2>1, SettledRowsStay
  <2>3. \A old : Justified(old) /\ old.status = "PROCESSED" => DirectionOf(old)' = DirectionOf(old)
    BY JustifiedStays
  <2>4. DirectionOf(txs[i])' = DirectionOf(txs[i])
    <3>1. PICK old : old = txs[i]
      OBVIOUS
    <3>2. DirectionOf(old)' = DirectionOf(old)
      BY <2>1, <2>3, <3>1
    <3>3. QED BY <2>2, <3>1, <3>2 DEF DirectionOf
  <2>5. QED BY <1>1, <2>1, <2>2, <2>4
<1>2. CASE /\ ledger'[w][k].tx = t /\ row.status = "PROCESSED" /\ row.req.wallet = w
           /\ ledger'[w][k].amount = row.req.amount /\ ledger'[w][k].direction = DirectionOf(row)
  <2>1. i = t /\ txs'[t] = row /\ t \in DOMAIN txs' /\ Justified(row)
    BY <1>2 DEF Arrives
  <2>2. DirectionOf(row)' = DirectionOf(row)
    BY <1>2, <2>1, JustifiedStays
  <2>3. DirectionOf(txs[i])' = DirectionOf(row)'
    BY <2>1 DEF DirectionOf
  <2>4. QED BY <1>2, <2>1, <2>2, <2>3
<1>3. QED BY <1>1, <1>2, ArrivedEntries

LEMMA ArrivalKeepsReversalsDistinct ==
  ASSUME TypeOK, ReversalInvariant, NEW t, NEW row, Arrives(t, row), Explained(t, row)
  PROVE  ReversalsAreDistinct'
<1> SUFFICES ASSUME NEW i \in DOMAIN txs', NEW j \in DOMAIN txs', IsSuccessfulReversalOf(txs'[j], i)
             PROVE  /\ \A k \in DOMAIN txs' : IsSuccessfulReversalOf(txs'[k], i) => k = j
                    /\ \A w \in Wallets : \A d, e \in DOMAIN ledger'[w] :
                         ledger'[w][d].tx = i /\ ledger'[w][e].tx = j => d < e
  BY DEF ReversalsAreDistinct
<1>1. /\ i \in DOMAIN txs
      /\ \/ j = t /\ Reverses(row) /\ i = row.refTx
         \/ j # t /\ j \in DOMAIN txs /\ IsSuccessfulReversalOf(txs[j], i)
  BY ArrivedReversals
<1>2. i # t
  BY <1>1, ReferencesAreOld DEF IsSuccessfulReversalOf, Reverses
<1>3. ASSUME NEW k \in DOMAIN txs', IsSuccessfulReversalOf(txs'[k], i) PROVE k = j
  <2>1. \/ k = t /\ Reverses(row) /\ i = row.refTx
        \/ k # t /\ k \in DOMAIN txs /\ IsSuccessfulReversalOf(txs[k], i)
    BY <1>3, ArrivedReversals
  <2>2. Reverses(row) /\ i = row.refTx =>
          \A n \in DOMAIN txs : ~ IsSuccessfulReversalOf(txs[n], i)
    BY DEF Arrives, HasSuccessfulReversal
  <2>3. QED BY <1>1, <2>1, <2>2 DEF ReversalInvariant, ReversalsAreDistinct
<1>4. ASSUME NEW w \in Wallets, NEW d \in DOMAIN ledger'[w], NEW e \in DOMAIN ledger'[w],
             ledger'[w][d].tx = i, ledger'[w][e].tx = j
      PROVE  d < e
  <2>1. d \in DOMAIN ledger[w] /\ ledger[w][d].tx = i
    BY <1>2, <1>4, ArrivedEntries
  <2>2. CASE e \in DOMAIN ledger[w] /\ ledger'[w][e] = ledger[w][e]
    <3>1. j # t
      BY <1>4, <2>2 DEF ReversalInvariant, EntriesAreRecorded, Arrives
    <3>2. QED BY <1>1, <1>4, <2>1, <2>2, <3>1 DEF ReversalInvariant, ReversalsAreDistinct
  <2>3. CASE e = Len(ledger[w]) + 1
    BY <2>1, <2>3 DEF TypeOK
  <2>4. QED BY <2>2, <2>3, ArrivedEntries
<1>5. QED BY <1>3, <1>4

LEMMA ArrivalKeepsReversals ==
  ASSUME TypeOK, HistoryInvariant, ReversalInvariant, [Next]_vars,
         NEW t, NEW row, Arrives(t, row), Explained(t, row),
         \A q \in Procs : Rests(q),
         \A q \in Procs : Reverses(row) /\ plan'[q].write # "none" /\ Reverses(plan'[q].row) =>
                            plan'[q].row.refTx # row.refTx
  PROVE  ReversalInvariant'
BY ArrivalKeepsPlans, ArrivalKeepsRows, ArrivalKeepsEntries, ArrivalKeepsReversalsDistinct
   DEF ReversalInvariant

LEMMA AppendArrives ==
  ASSUME TypeOK, NEW row \in Row, txs' = Append(txs, row), Justified(row),
         Reverses(row) => ~ HasSuccessfulReversal(row.refTx)
  PROVE  Arrives(Len(txs) + 1, row)
<1>1. txs \in Seq(Row) /\ Len(txs) \in Nat /\ DOMAIN txs = 1..Len(txs)
  BY DEF TypeOK
<1>2. /\ DOMAIN txs' = 1..(Len(txs) + 1)
      /\ \A i \in 1..Len(txs) : txs'[i] = txs[i]
      /\ txs'[Len(txs) + 1] = row
  BY <1>1, AppendProperties
<1>3. QED BY <1>1, <1>2 DEF Arrives

LEMMA OpeningKeepsReversals ==
  ASSUME TypeOK, HistoryInvariant, ReversalInvariant, NEW w \in Wallets, NEW b \in OpeningBalances,
         OpenWallet(w, b)
  PROVE  ReversalInvariant'
<1>1. \A q \in Procs : Rests(q)
  BY DEF OpenWallet, work, Rests
<1>2. CASE b = 0
  BY <1>1, <1>2, QuietKeepsReversals DEF OpenWallet
<1>3. CASE b # 0
  <2> DEFINE row == OpeningRow(w, b)
             entry == [tx |-> Len(txs) + 1, direction |-> "CREDIT", amount |-> b,
                       before |-> 0, after |-> b]
  <2>1. row \in Row /\ txs' = Append(txs, row) /\ ledger' = [ledger EXCEPT ![w] = Append(@, entry)]
    BY <1>3, OpeningRowType DEF OpenWallet, OpeningRow
  <2>2. /\ row.status = "PROCESSED" /\ row.req.kind = "OPENING"
        /\ row.req.wallet = w /\ row.req.amount = b
    BY DEF OpeningRow, MarkProcessed, NewExternal, BlankRow, OpeningRequest
  <2>3. ~ IsReversal(row.req.kind)
    BY <2>2 DEF IsReversal
  <2>4. entry \in Entry
    BY EngineAssumption, DomainAssumption DEF Entry, TypeOK
  <2>5. entry.tx = Len(txs) + 1 /\ entry.amount = b /\ entry.direction = "CREDIT"
    OBVIOUS
  <2> HIDE DEF row, entry
  <2>6. Justified(row) /\ DirectionOf(row) = "CREDIT" /\ ~ Reverses(row)
    BY <2>2, <2>3 DEF Justified, DirectionOf, Reverses
  <2>7. Arrives(Len(txs) + 1, row)
    BY <2>1, <2>6, AppendArrives
  <2>8. Explained(Len(txs) + 1, row)
    BY <2>1, <2>2, <2>4, <2>5, <2>6 DEF Explained
  <2>9. [Next]_vars
    BY DEF Next
  <2>10. QED BY <1>1, <2>6, <2>7, <2>8, <2>9, ArrivalKeepsReversals
<1>4. QED BY <1>2, <1>3

\* What is planned is planned for the request at hand.
LEMMA PlannedRequest ==
  ASSUME TypeOK, HistoryInvariant, NEW p \in Procs, pc[p] # "idle", plan[p].write # "none"
  PROVE  /\ plan[p].row.req = job[p].req
         /\ p \in Workers =>
              /\ plan[p].write = "update" /\ job[p].tx \in DOMAIN txs
              /\ txs[job[p].tx].status = "PENDING_REFERENCE"
         /\ p \notin Workers => plan[p].write = "insert"
<1>1. CASE p \in Workers
  BY <1>1, InvariantByProcess DEF HistoryInvariant, ClaimInOrder, Settles
<1>2. CASE p \notin Workers
  BY <1>2, InvariantByProcess DEF HistoryInvariant, RequestInOrder, Procs
<1>3. QED BY <1>1, <1>2

\* Two reversals of one reference are not planned at a time: each would hold
\* the wallet of the reference.
LEMMA OneReversalPlanned ==
  ASSUME TypeOK, LedgerInvariant, HistoryInvariant, ReversalInvariant,
         NEW p \in Procs, plan[p].write # "none", Reverses(plan[p].row),
         NEW q \in Procs, plan[q].write # "none", Reverses(plan[q].row),
         plan[p].row.refTx = plan[q].row.refTx
  PROVE  p = q
<1>1. ASSUME NEW o \in Procs, plan[o].write # "none", Reverses(plan[o].row)
      PROVE  /\ holder[txs[plan[o].row.refTx].req.wallet] = o
             /\ txs[plan[o].row.refTx].req.wallet \in Wallets
  <2> DEFINE row == plan[o].row
  <2>1. Justified(row) /\ plan[o].direction = DirectionOf(row)
    BY <1>1 DEF ReversalInvariant, PlansAreJustified, OutcomeIsJustified, Reverses
  <2>2. txs[row.refTx].req.wallet = row.req.wallet
    BY <1>1, <2>1, JustifiedReference, AcceptedReference DEF Reverses
  <2>3. plan[o].direction # "NONE"
    BY <1>1, <2>1 DEF DirectionOf, ReversalDirection, Reverses
  <2>4. pc[o] # "idle" /\ holder[job[o].req.wallet] = o
    BY <2>3 DEF LedgerInvariant, PlannedMovements
  <2>5. row.req = job[o].req /\ job[o].req.wallet \in Wallets
    BY <1>1, <2>4, PlannedRequest, RequestFields DEF TypeOK, Job
  <2>6. QED BY <2>2, <2>4, <2>5
<1>2. QED BY <1>1

LEMMA CommitArrives ==
  ASSUME TypeOK, HistoryInvariant, ReversalInvariant, NEW p \in Procs, Commit(p),
         plan[p].write # "none"
  PROVE  Arrives(TxId(p), plan[p].row) /\ Explained(TxId(p), plan[p].row)
<1> DEFINE row == plan[p].row
           t   == TxId(p)
<1>1. /\ row \in Row /\ pc[p] = "return" /\ Apply(p) /\ row.req = job[p].req
      /\ p \in Workers =>
           /\ plan[p].write = "update" /\ job[p].tx \in DOMAIN txs
           /\ txs[job[p].tx].status = "PENDING_REFERENCE"
      /\ p \notin Workers => plan[p].write = "insert"
  BY PlannedRequest DEF TypeOK, Plan, Commit
<1>2. /\ Justified(row) /\ (Reverses(row) => ~ HasSuccessfulReversal(row.refTx))
      /\ plan[p].direction = IF row.status = "PROCESSED" THEN DirectionOf(row) ELSE "NONE"
  BY DEF ReversalInvariant, PlansAreJustified, OutcomeIsJustified, Reverses
<1>3. Arrives(t, row)
  <2>1. CASE p \in Workers
    <3>1. txs' = [txs EXCEPT ![t] = row] /\ t \in DOMAIN txs /\ txs[t].status = "PENDING_REFERENCE"
      BY <1>1, <2>1 DEF Apply, TxId
    <3>2. QED BY <1>2, <3>1 DEF Arrives
  <2>2. CASE p \notin Workers
    <3>1. txs' = Append(txs, row) /\ t = Len(txs) + 1
      BY <1>1, <2>2 DEF Apply, TxId
    <3>2. QED BY <1>1, <1>2, <3>1, AppendArrives
  <2>3. QED BY <2>1, <2>2
<1>4. Explained(t, row)
  <2>1. CASE plan[p].direction = "NONE"
    BY <1>1, <2>1 DEF Apply, Explained
  <2>2. CASE plan[p].direction # "NONE"
    <3>1. ledger' = [ledger EXCEPT ![row.req.wallet] = Append(@, Movement(p))]
      BY <1>1, <2>2 DEF Apply
    <3>2. row.req.wallet \in Wallets /\ row.req.amount \in 0..MaxMinor
      BY <1>1, RequestFields DEF Row
    <3>3. /\ Movement(p).tx = t /\ Movement(p).amount = row.req.amount
          /\ Movement(p).direction = plan[p].direction
      BY DEF Movement
    <3>4. Movement(p) \in Entry
      <4>1. t \in Nat
        BY DEF TypeOK, Job, TxId
      <4>2. /\ plan[p].direction \in {"CREDIT", "DEBIT"}
            /\ view[p].balance \in 0..MaxMinor /\ row.balance \in 0..MaxMinor
        BY <1>1, <2>2 DEF TypeOK, Plan, Row, Wallet, Directions
      <4>3. QED BY <3>2, <4>1, <4>2 DEF Movement, Entry
    <3>5. QED BY <1>2, <2>2, <3>1, <3>2, <3>3, <3>4 DEF Explained
  <2>3. QED BY <2>1, <2>2
<1>5. QED BY <1>3, <1>4

LEMMA CommitKeepsReversals ==
  ASSUME TypeOK, LedgerInvariant, HistoryInvariant, ReversalInvariant, NEW p \in Procs, Commit(p)
  PROVE  ReversalInvariant'
<1>1. (\A q \in Procs : Rests(q)) /\ pc'[p] = "idle" /\ plan'[p] = NoPlan
  BY ReleaseRests DEF Commit, Release, TypeOK
<1>2. CASE plan[p].write = "none"
  <2>1. plan[p].direction = "NONE"
    BY <1>2 DEF ReversalInvariant, PlansAreJustified, OutcomeIsJustified
  <2>2. txs' = txs /\ ledger' = ledger
    BY <1>2, <2>1 DEF Commit, Apply
  <2>3. QED BY <1>1, <2>2, QuietKeepsReversals
<1>3. CASE plan[p].write # "none"
  <2> DEFINE row == plan[p].row
  <2>1. ASSUME NEW q \in Procs, Reverses(row), plan'[q].write # "none", Reverses(plan'[q].row),
               plan'[q].row.refTx = row.refTx
        PROVE  FALSE
    <3>1. q # p
      BY <1>1, <2>1, PlainOutcomes
    <3>2. plan'[q] = plan[q]
      BY <1>1, <2>1, PlainOutcomes DEF Rests
    <3>3. QED BY <1>3, <2>1, <3>1, <3>2, OneReversalPlanned
  <2>2. Arrives(TxId(p), row) /\ Explained(TxId(p), row)
    BY <1>3, CommitArrives
  <2>3. [Next]_vars
    BY DEF Next, Step
  <2>4. QED BY <1>1, <2>1, <2>2, <2>3, ArrivalKeepsReversals
<1>4. QED BY <1>2, <1>3

LEMMA ReversalNext ==
  ASSUME TypeOK, LedgerInvariant, HistoryInvariant, ReversalInvariant, [Next]_vars
  PROVE  ReversalInvariant'
<1>1. CASE UNCHANGED vars
  BY <1>1, QuietKeepsReversals DEF vars, Rests
<1>2. ASSUME NEW w \in Wallets, NEW b \in OpeningBalances, OpenWallet(w, b) PROVE ReversalInvariant'
  BY <1>2, OpeningKeepsReversals
<1>3. ASSUME NEW p \in Procs, NEW newJob, NEW newPlan, NEW first \in {"lock", "findInbox"},
             Start(p, newJob, newPlan, first), \E row : newPlan = [NoPlan EXCEPT !.row = row]
      PROVE  ReversalInvariant'
  <2>1. PICK row : newPlan = [NoPlan EXCEPT !.row = row]
    BY <1>3
  <2>2. newPlan.write = "none" /\ newPlan.direction = "NONE"
    BY <2>1 DEF NoPlan
  <2>3. QED BY <1>3, <2>2, StartKeepsReversals
<1>4. CASE \/ \E p \in Sessions, r \in Requests : Submit(p, r)
           \/ \E p \in Consumers, m \in Messages : Deliver(p, m)
           \/ \E p \in Workers, i \in DOMAIN txs : Claim(p, i)
  BY <1>3, <1>4 DEF Submit, Deliver, Claim, Procs
<1>5. ASSUME NEW p \in Procs, Rollback(p) \/ Crash(p) PROVE ReversalInvariant'
  BY <1>5, ReleaseRests, QuietKeepsReversals DEF Rollback, Crash, tables
<1>6. ASSUME NEW p \in Procs, Step(p) PROVE ReversalInvariant'
  BY <1>5, <1>6, EarlyStepsKeepReversals, DirectKeepsReversals, ReferenceKeepsReversals,
     CheckKeepsReversals, PersistKeepsReversals, CommitKeepsReversals DEF Step
<1>7. ASSUME NEW i \in DOMAIN txs, BecomesDue(i) PROVE ReversalInvariant'
  BY <1>7, QuietKeepsReversals DEF BecomesDue, work, Rests
<1>8. QED BY <1>1, <1>2, <1>4, <1>5, <1>6, <1>7 DEF Next

-----------------------------------------------------------------------------
(* Reversals: what the invariant says of a reversal and its reference.     *)

\* The direction of a reversal is the opposite of its reference's: a REFUND
\* reverses a BET only, a ROLLBACK a BET, a WIN or a REFUND.
LEMMA OppositeDirections ==
  ASSUME ReversalInvariant, NEW i \in DOMAIN txs, NEW j \in DOMAIN txs,
         IsSuccessfulReversalOf(txs[j], i)
  PROVE  DirectionOf(txs[i]) # DirectionOf(txs[j])
<1>1. Accepted(i, txs[j].req) /\ Justified(txs[i])
  BY DEF ReversalInvariant, RowsAreJustified, Justified, IsSuccessfulReversalOf
<1>2. /\ EligibleForReversal(txs[j].req.kind, txs[i].req.kind) /\ txs[i].status = "PROCESSED"
      /\ DirectionOf(txs[j]) = ReversalDirection(txs[i].req.kind)
  BY <1>1, AcceptedReference DEF DirectionOf, IsSuccessfulReversalOf
<1>3. CASE txs[i].req.kind = "REFUND"
  <2>1. EligibleForReversal("REFUND", txs[txs[i].refTx].req.kind)
    BY <1>1, <1>2, <1>3, JustifiedReference, AcceptedReference DEF IsReversal
  <2>2. DirectionOf(txs[i]) = "CREDIT"
    BY <1>3, <2>1 DEF DirectionOf, IsReversal, EligibleForReversal, ReversalDirection
  <2>3. QED BY <1>2, <1>3, <2>2 DEF ReversalDirection
<1>4. CASE txs[i].req.kind # "REFUND"
  BY <1>2, <1>4 DEF EligibleForReversal, DirectionOf, IsReversal, DirectDirection, ReversalDirection
<1>5. QED BY <1>3, <1>4

LEMMA ReversedOnceFollows == ReversalInvariant => ReversedOnce
<1> SUFFICES ASSUME ReversalInvariant, NEW i \in DOMAIN txs
             PROVE  /\ Cardinality({j \in DOMAIN txs : IsSuccessfulReversalOf(txs[j], i)}) <= 1
                    /\ \A j \in DOMAIN txs : IsSuccessfulReversalOf(txs[j], i) =>
                         /\ txs[i].status = "PROCESSED"
                         /\ \A d \in EntriesOf(i), e \in EntriesOf(j) :
                              /\ d[1] = e[1] /\ d[2] < e[2]
                              /\ ledger[d[1]][d[2]].amount = ledger[e[1]][e[2]].amount
                              /\ ledger[d[1]][d[2]].direction # ledger[e[1]][e[2]].direction
  BY DEF ReversedOnce
<1>1. Cardinality({j \in DOMAIN txs : IsSuccessfulReversalOf(txs[j], i)}) <= 1
  <2> DEFINE Reversals == {j \in DOMAIN txs : IsSuccessfulReversalOf(txs[j], i)}
  <2>1. CASE Reversals = {}
    BY <2>1, FS_EmptySet
  <2>2. ASSUME NEW j \in Reversals PROVE Cardinality(Reversals) <= 1
    <3>1. Reversals = {j}
      BY DEF ReversalInvariant, ReversalsAreDistinct
    <3>2. Cardinality({j}) = 1
      BY FS_Singleton
    <3>3. QED BY <3>1, <3>2
  <2>3. QED BY <2>1, <2>2
<1>2. ASSUME NEW j \in DOMAIN txs, IsSuccessfulReversalOf(txs[j], i)
      PROVE  /\ txs[i].status = "PROCESSED"
             /\ \A d \in EntriesOf(i), e \in EntriesOf(j) :
                  /\ d[1] = e[1] /\ d[2] < e[2]
                  /\ ledger[d[1]][d[2]].amount = ledger[e[1]][e[2]].amount
                  /\ ledger[d[1]][d[2]].direction # ledger[e[1]][e[2]].direction
  <2>1. /\ txs[i].status = "PROCESSED"
        /\ txs[i].req.wallet = txs[j].req.wallet /\ txs[i].req.amount = txs[j].req.amount
    BY <1>2, AcceptedReference DEF ReversalInvariant, RowsAreJustified, Justified, IsSuccessfulReversalOf
  <2>2. ASSUME NEW k, NEW d \in EntriesOf(k)
        PROVE  /\ d[1] \in Wallets /\ d[2] \in DOMAIN ledger[d[1]] /\ ledger[d[1]][d[2]].tx = k
               /\ d[1] = txs[k].req.wallet /\ ledger[d[1]][d[2]].amount = txs[k].req.amount
               /\ ledger[d[1]][d[2]].direction = DirectionOf(txs[k])
    <3>1. d[1] \in Wallets /\ d[2] \in DOMAIN ledger[d[1]] /\ ledger[d[1]][d[2]].tx = k
      BY <2>2 DEF EntriesOf
    <3>2. QED BY <3>1 DEF ReversalInvariant, EntriesAreRecorded
  <2>3. ASSUME NEW d \in EntriesOf(i), NEW e \in EntriesOf(j)
        PROVE  /\ d[1] = e[1] /\ d[2] < e[2]
               /\ ledger[d[1]][d[2]].amount = ledger[e[1]][e[2]].amount
               /\ ledger[d[1]][d[2]].direction # ledger[e[1]][e[2]].direction
    <3>1. d[1] = e[1]
      BY <2>1, <2>2, <2>3
    <3>2. d[2] < e[2]
      BY <1>2, <2>2, <2>3, <3>1 DEF ReversalInvariant, ReversalsAreDistinct
    <3>3. ledger[d[1]][d[2]].direction # ledger[e[1]][e[2]].direction
      BY <1>2, <2>2, <2>3, OppositeDirections
    <3>4. QED BY <2>1, <2>2, <2>3, <3>1, <3>2, <3>3
  <2>4. QED BY <2>1, <2>3
<1>3. QED BY <1>1, <1>2

-----------------------------------------------------------------------------
(* Waits.                                                                  *)

\* Whoever is waited for has got further than the one that waits.
LEMMA WaitsLookAhead ==
  ASSUME TypeOK, LockDiscipline, InboxDiscipline,
         NEW p \in Procs, NEW q \in Procs, WaitsFor(p, q)
  PROVE  \/ pc[p] = "recordInbox" /\ pc[q] \notin {"idle", "findInbox", "recordInbox"}
         \/ pc[p] = "lock" /\ pc[q] \in Deciding \cup {"return"}
         \/ pc[p] = "persist" /\ pc[q] = "return"
<1>1. CASE pc[p] = "recordInbox"
  BY <1>1 DEF WaitsFor, InboxDiscipline, RecordsInOrder
<1>2. CASE pc[p] = "lock"
  <2>1. holder[job[p].req.wallet] = q /\ job[p].req.wallet \in Wallets
    BY <1>2, RequestFields DEF WaitsFor, TypeOK, Job
  <2>2. QED BY <1>2, <2>1 DEF LockDiscipline
<1>3. CASE pc[p] = "persist"
  BY <1>3 DEF WaitsFor, InFlight
<1>4. QED BY <1>1, <1>2, <1>3 DEF WaitsFor

\* In any set of processes the one that has got furthest waits for none of them.
LEMMA FurthestGoesOn ==
  ASSUME TypeOK, LockDiscipline, InboxDiscipline, NEW S \in SUBSET Procs, S # {}
  PROVE  \E p \in S : \A q \in S : ~ WaitsFor(p, q)
<1>1. CASE \E p \in S : pc[p] \notin {"recordInbox", "lock", "persist"}
  BY <1>1, WaitsLookAhead
<1>2. CASE /\ \A p \in S : pc[p] \in {"recordInbox", "lock", "persist"}
           /\ \E p \in S : pc[p] = "persist"
  BY <1>2, WaitsLookAhead
<1>3. CASE /\ \A p \in S : pc[p] \in {"recordInbox", "lock"}
           /\ \E p \in S : pc[p] = "lock"
  BY <1>3, WaitsLookAhead DEF Deciding
<1>4. CASE \A p \in S : pc[p] = "recordInbox"
  BY <1>4, WaitsLookAhead
<1>5. QED BY <1>1, <1>2, <1>3, <1>4

LEMMA NobodyDeadlocks == TypeOK /\ LockDiscipline /\ InboxDiscipline => NoDeadlock
<1> SUFFICES ASSUME TypeOK, LockDiscipline, InboxDiscipline PROVE NoDeadlock
  OBVIOUS
<1>1. \A p, q \in Procs : WaitsFor(p, q) => pc[q] # "idle"
  BY WaitsLookAhead DEF Deciding
<1>2. QED BY <1>1, FurthestGoesOn DEF NoDeadlock

-----------------------------------------------------------------------------
(* Theorems.                                                               *)

LEMMA OutcomeInit == Init => OutcomeInvariant
<1> SUFFICES ASSUME Init PROVE OutcomeInvariant
  OBVIOUS
<1>1. /\ \A p \in Procs : pc[p] = "idle" /\ job[p] = NoJob /\ plan[p] = NoPlan
      /\ DOMAIN txs = {} /\ inbox = {}
      /\ \A w \in Wallets : DOMAIN ledger[w] = {}
      /\ \A r \in Requests : answers[r] = {}
  BY DEF Init
<1>2. NoPlan.write = "none" /\ NoPlan.direction = "NONE" /\ ~ NoJob.recorded
  BY DEF NoPlan, NoJob
<1>3. ReversalInvariant
  BY <1>1, <1>2 DEF ReversalInvariant, PlansAreJustified, OutcomeIsJustified, RowsAreJustified,
                    EntriesAreRecorded, ReversalsAreDistinct
<1>4. InboxDiscipline
  BY <1>1, <1>2 DEF InboxDiscipline, RecordsInOrder, Deciding
<1>5. EffectsAreCoveredByInbox /\ AnswersAreStored
  BY <1>1 DEF EffectsAreCoveredByInbox, AnswersAreStored, Replays
<1>6. QED BY <1>3, <1>4, <1>5 DEF OutcomeInvariant

LEMMA OutcomeNext ==
  TypeOK /\ LedgerInvariant /\ HistoryInvariant /\ OutcomeInvariant /\ [Next]_vars => OutcomeInvariant'
BY ReversalNext, RecordsNext, CoverageNext, AnswersNext DEF OutcomeInvariant

\* What is planned, committed, recorded and answered fits together at every
\* moment: reversals have a reference that accepts them and are alone, entries
\* record transactions, messages cover their effects, answers are stored
\* (apply, resume, recordInbox, replayOf and the commit that joins them).
THEOREM OutcomeInvariantCorrect == Spec => []OutcomeInvariant
<1>1. Init => OutcomeInvariant
  BY OutcomeInit
<1>2. TypeOK /\ LedgerInvariant /\ HistoryInvariant /\ OutcomeInvariant /\ [Next]_vars => OutcomeInvariant'
  BY OutcomeNext
<1>3. QED BY <1>1, <1>2, TypeCorrect, LedgerInvariantCorrect, HistoryInvariantCorrect, PTL DEF Spec

\* No operation is reversed twice, by whatever mix of REFUND and ROLLBACK,
\* HTTP and worker, and a reversal moves back in the same wallet, later, what
\* its reference moved (ADR-010; HasSuccessfulReversal under the wallet lock).
THEOREM ReversalCorrect == Spec => []ReversedOnce
<1>1. OutcomeInvariant => ReversedOnce
  BY ReversedOnceFollows DEF OutcomeInvariant
<1>2. QED BY <1>1, OutcomeInvariantCorrect, PTL

\* However often a request is sent, every terminal answer to it is the same and
\* the one that is stored (ADR-014; replayOf).
THEOREM AnswerCorrect == Spec => []OneOutcomePerRequest
<1>1. HistoryInvariant /\ OutcomeInvariant => OneOutcomePerRequest
  BY OneAnswer DEF OutcomeInvariant
<1>2. QED BY <1>1, HistoryInvariantCorrect, OutcomeInvariantCorrect, PTL

\* With messages as the only source, no operation exists without the inbox row
\* of the message that brought it, and a message id has one content, however
\* often and by however many consumers it is handled (ADR-006; handle_message.go).
THEOREM CoverageCorrect == Spec => []EffectsAreCoveredByInbox
<1>1. OutcomeInvariant => EffectsAreCoveredByInbox
  BY DEF OutcomeInvariant
<1>2. QED BY <1>1, OutcomeInvariantCorrect, PTL

\* For any number of calls, messages, workers and wallets, the inbox row, the
\* wallet lock and the unique indexes are waited for in one order, so no set of
\* units of work is stuck on itself (HandleWagerMessage, ProcessWagerTransaction
\* and ResolvePendingReferences inside UnitOfWork.Execute).
THEOREM NoDeadlockCorrect == Spec => []NoDeadlock
<1>1. TypeOK /\ LedgerInvariant /\ OutcomeInvariant => NoDeadlock
  BY NobodyDeadlocks DEF LedgerInvariant, OutcomeInvariant
<1>2. QED BY <1>1, TypeCorrect, LedgerInvariantCorrect, OutcomeInvariantCorrect, PTL
=============================================================================

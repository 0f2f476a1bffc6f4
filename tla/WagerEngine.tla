---------------------------- MODULE WagerEngine ----------------------------
(***************************************************************************)
(* The use cases of internal/application/usecase over PostgreSQL, one      *)
(* statement at a time: wallet opening, ProcessWagerTransaction called by  *)
(* HTTP goroutines (Sessions), HandleWagerMessage called by SQS consumers  *)
(* (Consumers) and ResolvePendingReferences called by the reference        *)
(* workers (Workers).                                                      *)
(*                                                                         *)
(* Every process runs one unit of work at a time.  What it has written is  *)
(* kept in plan[p] and becomes visible to the others at its commit (READ   *)
(* COMMITTED); what it holds before is the row lock of a wallet (FOR       *)
(* UPDATE), of a pending transaction (FOR UPDATE SKIP LOCKED), and the     *)
(* entries of the unique indexes its INSERTs have reached.  Tables are     *)
(* sequences in commit order, a row's position stands for its id.          *)
(***************************************************************************)
EXTENDS Wagering, Sequences, FiniteSets

CONSTANTS
  Sessions, Consumers, Workers,   \* goroutines, by what they run
  Messages,                       \* SQS envelopes: [id, body], body \in Requests
  OpeningBalances,                \* initial balances wallets may be opened with
  NoProc                          \* nobody holds the lock

Procs == Sessions \cup Consumers \cup Workers

ASSUME EngineAssumption ==
  /\ NoProc \notin Procs
  /\ Sessions \cap Consumers = {} /\ Sessions \cap Workers = {}
  /\ Consumers \cap Workers = {}
  /\ Requests # {}
  /\ OpeningBalances \subseteq 0..MaxMinor
  /\ \A m \in Messages : m.body \in Requests

VARIABLES
  wallets,     \* wallets[w]: [open, balance, version]
  txs,         \* wager_transactions, in commit order
  due,         \* the waiting rows whose next_retry_at has come, oldest first
  ledger,      \* ledger[w]: wallet_ledger_entries of w, in commit order
  outbox,      \* outbox_events, in commit order
  inbox,       \* inbox_messages: the committed [id, body] pairs
  holder,      \* holder[w]: the process whose FOR UPDATE holds wallet w
  pc,          \* pc[p]: the next statement of p's unit of work
  job,         \* job[p]: what p is working on
  view,        \* view[p]: the wallet as LockByID returned it
  plan,        \* plan[p]: p's uncommitted writes and its outcome
  answers      \* history: answers[r] the terminal results sent for r over HTTP

tables == <<wallets, txs, due, ledger, outbox, inbox>>
work == <<pc, job, view, plan>>
vars == <<wallets, txs, due, ledger, outbox, inbox, holder, pc, job, view, plan,
          answers>>

-----------------------------------------------------------------------------
(* State of a unit of work.                                                *)

Errors ==
  {"INVALID_INPUT", "MISSING_FIELD", "NOT_FOUND", "IDEMPOTENCY_KEY_CONFLICT",
   "OPERATION_ALREADY_APPLIED", "AMOUNT_OVERFLOW", "INBOX_PAYLOAD_MISMATCH", "DB_CONFLICT"}

PCs == {"idle", "findInbox", "recordInbox", "lock", "key", "ext", "ref",
        "reversed", "persist", "return"}

AnyRequest == CHOOSE r \in Requests : TRUE
NoRow == NewExternal(AnyRequest)

\* ret: "ok" or the error ExecuteIn returns; row: the transaction as the
\* domain object stands; write: how it was written; direction: of the movement.
NoPlan == [ret |-> "ok", write |-> "none", row |-> NoRow, direction |-> "NONE"]
Written(how, row, direction) ==
  [ret |-> "ok", write |-> how, row |-> row,
   direction |-> IF row.status = "PROCESSED" THEN direction ELSE "NONE"]
Failed(error) == [NoPlan EXCEPT !.ret = error]

\* msg: the envelope a consumer handles (Nil elsewhere); recorded: its inbox
\* INSERT succeeded; tx: the pending row a worker claimed; ref: the reference
\* found, 0 while unknown.
NoJob == [req |-> AnyRequest, msg |-> Nil, recorded |-> FALSE, tx |-> 0, ref |-> 0]

ClosedWallet == [open |-> FALSE, balance |-> 0, version |-> 0]

Wallet == [open : BOOLEAN, balance : 0..MaxMinor, version : Nat]
Entry == [tx : Nat, direction : {"CREDIT", "DEBIT"}, amount : 0..MaxMinor,
          before : 0..MaxMinor, after : 0..MaxMinor]
Event == [type : {"WagerTransactionPendingReference", "WagerTransactionRejected",
                  "WagerTransactionProcessed", "WalletBalanceChanged"},
          tx : Nat, version : Nat]
Answer == [status : Statuses, code : FailureCodes \cup {Nil}, balance : 0..MaxMinor]
Job == [req : StoredRequests, msg : {m.id : m \in Messages} \cup {Nil},
        recorded : BOOLEAN, tx : Nat, ref : Nat]
Plan == [ret : {"ok"} \cup Errors, write : {"none", "insert", "update"},
         row : Row, direction : Directions]

TypeOK ==
  /\ wallets \in [Wallets -> Wallet]
  /\ txs \in Seq(Row)
  /\ due \in Seq(Nat)
  /\ ledger \in [Wallets -> Seq(Entry)]
  /\ outbox \in Seq(Event)
  /\ inbox \subseteq [id : {m.id : m \in Messages} \cup {Nil}, body : StoredRequests]
  /\ holder \in [Wallets -> Procs \cup {NoProc}]
  /\ pc \in [Procs -> PCs]
  /\ job \in [Procs -> Job]
  /\ view \in [Procs -> Wallet]
  /\ plan \in [Procs -> Plan]
  /\ answers \in [Requests -> SUBSET Answer]

Init ==
  /\ wallets = [w \in Wallets |-> ClosedWallet]
  /\ txs = <<>>
  /\ due = <<>>
  /\ ledger = [w \in Wallets |-> <<>>]
  /\ outbox = <<>>
  /\ inbox = {}
  /\ holder = [w \in Wallets |-> NoProc]
  /\ pc = [p \in Procs |-> "idle"]
  /\ job = [p \in Procs |-> NoJob]
  /\ view = [p \in Procs |-> ClosedWallet]
  /\ plan = [p \in Procs |-> NoPlan]
  /\ answers = [r \in Requests |-> {}]

-----------------------------------------------------------------------------
(* Starting a unit of work.                                                *)

\* OpenWallet.Execute: the wallet, its OPENING transaction, entry and events
\* in one commit.  A second wallet of (player, currency) violates the unique
\* constraint and leaves nothing behind.
OpenWallet(w, initial) ==
  /\ ~ wallets[w].open
  /\ \A v \in Wallets : wallets[v].open => <<Holder[v], CurrencyOf[v]>> # <<Holder[w], CurrencyOf[w]>>
  /\ wallets' = [wallets EXCEPT ![w] = [open |-> TRUE, balance |-> initial, version |-> 1]]
  /\ IF initial = 0
       THEN UNCHANGED <<txs, ledger, outbox>>
       ELSE LET id == Len(txs) + 1 IN
            /\ txs' = Append(txs, MarkProcessed(NewExternal(OpeningRequest(w, initial)), 0, initial, 1))
            /\ ledger' = [ledger EXCEPT ![w] = Append(@,
                 [tx |-> id, direction |-> "CREDIT", amount |-> initial,
                  before |-> 0, after |-> initial])]
            /\ outbox' = outbox \o
                 <<[type |-> "WagerTransactionProcessed", tx |-> id, version |-> 1],
                   [type |-> "WalletBalanceChanged", tx |-> id, version |-> 1]>>
  /\ UNCHANGED <<due, inbox, holder, work, answers>>

Start(p, newJob, newPlan, first) ==
  /\ pc[p] = "idle"
  /\ job' = [job EXCEPT ![p] = newJob]
  /\ plan' = [plan EXCEPT ![p] = newPlan]
  /\ pc' = [pc EXCEPT ![p] = first]
  /\ UNCHANGED <<tables, holder, view, answers>>

\* An HTTP call of ProcessWagerTransaction.Execute, new or retried.  The handler
\* refuses one without an Idempotency-Key itself.
Submit(p, r) ==
  /\ r.key # Nil
  /\ Start(p, [NoJob EXCEPT !.req = r], [NoPlan EXCEPT !.row = NewExternal(r)], "lock")

\* A delivery, first or repeated, of an SQS message to HandleWagerMessage.
Deliver(p, m) ==
  Start(p, [NoJob EXCEPT !.req = m.body, !.msg = m.id],
        [NoPlan EXCEPT !.row = NewExternal(m.body)], "findInbox")

\* Without FOR UPDATE SKIP LOCKED two workers take one row.
ClaimableTwice(i) == txs[i].status = "PENDING_REFERENCE"
Claimable(i) ==
  /\ txs[i].status = "PENDING_REFERENCE"
  /\ \A q \in Workers : pc[q] # "idle" => job[q].tx # i

\* now passes the next_retry_at of row i: the moment it was created, or the
\* backoff after a retry.  A row whose unit of work was slow to commit takes
\* the place its next_retry_at gives it, before rows that are already due.
BecomesDue(i) ==
  /\ txs[i].status = "PENDING_REFERENCE"
  /\ \A k \in DOMAIN due : due[k] # i
  /\ \E k \in 0..Len(due) :
       due' = SubSeq(due, 1, k) \o <<i>> \o SubSeq(due, k + 1, Len(due))
  /\ UNCHANGED <<wallets, txs, ledger, outbox, inbox, holder, work, answers>>

\* The n-th due row is the oldest that no other worker has locked.
FirstClaimable(n) ==
  /\ Claimable(due[n])
  /\ \A k \in 1..(n - 1) : ~ Claimable(due[k])

\* ClaimPendingReferences: ORDER BY next_retry_at LIMIT 1 FOR UPDATE SKIP LOCKED.
Claim(p, i) ==
  /\ \E n \in DOMAIN due : due[n] = i /\ FirstClaimable(n)
  /\ Start(p, [NoJob EXCEPT !.req = txs[i].req, !.tx = i],
           [NoPlan EXCEPT !.row = txs[i]], "lock")

-----------------------------------------------------------------------------
(* Statements of a unit of work.                                           *)

Goto(p, next) == pc' = [pc EXCEPT ![p] = next]
Finish(p, outcome) ==
  /\ plan' = [plan EXCEPT ![p] = outcome]
  /\ pc' = [pc EXCEPT ![p] = "return"]
Write(p, outcome) ==
  /\ plan' = [plan EXCEPT ![p] = outcome]
  /\ pc' = [pc EXCEPT ![p] = "persist"]

\* A committed inbox row of p's message decides its delivery.
SeenBefore(p) ==
  \E seen \in inbox :
    /\ seen.id = job[p].msg
    /\ Finish(p, IF seen.body = job[p].req THEN NoPlan ELSE Failed("INBOX_PAYLOAD_MISMATCH"))
Unseen(p) == \A seen \in inbox : seen.id # job[p].msg

FindInbox(p) ==
  /\ pc[p] = "findInbox"
  /\ \/ SeenBefore(p)
     \/ Unseen(p) /\ Goto(p, "recordInbox") /\ UNCHANGED plan
  /\ UNCHANGED <<tables, holder, job, view, answers>>

\* The INSERT of the inbox row left out.
RecordNothing(p) ==
  /\ pc[p] = "recordInbox"
  /\ Goto(p, "lock")
  /\ UNCHANGED <<tables, holder, job, plan, view, answers>>

\* INSERT ... ON CONFLICT DO NOTHING waits for a concurrent insert of the
\* same message id, and finds its row if that one commits.
RecordInbox(p) ==
  /\ pc[p] = "recordInbox"
  /\ \A q \in Consumers \ {p} : ~ (job[q].recorded /\ job[q].msg = job[p].msg)
  /\ \/ SeenBefore(p) /\ UNCHANGED job
     \/ /\ Unseen(p)
        /\ job' = [job EXCEPT ![p].recorded = TRUE]
        /\ Goto(p, "lock")
        /\ UNCHANGED plan
  /\ UNCHANGED <<tables, holder, view, answers>>

\* A SELECT without FOR UPDATE, by anyone or by the workers alone.
NeverLocked(w) == TRUE
LockedBySessions(w) == \A p \in Sessions \cup Consumers : holder[w] # p
Lockable(w) == holder[w] = NoProc

\* A worker takes its request from a stored row; a command is parsed first.
Parses(p) == p \in Workers \/ Valid(job[p].req)

\* parse, then Wallets().LockByID: SELECT ... FOR UPDATE.
LockWallet(p) ==
  LET w == job[p].req.wallet IN
  /\ pc[p] = "lock"
  /\ \/ /\ ~ Parses(p)
        /\ Finish(p, Failed("INVALID_INPUT"))
        /\ UNCHANGED <<holder, view>>
     \/ /\ Parses(p) /\ ~ wallets[w].open
        /\ Finish(p, Failed("NOT_FOUND"))
        /\ UNCHANGED <<holder, view>>
     \/ /\ Parses(p) /\ wallets[w].open
        /\ Lockable(w)
        /\ holder' = [holder EXCEPT ![w] = p]
        /\ view' = [view EXCEPT ![p] = wallets[w]]
        /\ Goto(p, IF p \in Workers THEN "ref" ELSE "key")
        /\ UNCHANGED plan
  /\ UNCHANGED <<tables, job, answers>>

\* replayOf returns the stored row with its frozen result; the variant reads
\* the wallet instead.
ReplayOfToday(p, i) == [NoPlan EXCEPT !.row = [txs[i] EXCEPT !.balance = view[p].balance]]
ReplayOf(p, i) == [NoPlan EXCEPT !.row = txs[i]]

\* findReplay, first query: the key decides between replay and conflict.
FindByIdempotencyKey(p) ==
  LET r == job[p].req
      sameKey == {i \in DOMAIN txs : txs[i].req.key = r.key} IN
  /\ pc[p] = "key"
  /\ \/ sameKey = {} /\ Goto(p, "ext") /\ UNCHANGED plan
     \/ \E i \in sameKey :
          Finish(p, IF txs[i].req = r THEN ReplayOf(p, i)
                                      ELSE Failed("IDEMPOTENCY_KEY_CONFLICT"))
  /\ UNCHANGED <<tables, holder, job, view, answers>>

\* move: overflow is an error, insufficient funds a rejection.
Move(p, how, reference, direction) ==
  IF Overflows(direction, view[p].balance, plan[p].row.req.amount)
    THEN Finish(p, Failed("AMOUNT_OVERFLOW"))
    ELSE Write(p, Written(how, Moved(plan[p].row, reference, direction,
                                     view[p].balance, view[p].version), direction))

\* findReplay, second query, then apply up to the reference lookup: NewExternal
\* may lack a field, and the wallet may be another player's or currency's.
FindByExternalID(p) ==
  LET r == job[p].req
      sameExt == {i \in DOMAIN txs : txs[i].req.ext = r.ext} IN
  /\ pc[p] = "ext"
  /\ \/ sameExt # {} /\ Finish(p, Failed("OPERATION_ALREADY_APPLIED"))
     \/ /\ sameExt = {} /\ ~ Complete(r)
        /\ Finish(p, Failed("MISSING_FIELD"))
     \/ /\ sameExt = {} /\ Complete(r)
        /\ \/ /\ Holder[r.wallet] # r.player
              /\ Write(p, Written("insert", Reject(plan[p].row, "WALLET_PLAYER_MISMATCH"), "NONE"))
           \/ /\ Holder[r.wallet] = r.player /\ CurrencyOf[r.wallet] # r.currency
              /\ Write(p, Written("insert", Reject(plan[p].row, "CURRENCY_MISMATCH"), "NONE"))
           \/ /\ Holder[r.wallet] = r.player /\ CurrencyOf[r.wallet] = r.currency
              /\ IF IsReversal(r.kind)
                   THEN Goto(p, "ref") /\ UNCHANGED plan
                   ELSE Move(p, "insert", 0, DirectDirection(r.kind))
  /\ UNCHANGED <<tables, holder, job, view, answers>>

\* waitOrExpire: late is whether createdAt + TTL has passed by now; any time
\* may have gone by since the row was created.
WaitOrExpire(p) ==
  \E late \in BOOLEAN :
    Write(p, Written("update",
               IF late \/ plan[p].row.attempts + 1 >= MaxAttempts
                 THEN Reject(plan[p].row, "REFERENCE_NOT_FOUND")
                 ELSE ScheduleReferenceRetry(plan[p].row), "NONE"))

How(p) == IF p \in Workers THEN "update" ELSE "insert"

\* FindByExternalID of the reference, without and with the IsTerminal test.
AnyRows(ext) == {i \in DOMAIN txs : txs[i].req.ext = ext}
SettledRows(ext) == {i \in DOMAIN txs : txs[i].req.ext = ext /\ IsTerminal(txs[i].status)}

\* applyReversal and resume: the lookup of the reference and its eligibility.
FindReference(p) ==
  LET r == job[p].req
      settled == SettledRows(r.ref) IN
  /\ pc[p] = "ref"
  /\ \/ /\ settled = {}
        /\ IF p \in Workers
             THEN WaitOrExpire(p)
             ELSE Write(p, Written("insert", MarkPendingReference(plan[p].row), "NONE"))
        /\ UNCHANGED job
     \/ \E i \in settled :
          LET refusal == ReversalRejection(txs[i], r) IN
          IF refusal # Nil
            THEN Write(p, Written(How(p), Reject(plan[p].row, refusal), "NONE")) /\ UNCHANGED job
            ELSE /\ job' = [job EXCEPT ![p].ref = i]
                 /\ Goto(p, "reversed")
                 /\ UNCHANGED plan
  /\ UNCHANGED <<tables, holder, view, answers>>

IsSuccessfulReversalOf(row, i) ==
  row.refTx = i /\ IsReversal(row.req.kind) /\ row.status = "PROCESSED"
\* The partial unique index of the schema alone: one reversal of each kind.
HasRefund(i) == \E j \in DOMAIN txs : IsSuccessfulReversalOf(txs[j], i) /\ txs[j].req.kind = "REFUND"
HasSuccessfulReversal(i) == \E j \in DOMAIN txs : IsSuccessfulReversalOf(txs[j], i)

\* HasSuccessfulReversal, ResolveReference and the movement back.
CheckReversed(p) ==
  /\ pc[p] = "reversed"
  /\ IF HasSuccessfulReversal(job[p].ref)
       THEN Write(p, Written(How(p), Reject(plan[p].row, "DUPLICATE_REVERSAL"), "NONE"))
       ELSE Move(p, How(p), job[p].ref, ReversalDirection(txs[job[p].ref].req.kind))
  /\ UNCHANGED <<tables, holder, job, view, answers>>

\* Keys and external ids that are unique within a wallet only.
ClashInWallet(a, b) ==
  /\ a.req.wallet = b.req.wallet
  /\ a.req.key = b.req.key \/ a.req.ext = b.req.ext

\* Two rows no unique index admits together.
Clash(a, b) ==
  \/ a.req.key = b.req.key
  \/ a.req.ext = b.req.ext
  \/ /\ IsSuccessfulReversalOf(a, b.refTx) /\ IsSuccessfulReversalOf(b, a.refTx)
     /\ a.req.kind = b.req.kind
InFlight(q) == pc[q] = "return" /\ plan[q].write # "none"

\* Uniqueness tested on committed rows only.
PersistAtOnce(p) ==
  LET row == plan[p].row IN
  /\ pc[p] = "persist"
  /\ IF \/ \E i \in DOMAIN txs \ {job[p].tx} : Clash(txs[i], row)
        \/ row.req.currency # CurrencyOf[row.req.wallet]
       THEN Finish(p, Failed("DB_CONFLICT"))
       ELSE Goto(p, "return") /\ UNCHANGED plan
  /\ UNCHANGED <<tables, holder, job, view, answers>>

\* Create or Update of the row, the entry, the balance and the events.  The
\* statement waits for an uncommitted clashing row; a committed one, or the
\* (wallet_id, amount_currency) foreign key, aborts the database transaction.
Persist(p) ==
  LET row == plan[p].row IN
  /\ pc[p] = "persist"
  /\ \A q \in Procs \ {p} : ~ (InFlight(q) /\ Clash(plan[q].row, row))
  /\ IF \/ \E i \in DOMAIN txs \ {job[p].tx} : Clash(txs[i], row)
        \/ row.req.currency # CurrencyOf[row.req.wallet]
       THEN Finish(p, Failed("DB_CONFLICT"))
       ELSE Goto(p, "return") /\ UNCHANGED plan
  /\ UNCHANGED <<tables, holder, job, view, answers>>

-----------------------------------------------------------------------------
(* The end of a unit of work.                                              *)

\* UnitOfWork.Execute commits when its function returns no error.  Handle
\* turns a permanent error into none, so that the inbox row is committed; the
\* commit itself fails when a statement has aborted the database transaction.
Permanent == {"INVALID_INPUT", "MISSING_FIELD", "NOT_FOUND", "IDEMPOTENCY_KEY_CONFLICT",
              "OPERATION_ALREADY_APPLIED", "AMOUNT_OVERFLOW"}
Commits(p) ==
  \/ plan[p].ret = "ok"
  \/ p \in Consumers /\ plan[p].ret \in Permanent

\* A unit of work that wrote nothing goes back without ending its transaction.
ReleaseAfterWrites(p) ==
  /\ holder' = [w \in Wallets |->
       IF holder[w] = p /\ plan[p].write # "none" THEN NoProc ELSE holder[w]]
  /\ pc' = [pc EXCEPT ![p] = "idle"]
  /\ job' = [job EXCEPT ![p] = NoJob]
  /\ view' = [view EXCEPT ![p] = ClosedWallet]
  /\ plan' = [plan EXCEPT ![p] = NoPlan]
Release(p) ==
  /\ holder' = [w \in Wallets |-> IF holder[w] = p THEN NoProc ELSE holder[w]]
  /\ pc' = [pc EXCEPT ![p] = "idle"]
  /\ job' = [job EXCEPT ![p] = NoJob]
  /\ view' = [view EXCEPT ![p] = ClosedWallet]
  /\ plan' = [plan EXCEPT ![p] = NoPlan]

TxId(p) == IF plan[p].write = "insert" THEN Len(txs) + 1 ELSE job[p].tx
\* An entry that names the reference instead of the reversal.
MovementOfReference(p) ==
  [tx |-> IF job[p].ref = 0 THEN TxId(p) ELSE job[p].ref,
   direction |-> plan[p].direction, amount |-> plan[p].row.req.amount,
   before |-> view[p].balance, after |-> plan[p].row.balance]
Movement(p) ==
  [tx |-> TxId(p), direction |-> plan[p].direction, amount |-> plan[p].row.req.amount,
   before |-> view[p].balance, after |-> plan[p].row.balance]
\* ScheduleReferenceRetry announcing the wait again.
EventsEveryTime(p) ==
  LET types == EventsOf(plan[p].row, plan[p].direction) IN
  [k \in DOMAIN types |->
     [type |-> types[k], tx |-> TxId(p), version |-> plan[p].row.version]]
Events(p) ==
  IF plan[p].write = "update" /\ plan[p].row.status = "PENDING_REFERENCE"
    THEN <<>>
    ELSE LET types == EventsOf(plan[p].row, plan[p].direction) IN
         [k \in DOMAIN types |->
            [type |-> types[k], tx |-> TxId(p), version |-> plan[p].row.version]]

\* A row that is settled or rescheduled is not due any more.
Later(i) ==
  LET at == CHOOSE k \in DOMAIN due : due[k] = i IN
  IF \E k \in DOMAIN due : due[k] = i
    THEN SubSeq(due, 1, at - 1) \o SubSeq(due, at + 1, Len(due)) ELSE due

\* The effects of p become visible.
Apply(p) ==
  LET w == job[p].req.wallet
      row == plan[p].row
      moves == plan[p].direction # "NONE" IN
  /\ txs' = CASE plan[p].write = "insert" -> Append(txs, row)
              [] plan[p].write = "update" -> [txs EXCEPT ![job[p].tx] = row]
              [] OTHER -> txs
  /\ due' = IF plan[p].write = "update" THEN Later(job[p].tx) ELSE due
  /\ ledger' = IF moves THEN [ledger EXCEPT ![w] = Append(@, Movement(p))] ELSE ledger
  /\ wallets' = IF moves
       THEN [wallets EXCEPT ![w] = [open |-> TRUE, balance |-> row.balance, version |-> row.version]]
       ELSE wallets
  /\ outbox' = IF plan[p].write = "none" THEN outbox ELSE outbox \o Events(p)
  /\ inbox' = IF job[p].recorded
       THEN inbox \cup {[id |-> job[p].msg, body |-> job[p].req]} ELSE inbox

AnswerOf(row) == [status |-> row.status, code |-> row.code, balance |-> row.balance]

\* answers keeps the terminal results only: 202 (PENDING_REFERENCE) is no
\* outcome.  A result lost on its way to the caller is one answer less.
Commit(p) ==
  /\ pc[p] = "return" /\ Commits(p)
  /\ Apply(p)
  /\ Release(p)
  /\ answers' = IF p \in Sessions /\ IsTerminal(plan[p].row.status)
       THEN [answers EXCEPT ![job[p].req] = @ \cup {AnswerOf(plan[p].row)}] ELSE answers

Rollback(p) ==
  /\ pc[p] = "return" /\ ~ Commits(p)
  /\ Release(p)
  /\ UNCHANGED <<tables, answers>>

\* The inbox row committed in a transaction of its own, before the work.
CrashAfterInbox(p) ==
  /\ pc[p] # "idle"
  /\ inbox' = IF job[p].recorded
       THEN inbox \cup {[id |-> job[p].msg, body |-> job[p].req]} ELSE inbox
  /\ Release(p)
  /\ UNCHANGED <<wallets, txs, due, ledger, outbox, answers>>

\* The process dies, its context is cancelled or a statement fails: PostgreSQL
\* rolls the transaction back.
Crash(p) ==
  /\ pc[p] # "idle"
  /\ Release(p)
  /\ UNCHANGED <<tables, answers>>

Step(p) ==
  \/ FindInbox(p) \/ RecordInbox(p) \/ LockWallet(p)
  \/ FindByIdempotencyKey(p) \/ FindByExternalID(p) \/ FindReference(p)
  \/ CheckReversed(p) \/ Persist(p) \/ Commit(p) \/ Rollback(p)

Next ==
  \/ \E w \in Wallets, b \in OpeningBalances : OpenWallet(w, b)
  \/ \E p \in Sessions, r \in Requests : Submit(p, r)
  \/ \E p \in Consumers, m \in Messages : Deliver(p, m)
  \/ \E i \in DOMAIN txs : BecomesDue(i)
  \/ \E p \in Workers, i \in DOMAIN txs : Claim(p, i)
  \/ \E p \in Procs : Step(p)
  \/ \E p \in Procs : Crash(p)

Spec == Init /\ [][Next]_vars

\* PostgreSQL queues the waiters of a lock and of an index entry, so a
\* statement that becomes possible again and again is executed; time passes, so
\* that every next_retry_at comes; the reference worker polls for ever and takes
\* what its query returns, the oldest due row, whichever that is; crashes stop
\* in the end (a crash that does what the next step does anyway is no crash).
TxBound == Cardinality(Requests) + Cardinality(Wallets)
Fairness ==
  /\ \A p \in Procs : SF_vars(Step(p))
  /\ \A i \in 1..TxBound : WF_vars(i \in DOMAIN txs /\ BecomesDue(i))
  /\ \A p \in Workers : SF_vars(\E i \in DOMAIN txs : Claim(p, i))
  /\ <>[][\A p \in Procs : Crash(p) => Step(p)]_vars
FairSpec == Spec /\ Fairness

-----------------------------------------------------------------------------
(* Safety.                                                                 *)

\* es is a chain of balances from 0 to balance.
Backs(es, balance) ==
  /\ \A k \in DOMAIN es :
       /\ es[k].before = (IF k = 1 THEN 0 ELSE es[k - 1].after)
       /\ es[k].after = BalanceAfter(es[k].direction, es[k].before, es[k].amount)
  /\ balance = (IF es = <<>> THEN 0 ELSE es[Len(es)].after)

\* The ledger of a wallet is an unbroken chain of balances that ends in the
\* wallet's balance (ledger/entry.go, UnitOfWork.Execute): no interleaving of
\* HTTP calls, messages and workers loses an update or leaves a balance that
\* no entry explains.
LedgerBacksBalance == \A w \in Wallets : Backs(ledger[w], wallets[w].balance)

\* A unit of work that holds the row lock of a wallet has read its committed
\* state: what it computes from its copy (UpdateBalance has no version
\* predicate) is computed from the current balance.
SnapshotIsCurrent ==
  \A p \in Procs, w \in Wallets : holder[w] = p => view[p] = wallets[w]

\* The strengthening that makes LedgerBacksBalance inductive: who holds a
\* wallet is past LockByID on it; who is deciding holds its wallet; a planned
\* movement starts from the copy of the wallet its process still holds; and a
\* wallet that is not open has no history.  If it fails, an update can be lost.
Deciding == {"key", "ext", "ref", "reversed", "persist"}
LockDiscipline ==
  \A p \in Procs :
    /\ \A w \in Wallets : holder[w] = p =>
         pc[p] \in Deciding \cup {"return"} /\ job[p].req.wallet = w
    /\ pc[p] \in Deciding => holder[job[p].req.wallet] = p
PlannedMovements ==
  \A p \in Procs : plan[p].direction # "NONE" =>
    /\ pc[p] \in {"persist", "return"}
    /\ holder[job[p].req.wallet] = p
    /\ plan[p].row.balance =
         BalanceAfter(plan[p].direction, view[p].balance, plan[p].row.req.amount)
ClosedIsUntouched ==
  \A w \in Wallets : ~ wallets[w].open => ledger[w] = <<>> /\ holder[w] = NoProc
LedgerInvariant ==
  /\ LockDiscipline
  /\ SnapshotIsCurrent
  /\ PlannedMovements
  /\ ClosedIsUntouched
  /\ LedgerBacksBalance

EntriesOf(i) == {e \in UNION {{<<w, k>> : k \in DOMAIN ledger[w]} : w \in Wallets} :
                   ledger[e[1]][e[2]].tx = i}

\* The version w had before its first entry: an OPENING entry is the first
\* version, a wallet opened empty has one without an entry.
VersionBefore(w) ==
  IF ledger[w] # <<>> /\ txs[ledger[w][1].tx].req.kind = "OPENING" THEN 0 ELSE 1

\* A PROCESSED operation that moves money has exactly one entry, in its own
\* wallet, with its amount and its frozen result balance; every other
\* transaction, pending, rejected or LOSS, has none.  With a version that
\* counts the movements, a replay returns a balance the ledger confirms.
EntryPerMovement ==
  \A i \in DOMAIN txs :
    LET row == txs[i]
        w   == row.req.wallet IN
    IF row.status = "PROCESSED" /\ row.req.kind # "LOSS"
      THEN \E k \in DOMAIN ledger[w] :
             /\ EntriesOf(i) = {<<w, k>>}
             /\ ledger[w][k].amount = row.req.amount
             /\ ledger[w][k].after = row.balance
             /\ row.version = k + VersionBefore(w)
      ELSE EntriesOf(i) = {}

\* No operation is reversed twice, by whatever mix of REFUND and ROLLBACK,
\* HTTP and worker (ADR-010; HasSuccessfulReversal under the wallet lock), and
\* a successful reversal gives back exactly what its reference moved.
ReversedOnce ==
  \A i \in DOMAIN txs :
    /\ Cardinality({j \in DOMAIN txs : IsSuccessfulReversalOf(txs[j], i)}) <= 1
    /\ \A j \in DOMAIN txs : IsSuccessfulReversalOf(txs[j], i) =>
         /\ txs[i].status = "PROCESSED"
         /\ \A d \in EntriesOf(i), e \in EntriesOf(j) :
              /\ d[1] = e[1] /\ d[2] < e[2]
              /\ ledger[d[1]][d[2]].amount = ledger[e[1]][e[2]].amount
              /\ ledger[d[1]][d[2]].direction # ledger[e[1]][e[2]].direction

\* An idempotency key and an external id name one transaction for ever, also
\* when the same operation arrives at once for two wallets, where no common
\* lock orders the two calls (the unique indexes of the schema).
OneOperationPerIdentity ==
  \A i, j \in DOMAIN txs :
    i # j /\ txs[i].req.key # Nil =>
      txs[i].req.key # txs[j].req.key /\ txs[i].req.ext # txs[j].req.ext

\* Every terminal answer a provider gets for a request, first or replayed, is
\* the one that is stored (ADR-014; replayOf): retries, crashes and a worker
\* that settles the row in between never show two outcomes.
OneOutcomePerRequest ==
  \A r \in Requests :
    \A a \in answers[r] :
      /\ \E i \in DOMAIN txs : txs[i].req = r /\ a = AnswerOf(txs[i])
      /\ answers[r] = {a}

\* The elements of s at the positions in S, in their order.
Chosen(s, S) ==
  LET upTo[n \in 0..Len(s)] ==
        IF n = 0 THEN <<>>
        ELSE IF n \in S THEN Append(upTo[n - 1], s[n]) ELSE upTo[n - 1]
  IN upTo[Len(s)]

TypesOfTx(i) ==
  LET mine == Chosen(outbox, {k \in DOMAIN outbox : outbox[k].tx = i}) IN
  [k \in DOMAIN mine |-> mine[k].type]
ChangesOf(w) ==
  Chosen(outbox, {k \in DOMAIN outbox :
    outbox[k].type = "WalletBalanceChanged" /\ txs[outbox[k].tx].req.wallet = w})

\* The outbox tells the life of every transaction, each part once and in
\* order: an optional wait, then its outcome, and the balance change that the
\* ledger records (outbox_events.go, same commit as the state they announce).
OutboxTellsTheLife ==
  /\ \A i \in DOMAIN txs :
       LET outcome == EventsOf(txs[i], IF EntriesOf(i) = {} THEN "NONE" ELSE "CREDIT") IN
       TypesOfTx(i) \in {outcome, <<"WagerTransactionPendingReference">> \o outcome}
  /\ \A i \in DOMAIN txs : txs[i].status = "PENDING_REFERENCE" =>
       TypesOfTx(i) = <<"WagerTransactionPendingReference">>
  /\ \A w \in Wallets :
       LET changes == ChangesOf(w) IN
       /\ [k \in DOMAIN changes |-> changes[k].tx] = [k \in DOMAIN ledger[w] |-> ledger[w][k].tx]
       /\ \A k \in DOMAIN changes : changes[k].version = changes[1].version + k - 1

\* With messages as the only source of operations, a recorded operation is
\* always covered by an inbox row with its content, and a message id has one
\* content: inbox and effect share a commit (ADR-006; handle_message.go).
EffectsAreCoveredByInbox ==
  /\ \A a, b \in inbox : a.id = b.id => a = b
  /\ Sessions = {} =>
       \A i \in DOMAIN txs : txs[i].req.kind # "OPENING" =>
         \E m \in inbox : m.body = txs[i].req

\* A message is never dropped without a reason: its inbox row is committed with
\* its operation, or the tables of that instant refuse the command for good
\* (handle_message.go, isTransientMessageError).  Its identity is taken, it is
\* invalid, or its amount overflows; only a wallet that was missing may have
\* been opened since.
RefusalsHaveAReason ==
  [][\A m \in inbox' \ inbox :
       \/ \E i \in DOMAIN txs' : txs'[i].req.key = m.body.key \/ txs'[i].req.ext = m.body.ext
       \/ ~ Valid(m.body) \/ ~ Complete(m.body)
       \/ m.body.kind # "BET" /\ Overflows("CREDIT", wallets[m.body.wallet].balance, m.body.amount)
       \/ \E p \in Consumers :
            job[p].recorded /\ job[p].msg = m.id /\ plan[p].ret = "NOT_FOUND"]_inbox

\* A row only ever waits or settles, and a settled row never changes again:
\* two workers, or a worker and a retry, cannot settle it twice.
Settles(before, after) ==
  /\ after.req = before.req
  /\ \/ after.status \in {"PROCESSED", "REJECTED"}
     \/ after = ScheduleReferenceRetry(before)
SettledForGood ==
  [][\A i \in DOMAIN txs :
       /\ i \in DOMAIN txs'
       /\ txs'[i] # txs[i] => txs[i].status = "PENDING_REFERENCE" /\ Settles(txs[i], txs'[i])]_txs

\* The strengthening of OneOperationPerIdentity and SettledForGood: a worker has
\* a waiting row of its own, and what it is about to write settles that very
\* row; everybody else is about to write the request it was handed, once parse and
\* NewExternal have let it through, as they have every stored one; and a row
\* that waits for its commit has an identity nobody else has or is about to
\* commit.  If it fails, a row is settled twice or an operation exists twice.
RowsAreClaimed ==
  \A p \in Workers : pc[p] # "idle" =>
    /\ job[p].tx \in DOMAIN txs
    /\ txs[job[p].tx].status = "PENDING_REFERENCE"
    /\ txs[job[p].tx].req = job[p].req
    /\ \A q \in Workers : pc[q] # "idle" /\ job[q].tx = job[p].tx => q = p
    /\ pc[p] \in {"lock", "ref", "reversed"} => plan[p].write = "none" /\ plan[p].row = txs[job[p].tx]
    /\ plan[p].write \in {"none", "update"}
    /\ plan[p].write = "update" => Settles(txs[job[p].tx], plan[p].row)
    /\ pc[p] \in {"lock", "ref", "reversed", "persist", "return"}
LetThrough(p) ==
  /\ pc[p] \in Deciding => Valid(job[p].req)
  /\ pc[p] \in {"ref", "reversed"} \/ plan[p].write = "insert" =>
       Valid(job[p].req) /\ Complete(job[p].req)
RequestsAreCarried ==
  \A p \in Sessions \cup Consumers :
    /\ job[p].req \in Requests /\ job[p].tx = 0
    /\ pc[p] \notin {"idle", "persist", "return"} => plan[p].write = "none" /\ plan[p].row.req = job[p].req
    /\ plan[p].write \in {"none", "insert"}
    /\ plan[p].write = "insert" => plan[p].row.req = job[p].req
    /\ LetThrough(p)
StoredRowsAreValid ==
  \A i \in DOMAIN txs :
    txs[i].req.kind # "OPENING" => Valid(txs[i].req) /\ Complete(txs[i].req)
SameIdentity(a, b) == a.req.key = b.req.key \/ a.req.ext = b.req.ext
InsertsAreNew ==
  \A p \in Sessions \cup Consumers : InFlight(p) =>
    /\ \A i \in DOMAIN txs : ~ SameIdentity(txs[i], plan[p].row)
    /\ \A q \in (Sessions \cup Consumers) \ {p} :
         InFlight(q) => ~ SameIdentity(plan[q].row, plan[p].row)
HistoryInvariant ==
  /\ RowsAreClaimed
  /\ RequestsAreCarried
  /\ StoredRowsAreValid
  /\ InsertsAreNew
  /\ OneOperationPerIdentity

\* The strengthening of ReversedOnce: a reversal that goes ahead, planned or
\* committed, has a settled reference that accepts it; while it is planned no
\* other one is committed, and every entry records its transaction.
Accepted(i, r) == i \in DOMAIN txs /\ ReversalRejection(txs[i], r) = Nil
DirectionOf(row) ==
  IF IsReversal(row.req.kind) THEN ReversalDirection(txs[row.refTx].req.kind)
  ELSE IF row.req.kind = "OPENING" THEN "CREDIT" ELSE DirectDirection(row.req.kind)
Justified(row) ==
  /\ row.status = "PENDING_REFERENCE" => IsReversal(row.req.kind)
  /\ row.status = "PROCESSED" /\ IsReversal(row.req.kind) => Accepted(row.refTx, row.req)
OutcomeIsJustified(outcome) ==
  LET row == outcome.row
      succeeds == outcome.write # "none" /\ row.status = "PROCESSED" IN
  /\ outcome.write # "none" => Justified(row)
  /\ outcome.direction = IF succeeds THEN DirectionOf(row) ELSE "NONE"
  /\ succeeds /\ IsReversal(row.req.kind) => ~ HasSuccessfulReversal(row.refTx)
PlansAreJustified ==
  \A p \in Procs :
    /\ pc[p] \in {"ref", "reversed"} => IsReversal(job[p].req.kind)
    /\ pc[p] = "reversed" => Accepted(job[p].ref, job[p].req)
    /\ OutcomeIsJustified(plan[p])
RowsAreJustified == \A i \in DOMAIN txs : Justified(txs[i])
EntriesAreRecorded ==
  \A w \in Wallets : \A k \in DOMAIN ledger[w] :
    LET i == ledger[w][k].tx IN
    /\ i \in DOMAIN txs /\ txs[i].status = "PROCESSED" /\ txs[i].req.wallet = w
    /\ ledger[w][k].amount = txs[i].req.amount
    /\ ledger[w][k].direction = DirectionOf(txs[i])
ReversalsAreDistinct ==
  \A i, j \in DOMAIN txs : IsSuccessfulReversalOf(txs[j], i) =>
    /\ \A k \in DOMAIN txs : IsSuccessfulReversalOf(txs[k], i) => k = j
    /\ \A w \in Wallets : \A d, e \in DOMAIN ledger[w] :
         ledger[w][d].tx = i /\ ledger[w][e].tx = j => d < e
ReversalInvariant ==
  /\ PlansAreJustified
  /\ RowsAreJustified
  /\ EntriesAreRecorded
  /\ ReversalsAreDistinct

\* The strengthening of EffectsAreCoveredByInbox: who writes for a message has
\* recorded it, and nobody else has that message recorded or committed.
RecordsInOrder(p) ==
  /\ p \notin Consumers => ~ job[p].recorded /\ pc[p] \notin {"findInbox", "recordInbox"}
  /\ p \in Consumers /\ (pc[p] \in Deciding \cup {"lock"} \/ plan[p].write # "none") =>
       job[p].recorded
  /\ job[p].recorded => pc[p] \notin {"idle", "findInbox", "recordInbox"} /\ Unseen(p)
InboxDiscipline ==
  /\ \A p \in Procs : RecordsInOrder(p)
  /\ \A p, q \in Procs : job[p].recorded /\ job[q].recorded /\ job[p].msg = job[q].msg => p = q

\* The strengthening of OneOutcomePerRequest: a terminal result that is sent or
\* about to be sent without a write is a stored one, and settled.
Replays(p) ==
  pc[p] = "return" /\ plan[p].write = "none" /\ IsTerminal(plan[p].row.status)
AnswersAreStored ==
  /\ \A p \in Procs : pc[p] = "persist" => plan[p].write # "none"
  /\ \A p \in Procs : Replays(p) =>
       plan[p].row.req = job[p].req /\ \E i \in DOMAIN txs : txs[i] = plan[p].row
  /\ \A r \in Requests : \A a \in answers[r] :
       \E i \in DOMAIN txs : txs[i].req = r /\ IsTerminal(txs[i].status) /\ a = AnswerOf(txs[i])
OutcomeInvariant ==
  /\ ReversalInvariant
  /\ InboxDiscipline /\ EffectsAreCoveredByInbox
  /\ AnswersAreStored

\* The statement p stands before is held back by what q has done and not yet
\* committed: the inbox row of its message, the lock of its wallet, or a row
\* with an index entry of its own.
WaitsFor(p, q) ==
  \/ /\ pc[p] = "recordInbox"
     /\ q # p /\ job[q].recorded /\ job[q].msg = job[p].msg
  \/ /\ pc[p] = "lock" /\ Parses(p)
     /\ wallets[job[p].req.wallet].open /\ holder[job[p].req.wallet] = q
  \/ /\ pc[p] = "persist"
     /\ q # p /\ InFlight(q) /\ Clash(plan[q].row, plan[p].row)

\* HTTP calls, consumers and workers never deadlock, although one unit of work
\* takes locks of three kinds (handle_message.go, process_transaction.go,
\* resolve_pending.go, each in one UnitOfWork.Execute): whoever is waited for
\* is at work, and in every set of processes somebody waits for none of them.
NoDeadlock ==
  /\ \A p, q \in Procs : WaitsFor(p, q) => pc[q] # "idle"
  /\ \A S \in (SUBSET Procs) \ {{}} : \E p \in S : \A q \in S : ~ WaitsFor(p, q)

\* persistRejected's comment: a refusal is persisted, not undone.  A unit of
\* work that has decided to reject fails only because the key or the external
\* id was taken meanwhile.
RefusalIsPersisted ==
  [][\A p \in Procs :
       pc[p] = "persist" /\ plan[p].row.status = "REJECTED" /\ plan'[p].ret = "DB_CONFLICT" =>
         \E i \in DOMAIN txs : Clash(txs[i], plan[p].row)]_vars

-----------------------------------------------------------------------------
(* Liveness.                                                               *)

\* No unit of work waits for ever: the inbox row, the claimed row, the wallet
\* lock and the unique indexes are taken in one order, so waits never close a
\* cycle, and every end of a unit of work gives its locks back.
EveryUnitOfWorkEnds == \A p \in Procs : pc[p] # "idle" ~> pc[p] = "idle"

\* A pending reversal is settled in the end: its reference arrives or its
\* attempts run out (ADR-009; waitOrExpire).
PendingSettles ==
  \A i \in 1..TxBound :
    (i \in DOMAIN txs /\ txs[i].status = "PENDING_REFERENCE") ~> (i \in DOMAIN txs /\ IsTerminal(txs[i].status))

\* A reversal whose reference never comes is rejected in the end, whatever
\* else waits: its attempts or its TTL run out (roadmap/09, Politica decidida).
Waits(i) == i \in DOMAIN txs /\ txs[i].status = "PENDING_REFERENCE"
HopelessWaitEnds ==
  \A i \in 1..TxBound :
    (Waits(i) /\ AnyRows(txs[i].req.ref) = {}) ~> ~ (Waits(i) /\ AnyRows(txs[i].req.ref) = {})
=============================================================================

------------------------ MODULE WagerRefinementProofs ------------------------
(***************************************************************************)
(* WagerEngine implements WagerService, for any requests, wallets,         *)
(* processes and messages: what a unit of work has decided is, at its      *)
(* commit, what the service decides at that instant, and the outbox tells  *)
(* what it has committed.                                                  *)
(***************************************************************************)
EXTENDS WagerOutcomeProofs, WagerRefinement

-----------------------------------------------------------------------------
(* The service's operators, in the words of WagerEngine.                   *)

\* Bare hides the attempts and nothing else.
LEMMA BareFields ==
  ASSUME NEW row \in Row
  PROVE  /\ Bare(row) \in Row
         /\ Bare(row).req = row.req /\ Bare(row).status = row.status
         /\ Bare(row).refTx = row.refTx /\ Bare(row).balance = row.balance
         /\ Bare(row).version = row.version
<1>1. 0 \in Nat
  OBVIOUS
<1>2. QED BY <1>1 DEF Bare, Row

LEMMA BookFields ==
  ASSUME TypeOK
  PROVE  /\ DOMAIN Book = DOMAIN txs /\ Book \in Seq(Row)
         /\ \A i \in DOMAIN txs : Book[i] = Bare(txs[i]) /\ Book[i].req = txs[i].req
              /\ Book[i].status = txs[i].status /\ Book[i].refTx = txs[i].refTx
<1>1. \A i \in DOMAIN txs : txs[i] \in Row
  BY DEF TypeOK
<1>2. DOMAIN txs = 1..Len(txs) /\ Len(txs) \in Nat
  BY DEF TypeOK
<1>3. DOMAIN Book = DOMAIN txs /\ \A i \in DOMAIN txs : Book[i] = Bare(txs[i])
  BY DEF Book
<1>4. Book \in Seq(Row)
  BY <1>1, <1>2, <1>3, BareFields DEF Book
<1>5. QED BY <1>1, <1>3, <1>4, BareFields

\* What the service reads in its book is what the engine reads in its rows.
LEMMA ServiceReads ==
  ASSUME TypeOK
  PROVE  /\ \A ext : Service!Settled(ext) = SettledRows(ext)
         /\ \A i : Service!Reverted(i) <=> HasSuccessfulReversal(i)
         /\ \A i \in DOMAIN txs : \A r : ReversalRejection(Book[i], r) = ReversalRejection(txs[i], r)
<1>1. ASSUME NEW ext PROVE Service!Settled(ext) = SettledRows(ext)
  BY BookFields DEF Service!Settled, SettledRows, Service!IsTerminal, IsTerminal
<1>2. ASSUME NEW i PROVE Service!Reverted(i) <=> HasSuccessfulReversal(i)
  BY BookFields DEF Service!Reverted, HasSuccessfulReversal, IsSuccessfulReversalOf, Service!IsReversal, IsReversal
<1>3. ASSUME NEW i \in DOMAIN txs, NEW r
      PROVE  ReversalRejection(Book[i], r) = ReversalRejection(txs[i], r)
  BY BookFields DEF ReversalRejection
<1>4. QED BY <1>1, <1>2, <1>3

\* The service and the engine share the domain.
LEMMA SameDomain ==
  /\ \A kind : Service!IsReversal(kind) <=> IsReversal(kind)
  /\ \A kind : Service!DirectDirection(kind) = DirectDirection(kind)
  /\ \A kind : Service!ReversalDirection(kind) = ReversalDirection(kind)
  /\ \A direction, balance, amount :
       Service!Overflows(direction, balance, amount) <=> Overflows(direction, balance, amount)
  /\ \A r : Service!NewExternal(r) = NewExternal(r)
  /\ \A row : Service!MarkPendingReference(row) = MarkPendingReference(row)
  /\ \A row, why : Service!Reject(row, why) = Reject(row, why)
  /\ \A reference, r : Service!ReversalRejection(reference, r) = ReversalRejection(reference, r)
  /\ \A r : (Service!Valid(r) <=> Valid(r)) /\ (Service!Complete(r) <=> Complete(r))
<1>1. \A kind : Service!IsReversal(kind) <=> IsReversal(kind)
  BY DEF Service!IsReversal, IsReversal
<1>2. \A kind : Service!DirectDirection(kind) = DirectDirection(kind)
  BY DEF Service!DirectDirection, DirectDirection
<1>3. \A kind : Service!ReversalDirection(kind) = ReversalDirection(kind)
  BY DEF Service!ReversalDirection, ReversalDirection
<1>4. \A direction, balance, amount :
        Service!Overflows(direction, balance, amount) <=> Overflows(direction, balance, amount)
  BY DEF Service!Overflows, Overflows
<1>5. \A r : Service!NewExternal(r) = NewExternal(r)
  BY DEF Service!NewExternal, Service!BlankRow, NewExternal, BlankRow
<1>6. \A row : Service!MarkPendingReference(row) = MarkPendingReference(row)
  BY DEF Service!MarkPendingReference, MarkPendingReference
<1>7. \A row, why : Service!Reject(row, why) = Reject(row, why)
  BY DEF Service!Reject, Reject
<1>8. \A reference, r : Service!ReversalRejection(reference, r) = ReversalRejection(reference, r)
  BY DEF Service!ReversalRejection, ReversalRejection, Service!EligibleForReversal, EligibleForReversal
<1>9. \A r : (Service!Valid(r) <=> Valid(r)) /\ (Service!Complete(r) <=> Complete(r))
  BY DEF Service!Valid, Valid, Service!ValidAmount, ValidAmount, Service!ValidReference,
         ValidReference, Service!IsReversal, IsReversal, Service!Complete, Complete
<1>10. QED BY <1>1, <1>2, <1>3, <1>4, <1>5, <1>6, <1>7, <1>8, <1>9

LEMMA SameMovement ==
  ASSUME NEW row, NEW reference, NEW direction, NEW balance, NEW ver
  PROVE  Service!Moved(row, reference, direction, balance, ver) = Moved(row, reference, direction, balance, ver)
BY DEF Service!Moved, Moved, Service!Overdraws, Overdraws, Service!Reject, Reject,
       Service!MarkProcessed, MarkProcessed, Service!BalanceAfter, BalanceAfter,
       Service!VersionAfter, VersionAfter, Service!InsufficientFundsCode, InsufficientFundsCode,
       Service!IsReversal, IsReversal

\* The ends of an operation, in the words of WagerEngine.
MovesTo(row, reference, direction, after) ==
  LET account == wallets[row.req.wallet] IN
  /\ ~ Overflows(direction, account.balance, row.req.amount)
  /\ after = Moved(row, reference, direction, account.balance, account.version)
ReversesTo(row, i, after) ==
  LET refusal == ReversalRejection(txs[i], row.req) IN
  \/ refusal # Nil /\ after = Reject(row, refusal)
  \/ refusal = Nil /\ HasSuccessfulReversal(i) /\ after = Reject(row, "DUPLICATE_REVERSAL")
  \/ /\ refusal = Nil /\ ~ HasSuccessfulReversal(i)
     /\ MovesTo(row, i, ReversalDirection(txs[i].req.kind), after)
EndsAs(row, after) ==
  LET r == row.req IN
  \/ Holder[r.wallet] # r.player /\ after = Reject(row, "WALLET_PLAYER_MISMATCH")
  \/ /\ Holder[r.wallet] = r.player /\ IsReversal(r.kind)
     /\ \E i \in SettledRows(r.ref) : ReversesTo(row, i, after)
  \/ /\ Holder[r.wallet] = r.player /\ ~ IsReversal(r.kind)
     /\ MovesTo(row, 0, DirectDirection(r.kind), after)
Misses(r) ==
  /\ Holder[r.wallet] = r.player /\ IsReversal(r.kind)
  /\ \A i \in SettledRows(r.ref) : txs[i].req.wallet # r.wallet

LEMMA SameMoves ==
  ASSUME NEW row, NEW reference, NEW direction, NEW after
  PROVE  after \in Service!MovedNow(row, reference, direction) <=> MovesTo(row, reference, direction, after)
BY SameDomain, SameMovement DEF Service!MovedNow, MovesTo

LEMMA SameReversals ==
  ASSUME TypeOK, NEW row, NEW i \in DOMAIN txs, NEW after
  PROVE  after \in Service!ReversedNow(row, i) <=> ReversesTo(row, i, after)
<1>1. /\ Service!ReversalRejection(Book[i], row.req) = ReversalRejection(txs[i], row.req)
      /\ Book[i].req = txs[i].req
  BY ServiceReads, SameDomain, BookFields
<1>2. CASE ReversalRejection(txs[i], row.req) # Nil
  BY <1>1, <1>2, SameDomain DEF Service!ReversedNow, ReversesTo
<1>3. CASE ReversalRejection(txs[i], row.req) = Nil /\ HasSuccessfulReversal(i)
  BY <1>1, <1>3, SameDomain, ServiceReads DEF Service!ReversedNow, ReversesTo
<1>4. CASE ReversalRejection(txs[i], row.req) = Nil /\ ~ HasSuccessfulReversal(i)
  <2>1. Service!ReversedNow(row, i) = Service!MovedNow(row, i, ReversalDirection(txs[i].req.kind))
    BY <1>1, <1>4, SameDomain, ServiceReads DEF Service!ReversedNow
  <2>2. QED BY <1>4, <2>1, SameMoves DEF ReversesTo
<1>5. QED BY <1>2, <1>3, <1>4

SameEnds ==
  /\ \A row, after : after \in Service!Outcomes(row) <=> EndsAs(row, after)
  /\ \A r : Service!MayMiss(r) <=> Misses(r)

\* The service's decisions are the ends of an operation.
LEMMA SameOutcomes == TypeOK => SameEnds
<1> SUFFICES ASSUME TypeOK PROVE SameEnds
  OBVIOUS
<1>1. ASSUME NEW row, NEW after PROVE after \in Service!Outcomes(row) <=> EndsAs(row, after)
  <2> DEFINE r == row.req
  <2>1. CASE Holder[r.wallet] # r.player
    BY <2>1, SameDomain DEF Service!Outcomes, EndsAs
  <2>2. CASE Holder[r.wallet] = r.player /\ IsReversal(r.kind)
    <3>1. Service!Outcomes(row) = UNION {Service!ReversedNow(row, i) : i \in SettledRows(r.ref)}
      BY <2>2, SameDomain, ServiceReads DEF Service!Outcomes
    <3>2. \A i \in SettledRows(r.ref) : i \in DOMAIN txs
      BY DEF SettledRows
    <3>3. after \in Service!Outcomes(row) <=> \E i \in SettledRows(r.ref) : after \in Service!ReversedNow(row, i)
      BY <3>1
    <3>4. QED BY <2>2, <3>2, <3>3, SameReversals DEF EndsAs
  <2>3. CASE Holder[r.wallet] = r.player /\ ~ IsReversal(r.kind)
    <3>1. Service!Outcomes(row) = Service!MovedNow(row, 0, DirectDirection(r.kind))
      BY <2>3, SameDomain DEF Service!Outcomes
    <3>2. QED BY <2>3, <3>1, SameMoves DEF EndsAs
  <2>4. QED BY <2>1, <2>2, <2>3
<1>2. ASSUME NEW r PROVE Service!MayMiss(r) <=> Misses(r)
  BY SameDomain, ServiceReads, BookFields DEF Service!MayMiss, Misses, SettledRows
<1>3. QED BY <1>1, <1>2 DEF SameEnds

\* DecidedNow in these words.
DecidedHere(p) ==
  LET r     == job[p].req
      row   == Bare(RowAtHand(p))
      after == Bare(plan[p].row) IN
  \/ CurrencyOf[r.wallet] # r.currency
  \/ EndsAs(row, after)
  \/ /\ Misses(r)
     /\ after = IF p \in Workers THEN Reject(row, "REFERENCE_NOT_FOUND") ELSE MarkPendingReference(row)
  \/ p \in Workers /\ after = row

LEMMA SameDecisions ==
  /\ TypeOK => \A p : DecidedNow(p) <=> DecidedHere(p)
  /\ TypeOK' => \A p : DecidedNow(p)' <=> DecidedHere(p)'
<1>1. TypeOK' => SameEnds'
  BY SameOutcomes, PTL
<1>2. SameEnds' => \A p : DecidedNow(p)' <=> DecidedHere(p)'
  BY DEF SameEnds, DecidedNow, DecidedHere
<1>3. SameEnds => \A p : DecidedNow(p) <=> DecidedHere(p)
  BY DEF SameEnds, DecidedNow, DecidedHere
<1>4. QED BY <1>1, <1>2, <1>3, SameOutcomes

\* What may change under the lock of a wallet: nothing of this wallet.
StaysFor(w) ==
  /\ wallets'[w] = wallets[w]
  /\ \A j \in DOMAIN txs' : (j \in DOMAIN txs /\ txs'[j] = txs[j]) \/ txs'[j].req.wallet # w

\* What is settled, and what was reversed, stays so.
LEMMA SettledStays ==
  ASSUME TypeOK, HistoryInvariant, [Next]_vars, NEW ext
  PROVE  /\ SettledRows(ext) \subseteq SettledRows(ext)'
         /\ \A i \in SettledRows(ext) : i \in DOMAIN txs /\ txs'[i] = txs[i]
         /\ \A i : HasSuccessfulReversal(i) => HasSuccessfulReversal(i)'
<1>1. \A i \in SettledRows(ext) : i \in DOMAIN txs /\ i \in DOMAIN txs' /\ txs'[i] = txs[i]
  BY SettledRowsStay DEF SettledRows, IsTerminal
<1>2. SettledRows(ext) \subseteq SettledRows(ext)'
  BY <1>1 DEF SettledRows
<1>3. ASSUME NEW i, HasSuccessfulReversal(i) PROVE HasSuccessfulReversal(i)'
  <2>1. PICK j \in DOMAIN txs : IsSuccessfulReversalOf(txs[j], i)
    BY <1>3 DEF HasSuccessfulReversal
  <2>2. j \in DOMAIN txs' /\ txs'[j] = txs[j]
    BY <2>1, SettledRowsStay DEF IsSuccessfulReversalOf
  <2>3. QED BY <2>1, <2>2 DEF HasSuccessfulReversal
<1>4. QED BY <1>1, <1>2, <1>3

\* A reversal of an operation that accepts a reversal from wallet w is itself
\* one of wallet w.
LEMMA NotReversedStays ==
  ASSUME TypeOK, HistoryInvariant, [Next]_vars, RowsAreJustified',
         NEW r, StaysFor(r.wallet), NEW i, Accepted(i, r), ~ HasSuccessfulReversal(i)
  PROVE  ~ HasSuccessfulReversal(i)'
<1> SUFFICES ASSUME NEW j \in DOMAIN txs', IsSuccessfulReversalOf(txs'[j], i)
             PROVE  FALSE
  BY DEF HasSuccessfulReversal
<1>1. Accepted(i, txs[j].req)'
  BY DEF RowsAreJustified, Justified, IsSuccessfulReversalOf
<1>2. i \in DOMAIN txs' /\ txs'[i].req.wallet = txs'[j].req.wallet
  BY <1>1, DomainAssumption DEF Accepted, ReversalRejection, FailureCodes
<1>3. txs[i].req.wallet = r.wallet /\ i \in DOMAIN txs
  BY AcceptedReference
<1>4. txs'[i].req = txs[i].req
  BY <1>3, SettledRowsStay
<1>5. txs'[j].req.wallet = r.wallet
  BY <1>2, <1>3, <1>4
<1>6. j \in DOMAIN txs /\ txs'[j] = txs[j]
  BY <1>5 DEF StaysFor
<1>7. QED BY <1>6 DEF HasSuccessfulReversal

\* The end of an operation stays its end while nothing of its wallet changes:
\* what its reference is, and whether it was reversed, is a matter of this wallet.
LEMMA EndsStay ==
  ASSUME TypeOK, HistoryInvariant, [Next]_vars, RowsAreJustified',
         NEW row, NEW after, StaysFor(row.req.wallet), EndsAs(row, after)
  PROVE  EndsAs(row, after)'
<1> DEFINE r == row.req
<1>1. ASSUME NEW reference, NEW direction, MovesTo(row, reference, direction, after)
      PROVE  MovesTo(row, reference, direction, after)'
  BY <1>1 DEF MovesTo, StaysFor
<1>2. CASE Holder[r.wallet] # r.player /\ after = Reject(row, "WALLET_PLAYER_MISMATCH")
  BY <1>2 DEF EndsAs
<1>3. CASE /\ Holder[r.wallet] = r.player /\ IsReversal(r.kind)
           /\ \E i \in SettledRows(r.ref) : ReversesTo(row, i, after)
  <2>1. PICK i \in SettledRows(r.ref) : ReversesTo(row, i, after)
    BY <1>3
  <2>2. i \in SettledRows(r.ref)' /\ txs'[i] = txs[i] /\ i \in DOMAIN txs
    BY SettledStays
  <2>3. ReversalRejection(txs[i], r) = Nil => Accepted(i, r)
    BY <2>2 DEF Accepted
  <2>5. CASE ReversalRejection(txs[i], r) = Nil /\ HasSuccessfulReversal(i)
    <3>1. HasSuccessfulReversal(i)'
      BY <2>5, SettledStays
    <3>2. ReversesTo(row, i, after)'
      BY <2>1, <2>2, <2>5, <3>1 DEF ReversesTo
    <3>3. QED BY <1>3, <2>2, <3>2 DEF EndsAs
  <2>6. CASE ReversalRejection(txs[i], r) = Nil /\ ~ HasSuccessfulReversal(i)
    <3>1. ~ HasSuccessfulReversal(i)'
      BY <2>3, <2>6, NotReversedStays
    <3>2. PICK direction : direction = ReversalDirection(txs[i].req.kind)
      OBVIOUS
    <3>3. ReversesTo(row, i, after)'
      <4>1. MovesTo(row, i, direction, after)'
        BY <1>1, <2>1, <2>6, <3>2 DEF ReversesTo
      <4>2. direction = ReversalDirection(txs'[i].req.kind) /\ ReversalRejection(txs'[i], r) = Nil
        BY <2>2, <2>6, <3>2
      <4>3. QED BY <3>1, <4>1, <4>2 DEF ReversesTo
    <3>4. QED BY <1>3, <2>2, <3>3 DEF EndsAs
  <2>7. QED
    <3>1. ReversesTo(row, i, after)' => EndsAs(row, after)'
      BY <1>3, <2>2 DEF EndsAs
    <3>2. ReversalRejection(txs[i], r) # Nil => ReversesTo(row, i, after)'
      BY <2>1, <2>2 DEF ReversesTo
    <3>3. QED BY <2>5, <2>6, <3>1, <3>2
<1>4. CASE /\ Holder[r.wallet] = r.player /\ ~ IsReversal(r.kind)
           /\ MovesTo(row, 0, DirectDirection(r.kind), after)
  BY <1>1, <1>4 DEF EndsAs
<1>5. QED BY <1>2, <1>3, <1>4 DEF EndsAs

LEMMA MissesStays ==
  ASSUME NEW r, StaysFor(r.wallet), Misses(r)
  PROVE  Misses(r)'
BY DEF Misses, StaysFor, SettledRows

-----------------------------------------------------------------------------
(* What the lock of a wallet protects.                                     *)

\* Only a commit and an opening change a balance.
LEMMA OtherStepsKeepWallets ==
  ASSUME [Next]_vars,
         \A p \in Procs : ~ Commit(p),
         \A w \in Wallets, b \in OpeningBalances : ~ OpenWallet(w, b)
  PROVE  wallets' = wallets
<1>1. CASE \E i \in DOMAIN txs : BecomesDue(i)
  BY <1>1 DEF BecomesDue
<1>2. CASE \E p \in Workers, i \in DOMAIN txs : Claim(p, i)
  BY <1>2 DEF Claim, Start, tables
<1>3. QED
  BY <1>1, <1>2 DEF Next, Step, vars, tables, Submit, Deliver, Start, FindInbox, RecordInbox,
     LockWallet, FindByIdempotencyKey, FindByExternalID, FindReference, CheckReversed, Persist,
     Rollback, Crash

\* While q holds a wallet and does not commit, no other process writes rows of
\* this wallet or its balance.
LEMMA HeldWalletStays ==
  ASSUME TypeOK, LedgerInvariant, HistoryInvariant, DecisionsAreCurrent, [Next]_vars,
         NEW q \in Procs, NEW w \in Wallets, holder[w] = q, pc'[q] = pc[q]
  PROVE  StaysFor(w)
<1>1. pc[q] # "idle"
  BY DEF LedgerInvariant, LockDiscipline, Deciding
<1>2. ASSUME NEW p \in Procs, Commit(p) PROVE StaysFor(w)
  <2> DEFINE row == plan[p].row
  <2>1. p # q
    BY <1>1, <1>2 DEF Commit, Release, TypeOK
  <2>2. CASE plan[p].write = "none"
    <3>1. plan[p].direction = "NONE" \/ job[p].req.wallet # w
      BY <2>1 DEF LedgerInvariant, PlannedMovements
    <3>2. txs' = txs
      BY <1>2, <2>2 DEF Commit, Apply
    <3>3. wallets'[w] = wallets[w]
      BY <1>2, <3>1 DEF Commit, Apply, TypeOK
    <3>4. QED BY <3>2, <3>3 DEF StaysFor
  <2>3. CASE plan[p].write # "none"
    <3>1. holder[job[p].req.wallet] = p
      BY <2>3 DEF DecisionsAreCurrent, DecisionInOrder
    <3>2. job[p].req.wallet # w
      BY <2>1, <3>1
    <3>3. row.req = job[p].req /\ row \in Row
      BY <1>2, <2>3, PlannedRequest DEF Commit, TypeOK, Plan
    <3>4. wallets'[w] = wallets[w]
      BY <1>2, <3>2 DEF Commit, Apply, TypeOK
    <3>5. CASE txs' = Append(txs, row)
      BY <3>2, <3>3, <3>4, <3>5, AppendedRow DEF StaysFor
    <3>6. CASE job[p].tx \in DOMAIN txs /\ txs' = [txs EXCEPT ![job[p].tx] = row]
      BY <3>2, <3>3, <3>4, <3>6 DEF StaysFor
    <3>7. CASE txs' = txs
      BY <3>4, <3>7 DEF StaysFor
    <3>8. QED BY <1>2, <3>5, <3>6, <3>7, CommittedRow
  <2>4. QED BY <2>2, <2>3
<1>3. ASSUME NEW v \in Wallets, NEW b \in OpeningBalances, OpenWallet(v, b) PROVE StaysFor(w)
  <2>1. v # w
    BY <1>3, EngineAssumption DEF OpenWallet, LedgerInvariant, ClosedIsUntouched
  <2>2. wallets'[w] = wallets[w]
    BY <1>3, <2>1 DEF OpenWallet, TypeOK
  <2>3. CASE b = 0
    BY <1>3, <2>2, <2>3 DEF OpenWallet, StaysFor
  <2>4. CASE b # 0
    <3>1. txs' = Append(txs, OpeningRow(v, b)) /\ OpeningRow(v, b) \in Row
      BY <1>3, <2>4, OpeningRowType DEF OpenWallet, OpeningRow
    <3>2. OpeningRow(v, b).req.wallet = v
      BY DEF OpeningRow, MarkProcessed, NewExternal, BlankRow, OpeningRequest
    <3>3. QED BY <2>1, <2>2, <3>1, <3>2, AppendedRow DEF StaysFor
  <2>5. QED BY <2>3, <2>4
<1>4. QED BY <1>2, <1>3, OtherStepsKeepRows, OtherStepsKeepWallets DEF StaysFor

\* A lock is given back by its holder only.
LEMMA HolderStays ==
  ASSUME TypeOK, LedgerInvariant, [Next]_vars,
         NEW q \in Procs, NEW w \in Wallets, holder[w] = q, pc'[q] = pc[q]
  PROVE  holder'[w] = q
<1>1. pc[q] # "idle" /\ q # NoProc
  BY EngineAssumption DEF LedgerInvariant, LockDiscipline, Deciding
<1>2. ASSUME NEW p \in Procs, Release(p) PROVE holder'[w] = q
  BY <1>1, <1>2 DEF Release, TypeOK
<1>3. ASSUME NEW p \in Procs, LockWallet(p) PROVE holder'[w] = q
  BY <1>1, <1>3 DEF LockWallet, Lockable, TypeOK
<1>4. CASE \E i \in DOMAIN txs : BecomesDue(i)
  BY <1>4 DEF BecomesDue
<1>5. CASE \E p \in Workers, i \in DOMAIN txs : Claim(p, i)
  BY <1>5 DEF Claim, Start
<1>6. CASE \E p \in Procs : Step(p) \/ Crash(p)
  BY <1>2, <1>3, <1>6 DEF Step, Crash, Commit, Rollback, FindInbox, RecordInbox,
     FindByIdempotencyKey, FindByExternalID, FindReference, CheckReversed, Persist
<1>7. QED
  BY <1>4, <1>5, <1>6 DEF Next, vars, Submit, Deliver, Start, OpenWallet

-----------------------------------------------------------------------------
(* Decisions.                                                              *)

\* The row at hand is one of the request at hand.
LEMMA AtHand ==
  ASSUME TypeOK, HistoryInvariant, NEW p \in Procs, pc[p] # "idle"
  PROVE  /\ RowAtHand(p) \in Row /\ RowAtHand(p).req = job[p].req
         /\ Bare(RowAtHand(p)).req = job[p].req
         /\ job[p].req \in StoredRequests /\ job[p].req.wallet \in Wallets
<1>1. job[p].req \in StoredRequests /\ job[p].req.wallet \in Wallets
  BY RequestFields DEF TypeOK, Job
<1>2. RowAtHand(p) \in Row /\ RowAtHand(p).req = job[p].req
  <2>1. CASE p \in Workers
    BY <2>1, InvariantByProcess DEF HistoryInvariant, ClaimInOrder, RowAtHand, TypeOK
  <2>2. CASE p \notin Workers
    BY <1>1, <2>2, NewRowType DEF RowAtHand, NewExternal, BlankRow
  <2>3. QED BY <2>1, <2>2
<1>3. QED BY <1>1, <1>2, BareFields

\* A decision is still the service's when its process has rested.
LEMMA DecisionStays ==
  ASSUME TypeOK, TypeOK', LedgerInvariant, HistoryInvariant, DecisionsAreCurrent,
         RowsAreJustified', [Next]_vars,
         NEW q \in Procs, pc'[q] = pc[q], job'[q] = job[q], plan'[q] = plan[q],
         plan[q].write # "none"
  PROVE  DecidedNow(q)'
<1> DEFINE w == job[q].req.wallet
<1>1. holder[w] = q /\ DecidedHere(q)
  BY SameDecisions DEF DecisionsAreCurrent, DecisionInOrder
<1>2. w \in Wallets
  BY RequestFields DEF TypeOK, Job
<1>3. pc[q] # "idle"
  BY <1>1, <1>2 DEF LedgerInvariant, LockDiscipline, Deciding
<1>4. StaysFor(w)
  BY <1>1, <1>2, HeldWalletStays
<1>5. RowAtHand(q)' = RowAtHand(q)
  <2>1. CASE q \in Workers
    <3>1. job[q].tx \in DOMAIN txs /\ txs[job[q].tx].req.wallet = w
      BY <1>3, <2>1, InvariantByProcess DEF HistoryInvariant, ClaimInOrder
    <3>2. job[q].tx \in DOMAIN txs' /\ txs'[job[q].tx].req.wallet = w
      BY <3>1, SettledRowsStay
    <3>3. txs'[job[q].tx] = txs[job[q].tx]
      BY <1>4, <3>2 DEF StaysFor
    <3>4. QED BY <2>1, <3>3 DEF RowAtHand
  <2>2. CASE q \notin Workers
    BY <2>2 DEF RowAtHand
  <2>3. QED BY <2>1, <2>2
<1>6. PICK row : row = Bare(RowAtHand(q)) /\ row.req = job[q].req
  BY <1>3, AtHand
<1>7. Bare(RowAtHand(q))' = row
  BY <1>5, <1>6 DEF Bare
<1>8. PICK after : after = Bare(plan[q].row)
  OBVIOUS
<1>9. Bare(plan'[q].row) = after
  BY <1>8
<1>10. EndsAs(row, after) => EndsAs(row, after)'
  BY <1>4, <1>6, EndsStay
<1>11. PICK r : r = job[q].req
  OBVIOUS
<1>12. Misses(r) => Misses(r)'
  BY <1>4, <1>11, MissesStays
<1>13. DecidedHere(q)'
  BY <1>1, <1>6, <1>7, <1>8, <1>9, <1>10, <1>11, <1>12 DEF DecidedHere
<1>14. QED BY <1>13, SameDecisions

LEMMA RestingDecisions ==
  ASSUME TypeOK, TypeOK', LedgerInvariant, HistoryInvariant, DecisionsAreCurrent,
         RowsAreJustified', [Next]_vars, NEW q \in Procs, Rests(q)
  PROVE  DecisionInOrder(q)'
<1>1. CASE pc'[q] = pc[q] /\ job'[q] = job[q] /\ plan'[q] = plan[q]
  <2>1. DecisionInOrder(q)
    BY DEF DecisionsAreCurrent
  <2>2. plan[q].write # "none" => DecidedNow(q)'
    BY <1>1, DecisionStays
  <2>3. plan[q].write # "none" => holder'[job[q].req.wallet] = q
    BY <1>1, <2>1, HolderStays, RequestFields DEF DecisionInOrder, TypeOK, Job
  <2>4. PICK ext : ext = job[q].req.ref
    OBVIOUS
  <2>5. pc[q] = "reversed" => job[q].ref \in SettledRows(ext)'
    BY <2>1, <2>4, SettledStays DEF DecisionInOrder
  <2>6. QED BY <1>1, <2>1, <2>2, <2>3, <2>4, <2>5 DEF DecisionInOrder, InFlight, SettledRows
<1>2. CASE pc'[q] = "idle" /\ job'[q] = NoJob /\ plan'[q] = NoPlan
  BY <1>2, PlainOutcomes DEF DecisionInOrder, InFlight
<1>3. QED BY <1>1, <1>2 DEF Rests

\* Hiding the attempts commutes with every change of a row.
LEMMA BareCommutes ==
  ASSUME NEW row \in Row
  PROVE  /\ \A why : Bare(Reject(row, why)) = Reject(Bare(row), why)
         /\ Bare(MarkPendingReference(row)) = MarkPendingReference(Bare(row))
         /\ Bare(ScheduleReferenceRetry(row)) = Bare(row)
<1>1. \A why : Bare(Reject(row, why)) = Reject(Bare(row), why)
  BY DEF Bare, Reject, Row
<1>2. Bare(MarkPendingReference(row)) = MarkPendingReference(Bare(row))
  BY DEF Bare, MarkPendingReference, Row
<1>3. Bare(ScheduleReferenceRetry(row)) = Bare(row)
  BY DEF Bare, ScheduleReferenceRetry, Row
<1>4. QED BY <1>1, <1>2, <1>3

LEMMA BareMoves ==
  ASSUME NEW row \in Row, NEW reference, NEW direction, NEW balance, NEW ver
  PROVE  Bare(Moved(row, reference, direction, balance, ver)) =
           Moved(Bare(row), reference, direction, balance, ver)
<1>1. Bare(row).req = row.req
  BY BareFields
<1>2. CASE Overdraws(direction, balance, row.req.amount)
  BY <1>1, <1>2 DEF Moved, Bare, Reject, Row
<1>3. CASE ~ Overdraws(direction, balance, row.req.amount)
  BY <1>1, <1>3 DEF Moved, Bare, MarkProcessed, Row
<1>4. QED BY <1>2, <1>3

\* A step that leaves rows and balances alone leaves every end as it is.
LEMMA SameTables ==
  ASSUME txs' = txs, wallets' = wallets
  PROVE  /\ \A row, after : EndsAs(row, after)' <=> EndsAs(row, after)
         /\ \A r : Misses(r)' <=> Misses(r)
         /\ \A ext : SettledRows(ext)' = SettledRows(ext)
<1>1. /\ \A ext : SettledRows(ext)' = SettledRows(ext)
      /\ \A i : HasSuccessfulReversal(i)' <=> HasSuccessfulReversal(i)
  BY DEF SettledRows, HasSuccessfulReversal
<1>2. \A row, reference, direction, after :
        MovesTo(row, reference, direction, after)' <=> MovesTo(row, reference, direction, after)
  BY DEF MovesTo
<1>3. \A row, i, after : ReversesTo(row, i, after)' <=> ReversesTo(row, i, after)
  BY <1>1, <1>2 DEF ReversesTo
<1>4. QED BY <1>1, <1>2, <1>3 DEF EndsAs, Misses

\* Whatever p decides from the row at hand is decided by the tables it reads.
DecidesFor(p, after) ==
  LET r   == job[p].req
      row == Bare(plan[p].row) IN
  \/ CurrencyOf[r.wallet] # r.currency
  \/ EndsAs(row, Bare(after))
  \/ /\ Misses(r)
     /\ Bare(after) = IF p \in Workers THEN Reject(row, "REFERENCE_NOT_FOUND") ELSE MarkPendingReference(row)
  \/ p \in Workers /\ Bare(after) = row

\* Who decides has the row and the balance as they are, and has written nothing.
LEMMA BeforeWrite ==
  ASSUME TypeOK, LedgerInvariant, HistoryInvariant, DecisionsAreCurrent,
         NEW p \in Procs, pc[p] \in {"ext", "ref", "reversed"}
  PROVE  /\ plan[p].row = RowAtHand(p) /\ plan[p].row \in Row /\ plan[p].row.req = job[p].req
         /\ plan[p].write = "none" /\ holder[job[p].req.wallet] = p
         /\ view[p] = wallets[job[p].req.wallet]
         /\ Bare(plan[p].row).req = job[p].req
         /\ pc[p] = "ext" => p \notin Workers
         /\ p \in Workers => plan[p].row = txs[job[p].tx] /\ job[p].tx \in DOMAIN txs
<1>1. plan[p].write = "none" /\ plan[p].row = RowAtHand(p) /\ (pc[p] = "ext" => p \notin Workers)
  <2>1. CASE p \in Workers
    BY <2>1, InvariantByProcess DEF HistoryInvariant, ClaimInOrder, RowAtHand
  <2>2. CASE p \notin Workers
    <3>1. plan[p].write = "none"
      BY <2>2, UndecidedBefore DEF Undeciding
    <3>2. QED BY <2>2, <3>1 DEF DecisionsAreCurrent, DecisionInOrder, RowAtHand
  <2>3. QED BY <2>1, <2>2
<1>2. holder[job[p].req.wallet] = p
  BY DEF LedgerInvariant, LockDiscipline, Deciding
<1>3. view[p] = wallets[job[p].req.wallet]
  BY <1>2, AtHand DEF LedgerInvariant, SnapshotIsCurrent
<1>4. p \in Workers => job[p].tx \in DOMAIN txs
  BY InvariantByProcess DEF HistoryInvariant, ClaimInOrder
<1>5. QED BY <1>1, <1>2, <1>3, <1>4, AtHand DEF RowAtHand

\* A decision from the tables as they are is in order.
LEMMA WriteInOrder ==
  ASSUME TypeOK, TypeOK', LedgerInvariant, HistoryInvariant, DecisionsAreCurrent,
         NEW p \in Procs, pc[p] \in {"ext", "ref", "reversed"},
         NEW outcome, Write(p, outcome), DecidesFor(p, outcome.row),
         UNCHANGED <<txs, wallets, holder>>,
         job'[p].req = job[p].req, job'[p].tx = job[p].tx
  PROVE  DecisionInOrder(p)'
<1>1. pc'[p] = "persist" /\ plan'[p] = outcome
  BY HistoryOutcomes
<1>2. plan[p].row = RowAtHand(p) /\ holder[job[p].req.wallet] = p
  BY BeforeWrite
<1>3. RowAtHand(p)' = RowAtHand(p)
  BY DEF RowAtHand
<1>4. PICK row : row = Bare(plan[p].row)
  OBVIOUS
<1>5. Bare(RowAtHand(p))' = row
  BY <1>2, <1>3, <1>4 DEF Bare
<1>6. PICK after : after = Bare(outcome.row)
  OBVIOUS
<1>7. PICK r : r = job[p].req
  OBVIOUS
<1>8. DecidedHere(p)'
  BY <1>1, <1>4, <1>5, <1>6, <1>7, SameTables DEF DecidedHere, DecidesFor
<1>9. DecidedNow(p)'
  BY <1>8, SameDecisions
<1>10. QED BY <1>1, <1>2, <1>9 DEF DecisionInOrder, InFlight

\* Anything else leaves nothing to be committed.
LEMMA NoWriteInOrder ==
  ASSUME NEW p \in Procs, plan'[p].write = "none", pc'[p] \in {"idle", "persist", "return"}
  PROVE  DecisionInOrder(p)'
BY DEF DecisionInOrder, InFlight

LEMMA MoveInOrder ==
  ASSUME TypeOK, TypeOK', LedgerInvariant, HistoryInvariant, DecisionsAreCurrent,
         NEW p \in Procs, pc[p] \in {"ext", "reversed"},
         NEW how, NEW reference, NEW direction, Move(p, how, reference, direction),
         \A after : MovesTo(Bare(plan[p].row), reference, direction, after) => EndsAs(Bare(plan[p].row), after),
         UNCHANGED <<txs, wallets, holder, job>>
  PROVE  DecisionInOrder(p)'
<1>1. CASE Overflows(direction, view[p].balance, plan[p].row.req.amount)
  <2>1. Finish(p, Failed("AMOUNT_OVERFLOW"))
    BY <1>1 DEF Move
  <2>2. plan'[p].write = "none" /\ pc'[p] = "return"
    BY <2>1, HistoryOutcomes, PlainOutcomes
  <2>3. QED BY <2>2, NoWriteInOrder
<1>2. CASE ~ Overflows(direction, view[p].balance, plan[p].row.req.amount)
  <2> DEFINE row   == plan[p].row
             after == Moved(row, reference, direction, view[p].balance, view[p].version)
  <2>1. /\ row \in Row /\ row.req = job[p].req /\ view[p] = wallets[job[p].req.wallet]
        /\ Bare(row).req = job[p].req
    BY BeforeWrite
  <2>2. Write(p, Written(how, after, direction))
    BY <1>2 DEF Move
  <2>3. Bare(after) = Moved(Bare(row), reference, direction, view[p].balance, view[p].version)
    BY <2>1, BareMoves
  <2>4. MovesTo(Bare(row), reference, direction, Bare(after))
    BY <1>2, <2>1, <2>3 DEF MovesTo
  <2>5. EndsAs(Bare(row), Bare(after))
    BY <2>4
  <2> HIDE DEF after
  <2>6. PICK outcome : outcome = Written(how, after, direction)
    OBVIOUS
  <2>7. DecidesFor(p, outcome.row)
    BY <2>5, <2>6, WrittenFields DEF DecidesFor
  <2>8. QED BY <2>2, <2>6, <2>7, WriteInOrder
<1>3. QED BY <1>1, <1>2

\* The statements up to the two replay queries decide nothing.
LEMMA EarlyStepsInOrder ==
  ASSUME TypeOK, HistoryInvariant, DecisionsAreCurrent, NEW p \in Procs,
         FindInbox(p) \/ RecordInbox(p) \/ LockWallet(p) \/ FindByIdempotencyKey(p)
  PROVE  DecisionInOrder(p)'
<1>1. /\ pc[p] \in {"findInbox", "recordInbox", "lock", "key"} /\ job'[p].req = job[p].req
      /\ DecisionInOrder(p) /\ plan[p].write = "none"
  <2>1. pc[p] \in {"findInbox", "recordInbox", "lock", "key"} /\ job'[p].req = job[p].req
    BY DEF FindInbox, RecordInbox, LockWallet, FindByIdempotencyKey, TypeOK, Job
  <2>2. QED BY <2>1, UndecidedBefore DEF Undeciding, DecisionsAreCurrent
<1>2. \/ \E outcome : outcome.write = "none" /\ Finish(p, outcome)
      \/ \E next \in {"recordInbox", "lock", "key", "ext"} : Goto(p, next) /\ plan' = plan
      \/ p \in Workers /\ LockWallet(p) /\ Goto(p, "ref") /\ plan' = plan
  <2>1. CASE FindInbox(p) \/ RecordInbox(p)
    BY <2>1, PlainOutcomes DEF FindInbox, RecordInbox, SeenBefore
  <2>2. CASE LockWallet(p)
    BY <2>2, PlainOutcomes DEF LockWallet
  <2>3. CASE FindByIdempotencyKey(p)
    BY <2>3, PlainOutcomes DEF FindByIdempotencyKey, ReplayOf
  <2>4. QED BY <2>1, <2>2, <2>3
<1>3. CASE \E outcome : outcome.write = "none" /\ Finish(p, outcome)
  BY <1>3, HistoryOutcomes, NoWriteInOrder
<1>4. CASE \E next \in {"recordInbox", "lock", "key", "ext"} : Goto(p, next) /\ plan' = plan
  BY <1>1, <1>4, HistoryOutcomes DEF DecisionInOrder, InFlight
<1>5. CASE p \in Workers /\ LockWallet(p) /\ Goto(p, "ref") /\ plan' = plan
  <2>1. ClaimInOrder(p)
    BY <1>5, InvariantByProcess DEF HistoryInvariant
  <2>2. Holder[job[p].req.wallet] = job[p].req.player
    BY <1>1, <2>1 DEF ClaimInOrder, DecisionsAreCurrent, WaitingRowsMatch
  <2>3. QED BY <1>1, <1>5, <2>2, HistoryOutcomes DEF DecisionInOrder, InFlight
<1>6. QED BY <1>2, <1>3, <1>4, <1>5

\* apply, up to the lookup of the reference.
LEMMA DirectInOrder ==
  ASSUME TypeOK, TypeOK', LedgerInvariant, HistoryInvariant, DecisionsAreCurrent,
         NEW p \in Procs, FindByExternalID(p)
  PROVE  DecisionInOrder(p)'
<1> DEFINE r   == job[p].req
           row == plan[p].row
<1>1. /\ pc[p] = "ext" /\ UNCHANGED <<txs, wallets, holder, job>>
      /\ DecisionInOrder(p)
  BY DEF FindByExternalID, tables, DecisionsAreCurrent
<1>2. /\ row \in Row /\ Bare(row).req = r /\ plan[p].write = "none"
  BY <1>1, BeforeWrite
<1>3. ASSUME NEW why, Write(p, Written("insert", Reject(row, why), "NONE")),
             \/ CurrencyOf[r.wallet] # r.currency
             \/ Holder[r.wallet] # r.player /\ why = "WALLET_PLAYER_MISMATCH"
      PROVE  DecisionInOrder(p)'
  <2>1. PICK outcome : outcome = Written("insert", Reject(row, why), "NONE")
    OBVIOUS
  <2>2. Bare(outcome.row) = Reject(Bare(row), why)
    BY <1>2, <2>1, WrittenFields, BareCommutes
  <2>3. DecidesFor(p, outcome.row)
    BY <1>2, <1>3, <2>2 DEF DecidesFor, EndsAs
  <2>4. QED BY <1>1, <1>3, <2>1, <2>3, WriteInOrder
<1>4. CASE Finish(p, Failed("OPERATION_ALREADY_APPLIED")) \/ Finish(p, Failed("MISSING_FIELD"))
  BY <1>4, HistoryOutcomes, PlainOutcomes, NoWriteInOrder
<1>5. CASE Goto(p, "ref") /\ plan' = plan /\ Holder[r.wallet] = r.player
  BY <1>1, <1>2, <1>5, HistoryOutcomes DEF DecisionInOrder, InFlight
<1>6. CASE /\ Move(p, "insert", 0, DirectDirection(r.kind))
           /\ Holder[r.wallet] = r.player /\ ~ IsReversal(r.kind)
  <2>1. \A after : MovesTo(Bare(row), 0, DirectDirection(r.kind), after) => EndsAs(Bare(row), after)
    BY <1>2, <1>6 DEF EndsAs
  <2>2. PICK direction : direction = DirectDirection(r.kind)
    OBVIOUS
  <2>3. QED BY <1>1, <1>6, <2>1, <2>2, MoveInOrder
<1>7. QED BY <1>3, <1>4, <1>5, <1>6 DEF FindByExternalID

\* The lookup of the reference: a wait, a refusal, or a reference to check.
LEMMA ReferenceInOrder ==
  ASSUME TypeOK, TypeOK', LedgerInvariant, HistoryInvariant, ReversalInvariant, DecisionsAreCurrent,
         NEW p \in Procs, FindReference(p)
  PROVE  DecisionInOrder(p)'
<1> DEFINE r   == job[p].req
           row == plan[p].row
<1>1. /\ pc[p] = "ref" /\ UNCHANGED <<txs, wallets, holder>>
      /\ DecisionInOrder(p) /\ IsReversal(r.kind)
      /\ Holder[r.wallet] = r.player
      /\ job' = job \/ \E i : job' = [job EXCEPT ![p].ref = i]
  BY DEF FindReference, tables, DecisionsAreCurrent, DecisionInOrder, ReversalInvariant, PlansAreJustified
<1>2. /\ row \in Row /\ Bare(row).req = r /\ plan[p].write = "none"
      /\ job'[p].req = r /\ job'[p].tx = job[p].tx
  BY <1>1, BeforeWrite DEF TypeOK, Job
<1>3. ASSUME NEW how, NEW after, Write(p, Written(how, after, "NONE")), DecidesFor(p, after)
      PROVE  DecisionInOrder(p)'
  <2>1. PICK outcome : outcome = Written(how, after, "NONE")
    OBVIOUS
  <2>2. outcome.row = after
    BY <2>1, WrittenFields
  <2>3. QED BY <1>1, <1>2, <1>3, <2>1, <2>2, WriteInOrder
<1>4. CASE SettledRows(r.ref) = {} /\ p \in Workers /\ WaitOrExpire(p)
  <2>1. Misses(r)
    BY <1>1, <1>4 DEF Misses
  <2>2. DecidesFor(p, Reject(row, "REFERENCE_NOT_FOUND")) /\ DecidesFor(p, ScheduleReferenceRetry(row))
    BY <1>2, <1>4, <2>1, BareCommutes DEF DecidesFor
  <2>3. QED BY <1>3, <1>4, <2>2 DEF WaitOrExpire
<1>5. CASE /\ SettledRows(r.ref) = {} /\ p \notin Workers
           /\ Write(p, Written("insert", MarkPendingReference(row), "NONE"))
  <2>1. Misses(r)
    BY <1>1, <1>5 DEF Misses
  <2>2. DecidesFor(p, MarkPendingReference(row))
    BY <1>2, <1>5, <2>1, BareCommutes DEF DecidesFor
  <2>3. QED BY <1>3, <1>5, <2>2
<1>6. ASSUME NEW i \in SettledRows(r.ref), NEW refusal, refusal = ReversalRejection(txs[i], r), refusal # Nil,
             Write(p, Written(How(p), Reject(row, refusal), "NONE"))
      PROVE  DecisionInOrder(p)'
  <2>1. ReversesTo(Bare(row), i, Reject(Bare(row), refusal))
    BY <1>2, <1>6 DEF ReversesTo
  <2>2. EndsAs(Bare(row), Bare(Reject(row, refusal)))
    BY <1>1, <1>2, <2>1, BareCommutes DEF EndsAs
  <2>3. DecidesFor(p, Reject(row, refusal))
    BY <2>2 DEF DecidesFor
  <2>4. QED BY <1>3, <1>6, <2>3
<1>7. ASSUME NEW i \in SettledRows(r.ref), job' = [job EXCEPT ![p].ref = i], Goto(p, "reversed"), plan' = plan
      PROVE  DecisionInOrder(p)'
  <2>1. job'[p].ref = i /\ pc'[p] = "reversed"
    BY <1>7, HistoryOutcomes DEF TypeOK, Job
  <2>2. PICK ext : ext = r.ref
    OBVIOUS
  <2>3. i \in SettledRows(ext)'
    BY <1>1, <1>7, <2>2, SameTables
  <2>4. QED BY <1>1, <1>2, <1>7, <2>1, <2>2, <2>3 DEF DecisionInOrder, InFlight, SettledRows
<1>8. QED BY <1>4, <1>5, <1>6, <1>7 DEF FindReference

\* A reversal is decided by whether its reference was reversed.
LEMMA CheckInOrder ==
  ASSUME TypeOK, TypeOK', LedgerInvariant, HistoryInvariant, ReversalInvariant, DecisionsAreCurrent,
         NEW p \in Procs, CheckReversed(p)
  PROVE  DecisionInOrder(p)'
<1> DEFINE r   == job[p].req
           row == plan[p].row
           i   == job[p].ref
<1>1. /\ pc[p] = "reversed" /\ UNCHANGED <<txs, wallets, holder, job>>
      /\ IsReversal(r.kind) /\ Holder[r.wallet] = r.player
      /\ i \in SettledRows(r.ref) /\ Accepted(i, r)
  BY DEF CheckReversed, tables, DecisionsAreCurrent, DecisionInOrder, ReversalInvariant, PlansAreJustified
<1>2. row \in Row /\ Bare(row).req = r
  BY <1>1, BeforeWrite
<1>3. ReversalRejection(txs[i], r) = Nil
  BY <1>1 DEF Accepted
<1>4. \A after : ReversesTo(Bare(row), i, after) => EndsAs(Bare(row), after)
  BY <1>1, <1>2 DEF EndsAs
<1>5. CASE /\ HasSuccessfulReversal(i)
           /\ Write(p, Written(How(p), Reject(row, "DUPLICATE_REVERSAL"), "NONE"))
  <2>1. PICK outcome : outcome = Written(How(p), Reject(row, "DUPLICATE_REVERSAL"), "NONE")
    OBVIOUS
  <2>2. Bare(outcome.row) = Reject(Bare(row), "DUPLICATE_REVERSAL")
    BY <1>2, <2>1, WrittenFields, BareCommutes
  <2>3. ReversesTo(Bare(row), i, Bare(outcome.row))
    BY <1>2, <1>3, <1>5, <2>2 DEF ReversesTo
  <2>4. DecidesFor(p, outcome.row)
    BY <1>4, <2>3 DEF DecidesFor
  <2>5. QED BY <1>1, <1>5, <2>1, <2>4, WriteInOrder
<1>6. CASE ~ HasSuccessfulReversal(i) /\ Move(p, How(p), i, ReversalDirection(txs[i].req.kind))
  <2>1. PICK reference, direction, how :
          reference = i /\ direction = ReversalDirection(txs[i].req.kind) /\ how = How(p)
    OBVIOUS
  <2>2. \A after : MovesTo(Bare(row), reference, direction, after) => EndsAs(Bare(row), after)
    BY <1>2, <1>3, <1>4, <1>6, <2>1 DEF ReversesTo
  <2>3. QED BY <1>1, <1>6, <2>1, <2>2, MoveInOrder
<1>7. QED BY <1>5, <1>6 DEF CheckReversed

\* Persist lets a decision in the currency of its wallet through.
LEMMA PersistInOrder ==
  ASSUME TypeOK, TypeOK', LedgerInvariant, HistoryInvariant, DecisionsAreCurrent,
         NEW p \in Procs, Persist(p)
  PROVE  DecisionInOrder(p)'
<1>1. /\ pc[p] = "persist" /\ UNCHANGED <<txs, wallets, holder, job>> /\ DecisionInOrder(p)
  BY DEF Persist, tables, DecisionsAreCurrent
<1>2. CASE Finish(p, Failed("DB_CONFLICT"))
  BY <1>2, HistoryOutcomes, PlainOutcomes, NoWriteInOrder
<1>3. CASE /\ plan[p].row.req.currency = CurrencyOf[plan[p].row.req.wallet]
           /\ Goto(p, "return") /\ plan' = plan
  <2>1. pc'[p] = "return"
    BY <1>3, HistoryOutcomes
  <2>2. plan[p].write # "none" => DecidedNow(p)'
    <3>1. PICK row, after, r : row = Bare(RowAtHand(p)) /\ after = Bare(plan[p].row) /\ r = job[p].req
      OBVIOUS
    <3>2. Bare(RowAtHand(p))' = row
      BY <1>1, <3>1 DEF RowAtHand, Bare
    <3>3. plan[p].write # "none" => DecidedHere(p)
      BY <1>1, SameDecisions DEF DecisionInOrder
    <3>4. plan[p].write # "none" => DecidedHere(p)'
      BY <1>1, <1>3, <3>1, <3>2, <3>3, SameTables DEF DecidedHere
    <3>5. QED BY <3>4, SameDecisions
  <2>3. plan[p].write # "none" => CurrencyOf[job[p].req.wallet] = job[p].req.currency
    BY <1>1, <1>3, PlannedRequest
  <2>4. QED BY <1>1, <1>3, <2>1, <2>2, <2>3 DEF DecisionInOrder, InFlight
<1>4. QED BY <1>2, <1>3 DEF Persist

LEMMA StartInOrder ==
  ASSUME TypeOK
  PROVE  /\ \A p \in Sessions, r \in Requests : Submit(p, r) => DecisionInOrder(p)'
         /\ \A p \in Consumers, m \in Messages : Deliver(p, m) => DecisionInOrder(p)'
         /\ \A p \in Workers, i \in DOMAIN txs : Claim(p, i) => DecisionInOrder(p)'
<1>1. ASSUME NEW p \in Procs, NEW newJob, NEW newPlan, NEW first \in {"lock", "findInbox"},
             Start(p, newJob, newPlan, first), newPlan.write = "none",
             p \notin Workers => newPlan.row = NewExternal(newJob.req)
      PROVE  DecisionInOrder(p)'
  BY <1>1, StartFrame DEF DecisionInOrder, InFlight
<1>2. ASSUME NEW p \in Sessions, NEW r \in Requests, Submit(p, r) PROVE DecisionInOrder(p)'
  <2> DEFINE newJob  == [NoJob EXCEPT !.req = r]
             newPlan == [NoPlan EXCEPT !.row = NewExternal(r)]
  <2>1. newPlan.write = "none" /\ newPlan.row = NewExternal(newJob.req)
    BY PlainOutcomes DEF NoJob
  <2>2. p \in Procs /\ Start(p, newJob, newPlan, "lock")
    BY <1>2 DEF Submit, Procs
  <2> HIDE DEF newJob, newPlan
  <2>3. QED BY <1>1, <2>1, <2>2
<1>3. ASSUME NEW p \in Consumers, NEW m \in Messages, Deliver(p, m) PROVE DecisionInOrder(p)'
  <2> DEFINE newJob  == [NoJob EXCEPT !.req = m.body, !.msg = m.id]
             newPlan == [NoPlan EXCEPT !.row = NewExternal(m.body)]
  <2>1. newPlan.write = "none" /\ newPlan.row = NewExternal(newJob.req)
    BY PlainOutcomes DEF NoJob
  <2>2. p \in Procs /\ Start(p, newJob, newPlan, "findInbox")
    BY <1>3 DEF Deliver, Procs
  <2> HIDE DEF newJob, newPlan
  <2>3. QED BY <1>1, <2>1, <2>2
<1>4. ASSUME NEW p \in Workers, NEW i \in DOMAIN txs, Claim(p, i) PROVE DecisionInOrder(p)'
  <2> DEFINE newJob  == [NoJob EXCEPT !.req = txs[i].req, !.tx = i]
             newPlan == [NoPlan EXCEPT !.row = txs[i]]
  <2>1. newPlan.write = "none"
    BY PlainOutcomes
  <2>2. p \in Procs /\ Start(p, newJob, newPlan, "lock")
    BY <1>4 DEF Claim, Procs
  <2> HIDE DEF newJob, newPlan
  <2>3. QED BY <1>1, <1>4, <2>1, <2>2
<1>5. QED BY <1>2, <1>3, <1>4

\* An operation that ends does not wait; one that waits has its own wallet.
LEMMA EndsSettle ==
  ASSUME NEW row \in Row, NEW after, EndsAs(row, after)
  PROVE  after.status \in {"PROCESSED", "REJECTED"}
<1>1. \A why : Reject(row, why).status = "REJECTED"
  BY DEF Reject, Row
<1>2. ASSUME NEW reference, NEW direction, MovesTo(row, reference, direction, after)
      PROVE  after.status \in {"PROCESSED", "REJECTED"}
  BY <1>2 DEF MovesTo, Moved, MarkProcessed, Reject, Row
<1>3. QED BY <1>1, <1>2 DEF EndsAs, ReversesTo

\* A row that starts or goes on waiting has the player of its wallet.
LEMMA CommitKeepsWaiting ==
  ASSUME TypeOK, HistoryInvariant, DecisionsAreCurrent, NEW p \in Procs, Commit(p)
  PROVE  WaitingRowsMatch'
<1> DEFINE row == plan[p].row
           r   == job[p].req
<1>1. pc[p] = "return" /\ DecisionInOrder(p) /\ WaitingRowsMatch
  BY DEF Commit, DecisionsAreCurrent
<1>2. ASSUME plan[p].write # "none", row.status = "PENDING_REFERENCE"
      PROVE  row.req = r /\ Holder[r.wallet] = r.player
  <2>1. row.req = r /\ row \in Row /\ Bare(row).status = row.status
    BY <1>1, <1>2, PlannedRequest, BareFields DEF TypeOK, Plan
  <2>2. DecidedHere(p) /\ CurrencyOf[r.wallet] = r.currency
    BY <1>1, <1>2, SameDecisions DEF DecisionInOrder, InFlight
  <2>3. Bare(RowAtHand(p)) \in Row /\ RowAtHand(p) \in Row /\ RowAtHand(p).req = r
    BY <1>1, AtHand, BareFields
  <2>4. ~ EndsAs(Bare(RowAtHand(p)), Bare(row))
    BY <1>2, <2>1, <2>3, EndsSettle
  <2>5. CASE Misses(r)
    BY <2>1, <2>5 DEF Misses
  <2>6. CASE p \in Workers
    BY <1>1, <2>1, <2>6, InvariantByProcess DEF HistoryInvariant, ClaimInOrder, WaitingRowsMatch
  <2>7. QED BY <2>1, <2>2, <2>4, <2>5, <2>6 DEF DecidedHere
<1>3. CASE plan[p].write = "none"
  <2>1. txs' = txs
    BY <1>3 DEF Commit, Apply
  <2>2. QED BY <1>1, <2>1 DEF WaitingRowsMatch
<1>4. CASE plan[p].write # "none"
  <2>1. CASE txs' = Append(txs, row) /\ row \in Row
    <3>1. \A i \in DOMAIN txs' : (i \in DOMAIN txs /\ txs'[i] = txs[i]) \/ txs'[i] = row
      BY <2>1, AppendedRow
    <3>2. QED BY <1>1, <1>2, <1>4, <3>1 DEF WaitingRowsMatch
  <2>2. CASE txs' = [txs EXCEPT ![job[p].tx] = row]
    <3>1. \A i \in DOMAIN txs' : i \in DOMAIN txs /\ (txs'[i] = txs[i] \/ txs'[i] = row)
      BY <2>2
    <3>2. QED BY <1>1, <1>2, <1>4, <3>1 DEF WaitingRowsMatch
  <2>3. CASE txs' = txs
    BY <1>1, <2>3 DEF WaitingRowsMatch
  <2>4. QED BY <2>1, <2>2, <2>3, CommittedRow
<1>5. QED BY <1>3, <1>4

LEMMA WaitingNext ==
  ASSUME TypeOK, HistoryInvariant, DecisionsAreCurrent, [Next]_vars
  PROVE  WaitingRowsMatch'
<1>1. CASE txs' = txs
  BY <1>1 DEF DecisionsAreCurrent, WaitingRowsMatch
<1>2. ASSUME NEW p \in Procs, Commit(p) PROVE WaitingRowsMatch'
  BY <1>2, CommitKeepsWaiting
<1>3. ASSUME NEW w \in Wallets, NEW b \in OpeningBalances, OpenWallet(w, b), txs' # txs
      PROVE  WaitingRowsMatch'
  <2>1. b # 0
    BY <1>3 DEF OpenWallet
  <2>2. txs' = Append(txs, OpeningRow(w, b)) /\ OpeningRow(w, b) \in Row
    BY <1>3, <2>1, OpeningRowType DEF OpenWallet, OpeningRow
  <2>3. OpeningRow(w, b).status = "PROCESSED"
    BY DEF OpeningRow, MarkProcessed, NewExternal, BlankRow
  <2>4. \A i \in DOMAIN txs' : (i \in DOMAIN txs /\ txs'[i] = txs[i]) \/ txs'[i] = OpeningRow(w, b)
    BY <2>2, AppendedRow
  <2>5. QED BY <2>3, <2>4 DEF DecisionsAreCurrent, WaitingRowsMatch
<1>4. QED BY <1>1, <1>2, <1>3, OtherStepsKeepRows

LEMMA DecisionsNext ==
  TypeOK /\ TypeOK' /\ LedgerInvariant /\ HistoryInvariant /\ ReversalInvariant
  /\ RowsAreJustified' /\ DecisionsAreCurrent /\ [Next]_vars => DecisionsAreCurrent'
<1> SUFFICES ASSUME TypeOK, TypeOK', LedgerInvariant, HistoryInvariant, ReversalInvariant,
                    RowsAreJustified', DecisionsAreCurrent, [Next]_vars, NEW q \in Procs
             PROVE  DecisionInOrder(q)'
  BY WaitingNext DEF DecisionsAreCurrent
<1>1. CASE Rests(q)
  BY <1>1, RestingDecisions
<1>2. ASSUME NEW p \in Procs, NEW newJob, NEW newPlan, NEW first, Start(p, newJob, newPlan, first),
             DecisionInOrder(p)'
      PROVE  Rests(q) \/ DecisionInOrder(q)'
  BY <1>2, StartFrame DEF Rests
<1>3. CASE \/ \E p \in Sessions, r \in Requests : Submit(p, r)
           \/ \E p \in Consumers, m \in Messages : Deliver(p, m)
           \/ \E p \in Workers, i \in DOMAIN txs : Claim(p, i)
  BY <1>1, <1>2, <1>3, StartInOrder DEF Submit, Deliver, Claim, Procs
<1>4. ASSUME NEW p \in Procs, Release(p) PROVE Rests(q)
  BY <1>4, ReleaseRests
<1>5. ASSUME NEW p \in Procs, Step(p) PROVE Rests(q) \/ DecisionInOrder(q)'
  <2>1. CASE Commit(p) \/ Rollback(p)
    BY <1>4, <2>1 DEF Commit, Rollback
  <2>2. CASE FindInbox(p) \/ RecordInbox(p)
    BY <2>2, InboxDecides, EarlyStepsInOrder DEF Decides, Rests
  <2>3. CASE \/ LockWallet(p) \/ FindByIdempotencyKey(p) \/ FindByExternalID(p)
             \/ FindReference(p) \/ CheckReversed(p) \/ Persist(p)
    <3>1. q # p => Rests(q)
      BY <2>3, LaterStatements DEF Rests
    <3>2. DecisionInOrder(p)'
      BY <2>3, EarlyStepsInOrder, DirectInOrder, ReferenceInOrder, CheckInOrder, PersistInOrder
    <3>3. QED BY <3>1, <3>2
  <2>4. QED BY <1>5, <2>1, <2>2, <2>3 DEF Step
<1>6. CASE \/ UNCHANGED vars
           \/ \E w \in Wallets, b \in OpeningBalances : OpenWallet(w, b)
           \/ \E i \in DOMAIN txs : BecomesDue(i)
  BY <1>1, <1>6 DEF vars, OpenWallet, BecomesDue, work, Rests
<1>7. CASE \E p \in Procs : Crash(p)
  BY <1>1, <1>4, <1>7 DEF Crash
<1>8. QED BY <1>1, <1>3, <1>5, <1>6, <1>7 DEF Next

-----------------------------------------------------------------------------
(* Entries and versions.                                                   *)

\* What a commit moves is what its row says.
LEMMA CommittedMovement ==
  ASSUME TypeOK, HistoryInvariant, ReversalInvariant, NEW p \in Procs, Commit(p),
         plan[p].write # "none"
  PROVE  /\ plan[p].row \in Row /\ plan[p].row.req = job[p].req
         /\ plan[p].row.req.kind \in ExternalKinds
         /\ plan[p].direction # "NONE" <=> plan[p].row.status = "PROCESSED" /\ plan[p].row.req.kind # "LOSS"
<1> DEFINE row == plan[p].row
<1>1. row \in Row /\ row.req = job[p].req /\ pc[p] = "return"
  BY PlannedRequest DEF Commit, TypeOK, Plan
<1>2. plan[p].direction = IF row.status = "PROCESSED" THEN DirectionOf(row) ELSE "NONE"
  BY DEF ReversalInvariant, PlansAreJustified, OutcomeIsJustified
<1>3. row.req \in Requests
  <2>1. CASE p \in Workers
    <3>1. txs[job[p].tx].status = "PENDING_REFERENCE" /\ job[p].tx \in DOMAIN txs
          /\ txs[job[p].tx].req = row.req
      BY <1>1, <2>1, InvariantByProcess DEF HistoryInvariant, ClaimInOrder
    <3>2. IsReversal(row.req.kind)
      BY <3>1 DEF ReversalInvariant, RowsAreJustified, Justified
    <3>3. QED BY <1>1, <3>2 DEF Row, StoredRequests, OpeningRequest, IsReversal
  <2>2. CASE p \notin Workers
    BY <1>1, <2>2, InvariantByProcess DEF HistoryInvariant, RequestInOrder, Procs
  <2>3. QED BY <2>1, <2>2
<1>4. row.req.kind \in ExternalKinds
  BY <1>3, DomainAssumption DEF Request
<1>5. DirectionOf(row) = "NONE" <=> row.req.kind = "LOSS"
  BY <1>4 DEF DirectionOf, ExternalKinds, IsReversal, ReversalDirection, DirectDirection
<1>6. QED BY <1>1, <1>2, <1>4, <1>5

\* A movement is one version of its wallet.
LEMMA MovementCounts ==
  ASSUME TypeOK, LedgerInvariant, HistoryInvariant, ReversalInvariant, DecisionsAreCurrent,
         NEW p \in Procs, Commit(p), plan[p].write # "none", plan[p].direction # "NONE"
  PROVE  /\ job[p].req.wallet \in Wallets /\ wallets[job[p].req.wallet].open
         /\ plan[p].row.version = wallets[job[p].req.wallet].version + 1
<1> DEFINE r     == job[p].req
           row   == Bare(RowAtHand(p))
           after == Bare(plan[p].row)
<1>1. /\ pc[p] = "return" /\ r.wallet \in Wallets
      /\ row \in Row /\ row.req = r /\ plan[p].row \in Row /\ plan[p].row.req = r
      /\ r.kind \in ExternalKinds /\ r.kind # "LOSS"
      /\ after.status = "PROCESSED" /\ after.version = plan[p].row.version
  BY CommittedMovement, AtHand, BareFields DEF Commit
<1>2. DecidedHere(p) /\ CurrencyOf[r.wallet] = r.currency /\ holder[r.wallet] = p
  BY <1>1, SameDecisions DEF DecisionsAreCurrent, DecisionInOrder, InFlight
<1>3. wallets[r.wallet].open
  BY <1>1, <1>2, EngineAssumption DEF LedgerInvariant, ClosedIsUntouched
<1>4. /\ \A why : Reject(row, why).status = "REJECTED"
      /\ MarkPendingReference(row).status = "PENDING_REFERENCE"
      /\ p \in Workers => row.status = "PENDING_REFERENCE"
  <2>1. p \in Workers => row.status = "PENDING_REFERENCE"
    BY <1>1, AtHand, BareFields, InvariantByProcess DEF HistoryInvariant, ClaimInOrder, RowAtHand
  <2>2. QED BY <1>1, <2>1 DEF Reject, MarkPendingReference, Row
<1>5. EndsAs(row, after)
  BY <1>1, <1>2, <1>4 DEF DecidedHere
<1>6. \E reference, direction : direction # "NONE" /\ MovesTo(row, reference, direction, after)
  <2>1. \A i : ReversesTo(row, i, after) =>
          MovesTo(row, i, ReversalDirection(txs[i].req.kind), after)
    BY <1>1, <1>4 DEF ReversesTo
  <2>2. \A kind : ReversalDirection(kind) # "NONE"
    BY DEF ReversalDirection
  <2>3. ~ IsReversal(r.kind) => DirectDirection(r.kind) # "NONE"
    BY <1>1 DEF ExternalKinds, IsReversal, DirectDirection
  <2>4. QED BY <1>1, <1>4, <1>5, <2>1, <2>2, <2>3 DEF EndsAs
<1>7. PICK reference, direction : direction # "NONE" /\ MovesTo(row, reference, direction, after)
  BY <1>6
<1>8. after.version = wallets[r.wallet].version + 1
  BY <1>1, <1>7 DEF MovesTo, Moved, Reject, MarkProcessed, VersionAfter, Row
<1>9. QED BY <1>1, <1>3, <1>8

\* EntryPerMovement, entry by entry.
Unrecorded(i) == \A v \in Wallets : \A n \in DOMAIN ledger[v] : ledger[v][n].tx # i
RecordedAt(i, row, w, k) ==
  /\ k \in DOMAIN ledger[w] /\ ledger[w][k].tx = i
  /\ \A v \in Wallets : \A n \in DOMAIN ledger[v] : ledger[v][n].tx = i => v = w /\ n = k
  /\ ledger[w][k].amount = row.req.amount
  /\ ledger[w][k].after = row.balance
  /\ row.version = k + VersionBefore(w)
RecordedOrNot(i, row) ==
  IF Moves(row) THEN \E k : RecordedAt(i, row, row.req.wallet, k) ELSE Unrecorded(i)
EntriesInOrder == \A i \in DOMAIN txs : RecordedOrNot(i, txs[i])

LEMMA EntryForm == TypeOK => (EntryPerMovement <=> EntriesInOrder)
<1> SUFFICES ASSUME TypeOK PROVE EntryPerMovement <=> EntriesInOrder
  OBVIOUS
<1>1. \A i, e : e \in EntriesOf(i) <=>
        \E v \in Wallets : \E n \in DOMAIN ledger[v] : e = <<v, n>> /\ ledger[v][n].tx = i
  BY DEF EntriesOf
<1>2. \A i : EntriesOf(i) = {} <=> Unrecorded(i)
  BY <1>1 DEF Unrecorded
<1>3. ASSUME NEW i, NEW w \in Wallets, NEW k \in DOMAIN ledger[w]
      PROVE  EntriesOf(i) = {<<w, k>>} <=>
               /\ ledger[w][k].tx = i
               /\ \A v \in Wallets : \A n \in DOMAIN ledger[v] : ledger[v][n].tx = i => v = w /\ n = k
  <2>1. ASSUME EntriesOf(i) = {<<w, k>>}
        PROVE  /\ ledger[w][k].tx = i
               /\ \A v \in Wallets : \A n \in DOMAIN ledger[v] : ledger[v][n].tx = i => v = w /\ n = k
    <3>1. <<w, k>> \in EntriesOf(i)
      BY <2>1
    <3>2. \A v \in Wallets : \A n \in DOMAIN ledger[v] : ledger[v][n].tx = i => <<v, n>> = <<w, k>>
      BY <1>1, <2>1
    <3>3. QED BY <1>1, <3>1, <3>2
  <2>2. ASSUME ledger[w][k].tx = i,
               \A v \in Wallets : \A n \in DOMAIN ledger[v] : ledger[v][n].tx = i => v = w /\ n = k
        PROVE  EntriesOf(i) = {<<w, k>>}
    BY <1>1, <2>2
  <2>3. QED BY <2>1, <2>2
<1>4. ASSUME NEW i \in DOMAIN txs PROVE txs[i].req.wallet \in Wallets
  <2>1. txs[i] \in Row
    BY DEF TypeOK
  <2>2. QED BY <2>1, RequestFields DEF Row
<1>5. ASSUME NEW i \in DOMAIN txs
      PROVE  (\E k : RecordedAt(i, txs[i], txs[i].req.wallet, k)) <=>
             \E k \in DOMAIN ledger[txs[i].req.wallet] :
               /\ EntriesOf(i) = {<<txs[i].req.wallet, k>>}
               /\ ledger[txs[i].req.wallet][k].amount = txs[i].req.amount
               /\ ledger[txs[i].req.wallet][k].after = txs[i].balance
               /\ txs[i].version = k + VersionBefore(txs[i].req.wallet)
  BY <1>3, <1>4 DEF RecordedAt
<1>6. QED BY <1>2, <1>5 DEF EntryPerMovement, EntriesInOrder, RecordedOrNot, Moves

\* The first entry of a wallet, once there, tells its first version for ever.
LEMMA VersionBeforeStays ==
  ASSUME TypeOK, HistoryInvariant, ReversalInvariant, [Next]_vars, NEW v \in Wallets,
         \/ ledger'[v] = ledger[v]
         \/ ledger[v] # <<>> /\ 1 \in DOMAIN ledger'[v] /\ ledger'[v][1] = ledger[v][1]
  PROVE  VersionBefore(v)' = VersionBefore(v)
<1>1. CASE ledger[v] = <<>>
  BY <1>1 DEF VersionBefore
<1>2. CASE ledger[v] # <<>>
  <2>1. ledger[v] \in Seq(Entry) /\ 1 \in DOMAIN ledger[v]
    BY <1>2 DEF TypeOK
  <2>2. PICK first : first = ledger[v][1].tx
    OBVIOUS
  <2>3. first \in DOMAIN txs
    BY <2>1, <2>2 DEF ReversalInvariant, EntriesAreRecorded
  <2>4. txs'[first].req = txs[first].req
    BY <2>3, SettledRowsStay
  <2>5. ledger'[v] # <<>> /\ ledger'[v][1].tx = first
    BY <1>2, <2>1, <2>2
  <2>6. QED BY <1>2, <2>2, <2>4, <2>5 DEF VersionBefore
<1>3. QED BY <1>1, <1>2

\* The entry that arrives with row, whose version it counts.
EntryArrives(t, row) ==
  \E w \in Wallets, entry \in Entry :
    /\ row.req.wallet = w
    /\ ledger' = [ledger EXCEPT ![w] = Append(@, entry)]
    /\ entry.tx = t /\ entry.amount = row.req.amount /\ entry.after = row.balance
    /\ row.version = Len(ledger[w]) + 1 + VersionBefore(w)'

LEMMA ArrivalKeepsOrder ==
  ASSUME TypeOK, HistoryInvariant, ReversalInvariant, [Next]_vars, EntriesInOrder,
         NEW t, NEW row, Arrives(t, row),
         IF Moves(row) THEN EntryArrives(t, row) ELSE ledger' = ledger
  PROVE  EntriesInOrder'
<1>1. \A v \in Wallets : \A n \in DOMAIN ledger[v] :
        n \in DOMAIN ledger'[v] /\ ledger'[v][n] = ledger[v][n]
  <2>1. CASE Moves(row)
    <3>1. PICK w \in Wallets, entry \in Entry : ledger' = [ledger EXCEPT ![w] = Append(@, entry)]
      BY <2>1 DEF EntryArrives
    <3>2. ASSUME NEW v \in Wallets, NEW n \in DOMAIN ledger[v]
          PROVE  n \in DOMAIN ledger'[v] /\ ledger'[v][n] = ledger[v][n]
      <4>1. ledger[v] \in Seq(Entry) /\ DOMAIN ledger[v] = 1..Len(ledger[v]) /\ Len(ledger[v]) \in Nat
        BY DEF TypeOK
      <4>2. ledger'[v] = ledger[v] \/ ledger'[v] = Append(ledger[v], entry)
        BY <3>1 DEF TypeOK
      <4>3. QED BY <4>1, <4>2, AppendProperties
    <3>3. QED BY <3>2
  <2>2. QED BY <2>1
<1>2. ASSUME NEW v \in Wallets, NEW n \in DOMAIN ledger'[v], n \notin DOMAIN ledger[v]
      PROVE  /\ Moves(row) /\ v = row.req.wallet /\ n = Len(ledger[v]) + 1
             /\ ledger'[v][n].tx = t /\ ledger'[v][n].amount = row.req.amount
             /\ ledger'[v][n].after = row.balance
  <2>1. Moves(row)
    BY <1>2
  <2>2. PICK w \in Wallets, entry \in Entry :
          /\ row.req.wallet = w
          /\ ledger' = [ledger EXCEPT ![w] = Append(@, entry)]
          /\ entry.tx = t /\ entry.amount = row.req.amount /\ entry.after = row.balance
    BY <2>1 DEF EntryArrives
  <2>3. v = row.req.wallet
    BY <1>2, <2>2 DEF TypeOK
  <2>4. ledger[v] \in Seq(Entry) /\ ledger'[v] = Append(ledger[v], entry)
    BY <2>2, <2>3 DEF TypeOK
  <2>5. /\ DOMAIN ledger'[v] = 1..(Len(ledger[v]) + 1) /\ DOMAIN ledger[v] = 1..Len(ledger[v])
        /\ ledger'[v][Len(ledger[v]) + 1] = entry /\ Len(ledger[v]) \in Nat
    BY <2>4, AppendProperties
  <2>6. n = Len(ledger[v]) + 1
    BY <1>2, <2>5
  <2>7. QED BY <2>1, <2>2, <2>3, <2>5, <2>6
<1>3. \A v \in Wallets : \A n \in DOMAIN ledger[v] : ledger[v][n].tx # t
  <2>1. CASE t \in DOMAIN txs
    BY <2>1 DEF Arrives, EntriesInOrder, RecordedOrNot, Moves, Unrecorded
  <2>2. CASE t \notin DOMAIN txs
    BY <2>2 DEF ReversalInvariant, EntriesAreRecorded
  <2>3. QED BY <2>1, <2>2
<1>4. ASSUME NEW i \in DOMAIN txs, i # t
      PROVE  \E own : own = txs'[i] /\ RecordedOrNot(i, own)'
  <2>1. PICK own : own = txs[i]
    OBVIOUS
  <2>2. own = txs'[i] /\ own.req.wallet \in Wallets /\ RecordedOrNot(i, own)
    <3>1. own \in Row
      BY <2>1 DEF TypeOK
    <3>2. own.req.wallet \in Wallets
      BY <3>1, RequestFields DEF Row
    <3>3. own = txs'[i]
      BY <1>4, <2>1 DEF Arrives
    <3>4. QED BY <2>1, <3>2, <3>3 DEF EntriesInOrder
  <2>3. CASE ~ Moves(own)
    <3>1. Unrecorded(i)
      BY <2>2, <2>3 DEF RecordedOrNot
    <3>2. Unrecorded(i)'
      BY <1>1, <1>2, <1>4, <3>1 DEF Unrecorded
    <3>3. QED BY <2>2, <2>3, <3>2 DEF RecordedOrNot
  <2>4. CASE Moves(own)
    <3>1. PICK k : RecordedAt(i, own, own.req.wallet, k)
      BY <2>2, <2>4 DEF RecordedOrNot
    <3>2. k \in DOMAIN ledger[own.req.wallet] /\ ledger[own.req.wallet] \in Seq(Entry)
      BY <2>2, <3>1 DEF RecordedAt, TypeOK
    <3>3. /\ ledger[own.req.wallet] # <<>> /\ 1 \in DOMAIN ledger[own.req.wallet]
      BY <3>2
    <3>4. VersionBefore(own.req.wallet)' = VersionBefore(own.req.wallet)
      BY <1>1, <2>2, <3>3, VersionBeforeStays
    <3>5. RecordedAt(i, own, own.req.wallet, k)'
      BY <1>1, <1>2, <1>4, <2>2, <3>1, <3>4 DEF RecordedAt
    <3>6. QED BY <2>2, <2>4, <3>5 DEF RecordedOrNot
  <2>5. QED BY <2>3, <2>4
<1>5. RecordedOrNot(t, row)'
  <2>1. CASE ~ Moves(row)
    BY <1>3, <2>1 DEF RecordedOrNot, Unrecorded
  <2>2. CASE Moves(row)
    <3>1. PICK w \in Wallets, entry \in Entry :
            /\ row.req.wallet = w
            /\ ledger' = [ledger EXCEPT ![w] = Append(@, entry)]
            /\ entry.tx = t /\ entry.amount = row.req.amount /\ entry.after = row.balance
            /\ row.version = Len(ledger[w]) + 1 + VersionBefore(w)'
      BY <2>2 DEF EntryArrives
    <3>0. PICK k : k = Len(ledger[w]) + 1
      OBVIOUS
    <3>2. ledger[w] \in Seq(Entry) /\ ledger'[w] = Append(ledger[w], entry)
      BY <3>1 DEF TypeOK
    <3>3. k \in DOMAIN ledger'[w] /\ ledger'[w][k] = entry
      BY <3>2, <3>0, AppendProperties
    <3>4. \A v \in Wallets : \A n \in DOMAIN ledger'[v] : ledger'[v][n].tx = t => v = w /\ n = k
      BY <1>1, <1>2, <1>3, <3>1, <3>0
    <3>5. RecordedAt(t, row, row.req.wallet, k)'
      BY <3>1, <3>0, <3>3, <3>4 DEF RecordedAt, VersionBefore
    <3>6. QED BY <2>2, <3>5 DEF RecordedOrNot
  <2>3. QED BY <2>1, <2>2
<1>6. ASSUME NEW i \in DOMAIN txs' PROVE RecordedOrNot(i, txs[i])'
  <2>1. \E own : own = txs'[i] /\ RecordedOrNot(i, own)'
    BY <1>4, <1>5 DEF Arrives
  <2>2. PICK own : own = txs'[i] /\ RecordedOrNot(i, own)'
    BY <2>1
  <2>3. CASE Moves(own)
    <3>1. PICK k : RecordedAt(i, own, own.req.wallet, k)'
      BY <2>2, <2>3 DEF RecordedOrNot, Moves
    <3>2. RecordedAt(i, txs[i], txs[i].req.wallet, k)'
      BY <2>2, <3>1 DEF RecordedAt, VersionBefore
    <3>3. QED BY <2>2, <2>3, <3>2 DEF RecordedOrNot, Moves
  <2>4. CASE ~ Moves(own)
    BY <2>2, <2>4 DEF RecordedOrNot, Moves, Unrecorded
  <2>5. QED BY <2>3, <2>4
<1>7. QED BY <1>6 DEF EntriesInOrder

\* Entries and rows that stay are in order as they were.
LEMMA SameEntries ==
  ASSUME ledger' = ledger, txs' = txs, EntriesInOrder
  PROVE  EntriesInOrder'
<1>1. \A v : VersionBefore(v)' = VersionBefore(v)
  BY DEF VersionBefore
<1>2. \A i : Unrecorded(i)' <=> Unrecorded(i)
  BY DEF Unrecorded
<1>3. ASSUME NEW i, NEW k PROVE RecordedAt(i, txs[i], txs[i].req.wallet, k)' <=> RecordedAt(i, txs[i], txs[i].req.wallet, k)
  BY <1>1 DEF RecordedAt
<1>4. ASSUME NEW i PROVE RecordedOrNot(i, txs[i])' <=> RecordedOrNot(i, txs[i])
  BY <1>2, <1>3 DEF RecordedOrNot, Moves
<1>5. QED BY <1>4 DEF EntriesInOrder

LEMMA CommitKeepsOrder ==
  ASSUME TypeOK, LedgerInvariant, HistoryInvariant, ReversalInvariant, DecisionsAreCurrent,
         VersionsCountEntries, EntriesInOrder, NEW p \in Procs, Commit(p)
  PROVE  VersionsCountEntries' /\ EntriesInOrder'
<1>0. PICK row, w, t : row = plan[p].row /\ w = row.req.wallet /\ t = TxId(p)
  OBVIOUS
<1>1. [Next]_vars
  BY DEF Next, Step
<1>2. CASE plan[p].direction = "NONE"
  <2>1. ledger' = ledger /\ wallets' = wallets
    BY <1>2 DEF Commit, Apply
  <2>2. \A v \in Wallets : VersionBefore(v)' = VersionBefore(v)
    BY <1>1, <2>1, VersionBeforeStays
  <2>3. VersionsCountEntries'
    BY <2>1, <2>2 DEF VersionsCountEntries
  <2>4. CASE plan[p].write = "none"
    <3>1. txs' = txs
      BY <2>4 DEF Commit, Apply
    <3>2. QED BY <2>1, <2>3, <3>1, SameEntries
  <2>5. CASE plan[p].write # "none"
    <3>1. Arrives(t, row) /\ row \in Row /\ ~ Moves(row)
      BY <1>0, <1>2, <2>5, CommitArrives, CommittedMovement DEF Moves
    <3>2. QED BY <1>1, <2>1, <2>3, <3>1, ArrivalKeepsOrder
  <2>6. QED BY <2>4, <2>5
<1>3. CASE plan[p].direction # "NONE"
  <2>1. plan[p].write # "none"
    BY <1>3 DEF ReversalInvariant, PlansAreJustified, OutcomeIsJustified
  <2>2. /\ Arrives(t, row) /\ row \in Row /\ row.req = job[p].req /\ Moves(row)
        /\ row.req.kind \in ExternalKinds
    BY <1>0, <1>3, <2>1, CommitArrives, CommittedMovement DEF Moves
  <2>3. w \in Wallets /\ wallets[w].open /\ row.version = wallets[w].version + 1
    BY <1>0, <1>3, <2>1, <2>2, MovementCounts
  <2>4. /\ ledger' = [ledger EXCEPT ![w] = Append(@, Movement(p))]
        /\ wallets' = [wallets EXCEPT ![w] = [open |-> TRUE, balance |-> row.balance,
                                              version |-> row.version]]
    BY <1>0, <1>3, <2>2 DEF Commit, Apply
  <2>5. /\ Movement(p).tx = t /\ Movement(p).amount = row.req.amount
        /\ Movement(p).after = row.balance
    BY <1>0 DEF Movement
  <2>6. Movement(p) \in Entry
    <3>1. t \in Nat
      BY <1>0 DEF TypeOK, Job, TxId
    <3>2. /\ plan[p].direction \in {"CREDIT", "DEBIT"}
          /\ view[p].balance \in 0..MaxMinor /\ row.balance \in 0..MaxMinor
          /\ row.req.amount \in 0..MaxMinor
      BY <1>0, <1>3, <2>2, RequestFields DEF TypeOK, Plan, Row, Wallet, Directions
    <3>3. QED BY <1>0, <3>1, <3>2 DEF Movement, Entry
  <2>7. /\ ledger[w] \in Seq(Entry) /\ Len(ledger[w]) \in Nat
        /\ ledger'[w] = Append(ledger[w], Movement(p)) /\ Len(ledger'[w]) = Len(ledger[w]) + 1
        /\ DOMAIN ledger[w] = 1..Len(ledger[w]) /\ DOMAIN ledger'[w] = 1..(Len(ledger[w]) + 1)
        /\ \A n \in DOMAIN ledger[w] : ledger'[w][n] = ledger[w][n]
        /\ ledger'[w][Len(ledger[w]) + 1] = Movement(p)
    <3>1. ledger[w] \in Seq(Entry) /\ ledger'[w] = Append(ledger[w], Movement(p))
      BY <2>3, <2>4 DEF TypeOK
    <3>2. QED BY <2>6, <3>1, AppendProperties
  <2>8. VersionBefore(w)' = VersionBefore(w)
    <3>1. CASE ledger[w] = <<>>
      <4>1. VersionBefore(w) = 1
        BY <3>1 DEF VersionBefore
      <4>2. ledger'[w] # <<>> /\ ledger'[w][1].tx = t
        BY <2>5, <2>7, <3>1
      <4>3. txs'[t].req.kind # "OPENING"
        BY <2>2 DEF Arrives, ExternalKinds
      <4>4. QED BY <4>1, <4>2, <4>3 DEF VersionBefore
    <3>2. CASE ledger[w] # <<>>
      <4>1. 1 \in DOMAIN ledger[w]
        BY <2>7, <3>2
      <4>2. 1 \in DOMAIN ledger'[w] /\ ledger'[w][1] = ledger[w][1]
        BY <2>7, <4>1
      <4>3. QED BY <1>1, <2>3, <3>2, <4>2, VersionBeforeStays
    <3>3. QED BY <3>1, <3>2
  <2>9. /\ VersionBefore(w) \in Nat
        /\ wallets[w].version = Len(ledger[w]) + VersionBefore(w)
    BY <2>3 DEF VersionsCountEntries, VersionBefore
  <2>10. row.version = Len(ledger[w]) + 1 + VersionBefore(w)'
    BY <2>3, <2>7, <2>8, <2>9
  <2>11. EntryArrives(t, row)
    BY <1>0, <2>3, <2>4, <2>5, <2>6, <2>10 DEF EntryArrives
  <2>12. EntriesInOrder'
    BY <1>1, <2>2, <2>3, <2>11, ArrivalKeepsOrder
  <2>13. ASSUME NEW v \in Wallets, wallets'[v].open
         PROVE  wallets'[v].version = Len(ledger'[v]) + VersionBefore(v)'
    <3>1. CASE v = w
      <4>1. wallets'[v].version = row.version
        BY <2>3, <2>4, <3>1 DEF TypeOK
      <4>2. /\ row.version = Len(ledger[v]) + 1 + VersionBefore(v)'
            /\ Len(ledger'[v]) = Len(ledger[v]) + 1
        BY <2>7, <2>10, <3>1 DEF VersionBefore
      <4>3. QED BY <4>1, <4>2
    <3>2. CASE v # w
      <4>1. wallets'[v] = wallets[v] /\ ledger'[v] = ledger[v]
        BY <2>4, <3>2 DEF TypeOK
      <4>2. VersionBefore(v)' = VersionBefore(v)
        BY <1>1, <4>1, VersionBeforeStays
      <4>3. QED BY <2>13, <4>1, <4>2 DEF VersionsCountEntries
    <3>3. QED BY <3>1, <3>2
  <2>14. QED BY <2>12, <2>13 DEF VersionsCountEntries
<1>4. QED BY <1>2, <1>3

LEMMA OpeningKeepsOrder ==
  ASSUME TypeOK, LedgerInvariant, HistoryInvariant, ReversalInvariant,
         VersionsCountEntries, EntriesInOrder,
         NEW w \in Wallets, NEW b \in OpeningBalances, OpenWallet(w, b)
  PROVE  VersionsCountEntries' /\ EntriesInOrder'
<1>1. [Next]_vars /\ ledger[w] = <<>>
  BY DEF Next, OpenWallet, LedgerInvariant, ClosedIsUntouched
<1>2. /\ wallets'[w].version = 1
      /\ \A v \in Wallets \ {w} : wallets'[v] = wallets[v]
  BY DEF OpenWallet, TypeOK
<1>3. CASE b = 0
  <2>1. ledger' = ledger /\ txs' = txs
    BY <1>3 DEF OpenWallet
  <2>2. EntriesInOrder'
    BY <2>1, SameEntries
  <2>3. ASSUME NEW v \in Wallets, wallets'[v].open
        PROVE  wallets'[v].version = Len(ledger'[v]) + VersionBefore(v)'
    <3>1. VersionBefore(v)' = VersionBefore(v)
      BY <2>1 DEF VersionBefore
    <3>2. CASE v = w
      <4>1. VersionBefore(v) = 1 /\ wallets'[v].version = 1 /\ Len(ledger'[v]) = 0
        BY <1>1, <1>2, <2>1, <3>2 DEF VersionBefore
      <4>2. QED BY <3>1, <4>1
    <3>3. CASE v # w
      BY <1>2, <2>1, <2>3, <3>1, <3>3 DEF VersionsCountEntries
    <3>4. QED BY <3>2, <3>3
  <2>4. QED BY <2>2, <2>3 DEF VersionsCountEntries
<1>4. CASE b # 0
  <2>0. PICK t : t = Len(txs) + 1
    OBVIOUS
  <2> DEFINE row == OpeningRow(w, b)
             entry == [tx |-> t, direction |-> "CREDIT", amount |-> b, before |-> 0, after |-> b]
  <2>1. row \in Row /\ txs' = Append(txs, row) /\ ledger' = [ledger EXCEPT ![w] = Append(@, entry)]
    BY <1>4, <2>0, OpeningRowType DEF OpenWallet, OpeningRow
  <2>2. /\ row.status = "PROCESSED" /\ row.req.kind = "OPENING"
        /\ row.req.wallet = w /\ row.req.amount = b /\ row.balance = b /\ row.version = 1
    BY DEF OpeningRow, MarkProcessed, NewExternal, BlankRow, OpeningRequest
  <2>3. entry \in Entry /\ entry.tx = t /\ entry.amount = b /\ entry.after = b
    BY <2>0, EngineAssumption, DomainAssumption DEF Entry, TypeOK
  <2> HIDE DEF row, entry
  <2>4. Justified(row) /\ ~ Reverses(row)
    BY <2>2 DEF Justified, Reverses, IsReversal
  <2>5. Arrives(t, row)
    BY <2>0, <2>1, <2>4, AppendArrives
  <2>6. ledger'[w] = Append(<<>>, entry) /\ Len(ledger'[w]) = 1 /\ ledger'[w][1] = entry
    BY <1>1, <2>1 DEF TypeOK
  <2>7. VersionBefore(w)' = 0
    <3>1. ledger'[w] # <<>> /\ ledger'[w][1].tx = t /\ txs'[t].req.kind = "OPENING"
      BY <2>2, <2>3, <2>5, <2>6 DEF Arrives
    <3>2. QED BY <3>1 DEF VersionBefore
  <2>8. EntryArrives(t, row)
    <3>1. Len(ledger[w]) = 0
      BY <1>1
    <3>2. row.version = Len(ledger[w]) + 1 + VersionBefore(w)'
      BY <2>2, <2>7, <3>1
    <3>3. QED BY <2>1, <2>2, <2>3, <3>2 DEF EntryArrives
  <2>9. EntriesInOrder'
    BY <1>1, <2>2, <2>5, <2>8, ArrivalKeepsOrder DEF Moves
  <2>10. ASSUME NEW v \in Wallets, wallets'[v].open
         PROVE  wallets'[v].version = Len(ledger'[v]) + VersionBefore(v)'
    <3>1. CASE v = w
      <4>1. VersionBefore(v)' = 0 /\ wallets'[v].version = 1 /\ Len(ledger'[v]) = 1
        BY <1>2, <2>6, <2>7, <3>1 DEF VersionBefore
      <4>2. QED BY <4>1
    <3>2. CASE v # w
      <4>1. wallets'[v] = wallets[v] /\ ledger'[v] = ledger[v]
        BY <1>2, <2>1, <3>2 DEF TypeOK
      <4>2. VersionBefore(v)' = VersionBefore(v)
        BY <1>1, <4>1, VersionBeforeStays
      <4>3. QED BY <2>10, <4>1, <4>2 DEF VersionsCountEntries
    <3>3. QED BY <3>1, <3>2
  <2>11. QED BY <2>9, <2>10 DEF VersionsCountEntries
<1>5. QED BY <1>3, <1>4

\* Only a commit and an opening add an entry.
LEMMA OtherStepsKeepEntries ==
  ASSUME [Next]_vars,
         \A p \in Procs : ~ Commit(p),
         \A w \in Wallets, b \in OpeningBalances : ~ OpenWallet(w, b)
  PROVE  ledger' = ledger
<1>1. CASE \E i \in DOMAIN txs : BecomesDue(i)
  BY <1>1 DEF BecomesDue
<1>2. CASE \E p \in Workers, i \in DOMAIN txs : Claim(p, i)
  BY <1>2 DEF Claim, Start, tables
<1>3. QED
  BY <1>1, <1>2 DEF Next, Step, vars, tables, Submit, Deliver, Start, FindInbox, RecordInbox,
     LockWallet, FindByIdempotencyKey, FindByExternalID, FindReference, CheckReversed, Persist,
     Rollback, Crash

LEMMA EntriesNext ==
  TypeOK /\ LedgerInvariant /\ HistoryInvariant /\ ReversalInvariant /\ DecisionsAreCurrent
  /\ VersionsCountEntries /\ EntriesInOrder /\ [Next]_vars => VersionsCountEntries' /\ EntriesInOrder'
<1> SUFFICES ASSUME TypeOK, LedgerInvariant, HistoryInvariant, ReversalInvariant, DecisionsAreCurrent,
                    VersionsCountEntries, EntriesInOrder, [Next]_vars
             PROVE  VersionsCountEntries' /\ EntriesInOrder'
  OBVIOUS
<1>1. CASE \E p \in Procs : Commit(p)
  BY <1>1, CommitKeepsOrder
<1>2. CASE \E w \in Wallets, b \in OpeningBalances : OpenWallet(w, b)
  BY <1>2, OpeningKeepsOrder
<1>3. CASE txs' = txs /\ ledger' = ledger /\ wallets' = wallets
  <2>1. VersionsCountEntries'
    BY <1>3 DEF VersionsCountEntries, VersionBefore
  <2>2. EntriesInOrder'
    BY <1>3, SameEntries
  <2>3. QED BY <2>1, <2>2
<1>4. QED BY <1>1, <1>2, <1>3, OtherStepsKeepRows, OtherStepsKeepEntries, OtherStepsKeepWallets

LEMMA EntriesInit == Init => VersionsCountEntries /\ EntriesInOrder
BY DEF Init, ClosedWallet, VersionsCountEntries, EntriesInOrder

LEMMA DecisionsInit == Init => DecisionsAreCurrent
<1> SUFFICES ASSUME Init PROVE DecisionsAreCurrent
  OBVIOUS
<1>1. \A p \in Procs : pc[p] = "idle" /\ plan[p] = NoPlan
  BY DEF Init
<1>2. DOMAIN txs = {}
  BY DEF Init
<1>3. QED BY <1>1, <1>2, PlainOutcomes DEF DecisionsAreCurrent, DecisionInOrder, WaitingRowsMatch, InFlight

-----------------------------------------------------------------------------
(* The outbox.                                                             *)

\* A set of naturals with 0 and every successor has them all: what makes
\* induction over lengths possible.
LEMMA Induction ==
  ASSUME NEW S \in SUBSET Nat, 0 \in S, \A n \in S : n + 1 \in S
  PROVE  \A n \in Nat : n \in S
<1> SUFFICES ASSUME Nat \ S # {} PROVE FALSE
  OBVIOUS
<1>1. IsWellFoundedOn({ss \in Nat \X Nat : ss[1] < ss[2]}, Nat)
  BY NatLessThanWellFounded, Zenon DEF OpToRel
<1>2. PICK x \in Nat \ S : \A y \in Nat \ S : <<y, x>> \notin {ss \in Nat \X Nat : ss[1] < ss[2]}
  BY <1>1, WFMin, Nat \ S \subseteq Nat, Zenon
<1>3. x # 0 /\ x - 1 \in Nat /\ x - 1 < x /\ (x - 1) + 1 = x
  OBVIOUS
<1>4. x - 1 \in S
  BY <1>2, <1>3
<1>5. QED BY <1>3, <1>4

\* A computation that goes through a list from an initial value, as a function
\* of the number of elements it has seen.
Computes(f, n, V, v, step) ==
  f \in [0..n -> V] /\ f[0] = v /\ \A k \in 1..n : f[k] = step[k][f[k - 1]]

\* Such a function exists whatever a step does.
LEMMA Computation ==
  ASSUME NEW V, NEW n \in Nat, NEW v \in V, NEW step \in [Nat -> [V -> V]]
  PROVE  \E f : Computes(f, n, V, v, step)
<1> DEFINE Good(m, f) == f \in [0..m -> V] /\ f[0] = v /\ \A k \in 1..m : f[k] = step[k][f[k - 1]]
           S == {m \in Nat : \E f : Good(m, f)}
<1>1. 0 \in S
  <2>1. Good(0, [k \in 0..0 |-> v])
    OBVIOUS
  <2>2. QED BY <2>1
<1>2. ASSUME NEW m \in S PROVE m + 1 \in S
  <2>1. PICK f : Good(m, f)
    OBVIOUS
  <2> DEFINE g == [k \in 0..(m + 1) |-> IF k = m + 1 THEN step[m + 1][f[m]] ELSE f[k]]
  <2>2. step[m + 1][f[m]] \in V
    BY <2>1
  <2>3. g \in [0..(m + 1) -> V] /\ g[0] = v
    BY <2>1, <2>2
  <2>4. ASSUME NEW k \in 1..(m + 1) PROVE g[k] = step[k][g[k - 1]]
    <3>1. k - 1 \in 0..m /\ g[k - 1] = f[k - 1]
      OBVIOUS
    <3>2. CASE k = m + 1
      BY <3>1, <3>2
    <3>3. CASE k # m + 1
      BY <2>1, <3>1, <3>3
    <3>4. QED BY <3>2, <3>3
  <2>5. Good(m + 1, g)
    BY <2>3, <2>4
  <2>6. m + 1 \in Nat
    OBVIOUS
  <2> HIDE DEF Good, g
  <2>7. QED BY <2>5, <2>6
<1>3. n \in S
  <2> HIDE DEF S
  <2>1. QED BY <1>1, <1>2, Induction DEF S
<1>4. QED BY <1>3 DEF Computes


\* The elements of s at the positions in S among the first n.
Choosing(f, s, S) ==
  /\ f[0] = <<>>
  /\ \A k \in 1..Len(s) : f[k] = IF k \in S THEN Append(f[k - 1], s[k]) ELSE f[k - 1]

\* There is one such choice.
LEMMA ChoosingExists ==
  ASSUME NEW s \in Seq(Event), NEW S
  PROVE  \E f \in [0..Len(s) -> Seq(Event)] : Choosing(f, s, S)
<1>1. Len(s) \in Nat /\ \A k \in 1..Len(s) : s[k] \in Event
  OBVIOUS
<1> DEFINE V == Seq(Event)
           step == [k \in Nat |-> [t \in V |->
                      IF k \in 1..Len(s) /\ k \in S THEN Append(t, s[k]) ELSE t]]
<1>2. step \in [Nat -> [V -> V]]
  <2>1. ASSUME NEW k \in Nat, NEW t \in V
        PROVE  (IF k \in 1..Len(s) /\ k \in S THEN Append(t, s[k]) ELSE t) \in V
    BY <1>1
  <2> HIDE DEF V
  <2>2. QED BY <2>1
<1>3. <<>> \in V
  OBVIOUS
<1>4. \A k \in 1..Len(s) : \A t \in V : step[k][t] = IF k \in S THEN Append(t, s[k]) ELSE t
  <2> HIDE DEF V
  <2>1. QED BY <1>1
<1> HIDE DEF step, V
<1>5. PICK f : Computes(f, Len(s), V, <<>>, step)
  BY <1>1, <1>2, <1>3, Computation, Zenon
<1>6. f \in [0..Len(s) -> V] /\ f[0] = <<>> /\ \A k \in 1..Len(s) : f[k] = step[k][f[k - 1]]
  BY <1>5 DEF Computes
<1>7. \A k \in 1..Len(s) : f[k - 1] \in V
  BY <1>1, <1>6
<1>8. \A k \in 1..Len(s) : f[k] = IF k \in S THEN Append(f[k - 1], s[k]) ELSE f[k - 1]
  BY <1>4, <1>6, <1>7
<1>9. Choosing(f, s, S)
  BY <1>6, <1>8 DEF Choosing
<1>10. QED BY <1>6, <1>9 DEF V

\* Chosen is well defined: it is where choosing element by element ends.
LEMMA ChosenDefined ==
  ASSUME NEW s \in Seq(Event), NEW S
  PROVE  \E f \in [0..Len(s) -> Seq(Event)] : Choosing(f, s, S) /\ Chosen(s, S) = f[Len(s)]
<1> DEFINE upTo[n \in 0..Len(s)] ==
             IF n = 0 THEN <<>> ELSE IF n \in S THEN Append(upTo[n - 1], s[n]) ELSE upTo[n - 1]
<1>1. Chosen(s, S) = upTo[Len(s)]
  BY DEF Chosen
<1>2. upTo = [n \in 0..Len(s) |->
               IF n = 0 THEN <<>> ELSE IF n \in S THEN Append(upTo[n - 1], s[n]) ELSE upTo[n - 1]]
  <2> HIDE DEF upTo
  <2>1. PICK f \in [0..Len(s) -> Seq(Event)] : Choosing(f, s, S)
    BY ChoosingExists
  <2>2. f = [n \in 0..Len(s) |->
              IF n = 0 THEN <<>> ELSE IF n \in S THEN Append(f[n - 1], s[n]) ELSE f[n - 1]]
    <3>1. Len(s) \in Nat /\ \A n \in 0..Len(s) : n # 0 => n \in 1..Len(s)
      OBVIOUS
    <3>2. ASSUME NEW n \in 0..Len(s)
          PROVE  f[n] = IF n = 0 THEN <<>> ELSE IF n \in S THEN Append(f[n - 1], s[n]) ELSE f[n - 1]
      BY <2>1, <3>1 DEF Choosing
    <3>3. QED BY <3>2
  <2>3. QED BY <2>2, Zenon DEF upTo
<1> HIDE DEF upTo
<1>3. /\ Len(s) \in Nat
      /\ \A k \in 1..Len(s) : k - 1 \in 0..Len(s) /\ k \in 0..Len(s) /\ k # 0 /\ s[k] \in Event
  OBVIOUS
<1>4. upTo[0] = <<>>
  BY <1>2, <1>3
<1>5. \A k \in 1..Len(s) : upTo[k] = IF k \in S THEN Append(upTo[k - 1], s[k]) ELSE upTo[k - 1]
  BY <1>2, <1>3
<1>6. \A n \in 0..Len(s) : upTo[n] \in Seq(Event)
  <2> DEFINE T == {j \in Nat : j <= Len(s) => upTo[j] \in Seq(Event)}
  <2>1. 0 \in T
    <3>1. <<>> \in Seq(Event)
      OBVIOUS
    <3>2. upTo[0] \in Seq(Event)
      BY <1>4, <3>1
    <3>3. QED BY <3>2
  <2>2. ASSUME NEW j \in T PROVE j + 1 \in T
    <3>1. CASE j + 1 <= Len(s)
      <4>1. j + 1 \in 1..Len(s) /\ (j + 1) - 1 = j /\ upTo[j] \in Seq(Event)
        BY <1>3, <3>1
      <4>2. upTo[j + 1] = IF j + 1 \in S THEN Append(upTo[j], s[j + 1]) ELSE upTo[j]
        BY <1>5, <4>1
      <4>3. upTo[j + 1] \in Seq(Event)
        BY <1>3, <4>1, <4>2
      <4>4. QED BY <4>3
    <3>2. QED BY <3>1, <1>3
  <2> HIDE DEF T
  <2>3. T \in SUBSET Nat
    BY DEF T
  <2>4. \A j \in Nat : j \in T
    BY <2>1, <2>2, <2>3, Induction
  <2>5. QED BY <1>3, <2>4 DEF T
<1>7. upTo \in [0..Len(s) -> Seq(Event)]
  BY <1>2, <1>6
<1>8. Choosing(upTo, s, S)
  BY <1>4, <1>5 DEF Choosing
<1>9. QED BY <1>1, <1>7, <1>8

\* What is chosen from a longer outbox is what was chosen before, and the new
\* element if its position is chosen.
LEMMA ChosenAppend ==
  ASSUME NEW s \in Seq(Event), NEW e \in Event, NEW S, NEW T,
         \A k \in 1..Len(s) : k \in S <=> k \in T
  PROVE  /\ Chosen(s, T) \in Seq(Event)
         /\ Chosen(Append(s, e), S) =
              IF Len(s) + 1 \in S THEN Append(Chosen(s, T), e) ELSE Chosen(s, T)
<1> DEFINE more == Append(s, e)
           n == Len(s)
<1>1. /\ more \in Seq(Event) /\ n \in Nat /\ Len(more) = n + 1
      /\ more[n + 1] = e /\ \A k \in 1..n : more[k] = s[k]
  OBVIOUS
<1>2. PICK f \in [0..n -> Seq(Event)] : Choosing(f, s, T) /\ Chosen(s, T) = f[n]
  BY ChosenDefined
<1>3. PICK g \in [0..Len(more) -> Seq(Event)] : Choosing(g, more, S) /\ Chosen(more, S) = g[Len(more)]
  BY <1>1, ChosenDefined
<1> HIDE DEF more
<1>4. g[n] = f[n]
  <2> DEFINE Same == {j \in Nat : j <= n => g[j] = f[j]}
  <2>1. 0 \in Same
    BY <1>2, <1>3 DEF Choosing
  <2>2. ASSUME NEW j \in Same PROVE j + 1 \in Same
    <3>1. CASE j + 1 <= n
      <4>1. j + 1 \in 1..n /\ j + 1 \in 1..Len(more) /\ (j + 1) - 1 = j /\ g[j] = f[j]
        BY <1>1, <3>1
      <4>2. g[j + 1] = IF j + 1 \in S THEN Append(g[j], more[j + 1]) ELSE g[j]
        BY <1>3, <4>1 DEF Choosing
      <4>3. f[j + 1] = IF j + 1 \in T THEN Append(f[j], s[j + 1]) ELSE f[j]
        BY <1>2, <4>1 DEF Choosing
      <4>4. g[j + 1] = f[j + 1]
        BY <1>1, <4>1, <4>2, <4>3
      <4>5. QED BY <4>4
    <3>2. QED BY <3>1, <1>1
  <2> HIDE DEF Same
  <2>3. Same \in SUBSET Nat
    BY DEF Same
  <2>4. \A j \in Nat : j \in Same
    BY <2>1, <2>2, <2>3, Induction
  <2>5. n \in Same
    BY <1>1, <2>4
  <2>6. QED BY <1>1, <2>5 DEF Same
<1>5. n + 1 \in 1..Len(more) /\ (n + 1) - 1 = n
  BY <1>1
<1>6. g[n + 1] = IF n + 1 \in S THEN Append(g[n], more[n + 1]) ELSE g[n]
  BY <1>3, <1>5 DEF Choosing
<1>7. Chosen(s, T) \in Seq(Event)
  <2>1. n \in 0..n
    BY <1>1
  <2>2. f[n] \in Seq(Event)
    BY <2>1
  <2>3. QED BY <1>2, <2>2
<1>8. QED BY <1>1, <1>2, <1>3, <1>4, <1>6, <1>7 DEF more

\* The same, for any sequence, event and positions.
LEMMA ChosenGrows ==
  \A s \in Seq(Event), e \in Event : \A S, T :
    (\A k \in 1..Len(s) : k \in S <=> k \in T) =>
      /\ Chosen(s, T) \in Seq(Event)
      /\ Chosen(Append(s, e), S) =
           IF Len(s) + 1 \in S THEN Append(Chosen(s, T), e) ELSE Chosen(s, T)
BY ChosenAppend

\* Nothing is chosen where no position is.
LEMMA ChosenNothing ==
  ASSUME NEW s \in Seq(Event), NEW S, \A k \in 1..Len(s) : k \notin S
  PROVE  Chosen(s, S) = <<>>
<1>1. PICK f \in [0..Len(s) -> Seq(Event)] : Choosing(f, s, S) /\ Chosen(s, S) = f[Len(s)]
  BY ChosenDefined
<1> DEFINE N == {j \in Nat : j <= Len(s) => f[j] = <<>>}
<1>2. 0 \in N
  BY <1>1 DEF Choosing
<1>3. ASSUME NEW j \in N PROVE j + 1 \in N
  <2>1. CASE j + 1 <= Len(s)
    <3>1. j + 1 \in 1..Len(s) /\ (j + 1) - 1 = j /\ f[j] = <<>>
      BY <2>1
    <3>2. f[j + 1] = f[j]
      BY <1>1, <3>1 DEF Choosing
    <3>3. QED BY <3>1, <3>2
  <2>2. QED BY <2>1
<1> HIDE DEF N
<1>4. N \in SUBSET Nat
  BY DEF N
<1>5. \A j \in Nat : j \in N
  BY <1>2, <1>3, <1>4, Induction
<1>6. Len(s) \in N /\ Len(s) \in Nat
  BY <1>5
<1>7. QED BY <1>1, <1>6 DEF N

\* The types of the events of i, and the balance changes of w, in any outbox.
EventTypes == {"WagerTransactionPendingReference", "WagerTransactionRejected",
               "WagerTransactionProcessed", "WalletBalanceChanged"}
TypesIn(s, i) ==
  LET mine == Chosen(s, {k \in DOMAIN s : s[k].tx = i}) IN [k \in DOMAIN mine |-> mine[k].type]
IsChange(e, rows, w) == e.type = "WalletBalanceChanged" /\ rows[e.tx].req.wallet = w
SameWallets(s, rows, later) ==
  \A k \in DOMAIN s : later[s[k].tx].req.wallet = rows[s[k].tx].req.wallet
ChangesIn(s, rows, w) == Chosen(s, {k \in DOMAIN s : IsChange(s[k], rows, w)})

\* An event is one more of its transaction and of no other.
LEMMA TypesAppend ==
  ASSUME NEW s \in Seq(Event), NEW e \in Event, NEW i
  PROVE  /\ TypesIn(s, i) \in Seq(EventTypes)
         /\ TypesIn(Append(s, e), i) =
              IF e.tx = i THEN Append(TypesIn(s, i), e.type) ELSE TypesIn(s, i)
<1> DEFINE more == Append(s, e)
           T == {k \in DOMAIN s : s[k].tx = i}
           S == {k \in DOMAIN more : more[k].tx = i}
<1>1. /\ more \in Seq(Event) /\ Len(s) \in Nat /\ Len(more) = Len(s) + 1
      /\ DOMAIN s = 1..Len(s) /\ DOMAIN more = 1..(Len(s) + 1)
      /\ more[Len(s) + 1] = e /\ \A k \in 1..Len(s) : more[k] = s[k]
  OBVIOUS
<1>2. /\ \A k \in 1..Len(s) : k \in S <=> k \in T
      /\ Len(s) + 1 \in S <=> e.tx = i
  BY <1>1
<1> DEFINE old == Chosen(s, T)
           new == Chosen(more, S)
<1> HIDE DEF S, T
<1>3. /\ old \in Seq(Event)
      /\ new = IF e.tx = i THEN Append(old, e) ELSE old
  BY <1>2, ChosenAppend
<1>4. /\ TypesIn(s, i) = [k \in DOMAIN old |-> old[k].type]
      /\ TypesIn(more, i) = [k \in DOMAIN new |-> new[k].type]
  BY DEF TypesIn, S, T
<1> HIDE DEF old, new, more
<1>5. TypesIn(s, i) \in Seq(EventTypes)
  <2>1. old \in Seq(Event) /\ \A k \in DOMAIN old : old[k] \in Event
    BY <1>3
  <2>2. \A k \in DOMAIN old : old[k].type \in EventTypes
    BY <2>1 DEF Event, EventTypes
  <2>3. QED BY <1>4, <2>1, <2>2
<1>6. CASE e.tx = i
  <2>1. new = Append(old, e)
    BY <1>3, <1>6
  <2>2. TypesIn(more, i) = Append(TypesIn(s, i), e.type)
    BY <1>3, <1>4, <2>1
  <2>3. QED BY <1>5, <1>6, <2>2 DEF more
<1>7. CASE e.tx # i
  BY <1>3, <1>4, <1>5, <1>7 DEF more
<1>8. QED BY <1>6, <1>7

\* A transaction no event is of has told nothing.
LEMMA TypesOfNobody ==
  ASSUME NEW s \in Seq(Event), NEW i, \A k \in DOMAIN s : s[k].tx # i
  PROVE  TypesIn(s, i) = <<>>
<1>1. Chosen(s, {k \in DOMAIN s : s[k].tx = i}) = <<>>
  <2> DEFINE S == {k \in DOMAIN s : s[k].tx = i}
  <2>1. \A k \in 1..Len(s) : k \notin S
    OBVIOUS
  <2> HIDE DEF S
  <2>2. Chosen(s, S) = <<>>
    BY <2>1, ChosenNothing
  <2>3. QED BY <2>2 DEF S
<1>2. PICK mine \in Seq(Event) :
        mine = <<>> /\ TypesIn(s, i) = [k \in DOMAIN mine |-> mine[k].type]
  <2>1. <<>> \in Seq(Event)
    OBVIOUS
  <2>2. QED BY <1>1, <2>1 DEF TypesIn
<1>3. DOMAIN mine = 1..0
  BY <1>2
<1>4. TypesIn(s, i) \in Seq(EventTypes) /\ Len(TypesIn(s, i)) = 0
  BY <1>2, <1>3
<1>5. QED BY <1>4

\* A balance change is one more of its wallet; rows may settle meanwhile, but
\* do not go to another wallet.
LEMMA ChangesAppend ==
  \A s \in Seq(Event), e \in Event : \A rows, later, w :
    SameWallets(s, rows, later) =>
      /\ ChangesIn(s, rows, w) \in Seq(Event)
      /\ ChangesIn(s, later, w) = ChangesIn(s, rows, w)
      /\ ChangesIn(Append(s, e), later, w) =
           IF IsChange(e, later, w) THEN Append(ChangesIn(s, rows, w), e)
                                    ELSE ChangesIn(s, rows, w)
<1> SUFFICES ASSUME NEW s \in Seq(Event), NEW e \in Event, NEW rows, NEW later, NEW w,
                    SameWallets(s, rows, later)
             PROVE  /\ ChangesIn(s, rows, w) \in Seq(Event)
                    /\ ChangesIn(s, later, w) = ChangesIn(s, rows, w)
                    /\ ChangesIn(Append(s, e), later, w) =
                         IF IsChange(e, later, w) THEN Append(ChangesIn(s, rows, w), e)
                                                  ELSE ChangesIn(s, rows, w)
  OBVIOUS
<1> DEFINE more == Append(s, e)
           T == {k \in DOMAIN s : IsChange(s[k], rows, w)}
           S == {k \in DOMAIN more : IsChange(more[k], later, w)}
<1>1. /\ more \in Seq(Event) /\ Len(s) \in Nat /\ Len(more) = Len(s) + 1
      /\ DOMAIN s = 1..Len(s) /\ DOMAIN more = 1..(Len(s) + 1)
      /\ more[Len(s) + 1] = e /\ \A k \in 1..Len(s) : more[k] = s[k]
  OBVIOUS
<1>2. \A k \in 1..Len(s) : IsChange(s[k], later, w) <=> IsChange(s[k], rows, w)
  BY <1>1 DEF IsChange, SameWallets
<1>3. T = {k \in DOMAIN s : IsChange(s[k], later, w)}
  BY <1>1, <1>2
<1>4. /\ \A k \in 1..Len(s) : k \in S <=> k \in T
      /\ Len(s) + 1 \in S <=> IsChange(e, later, w)
  BY <1>1, <1>2
<1>5. ChangesIn(s, later, w) = Chosen(s, T) /\ ChangesIn(s, rows, w) = Chosen(s, T)
  BY <1>3 DEF ChangesIn
<1>6. ChangesIn(more, later, w) = Chosen(more, S)
  BY DEF ChangesIn
<1> HIDE DEF S, T
<1>7. /\ Chosen(s, T) \in Seq(Event)
      /\ Chosen(more, S) = IF IsChange(e, later, w) THEN Append(Chosen(s, T), e) ELSE Chosen(s, T)
  <2>1. /\ Chosen(s, T) \in Seq(Event)
        /\ Chosen(more, S) = IF Len(s) + 1 \in S THEN Append(Chosen(s, T), e) ELSE Chosen(s, T)
    <3>1. \A k \in 1..Len(s) : k \in S <=> k \in T
      BY <1>4
    <3>2. QED BY <3>1, ChosenGrows
  <2>2. QED BY <1>4, <2>1
<1>8. QED BY <1>5, <1>6, <1>7

\* What OutboxTellsTheLife reads, now and after a step.
LEMMA StoryReads ==
  /\ \A i : TypesOfTx(i) = TypesIn(outbox, i) /\ TypesOfTx(i)' = TypesIn(outbox', i)
  /\ \A w : ChangesOf(w) = ChangesIn(outbox, txs, w) /\ ChangesOf(w)' = ChangesIn(outbox', txs', w)
BY DEF TypesOfTx, TypesIn, ChangesOf, ChangesIn, IsChange

\* How a row is announced: by its status, and a movement by its balance too.
About(t, row, type) == [type |-> type, tx |-> t, version |-> row.version]
EventsAbout(t, row) == [k \in DOMAIN Announced(row) |-> About(t, row, Announced(row)[k])]
First(row) ==
  IF row.status = "PENDING_REFERENCE" THEN "WagerTransactionPendingReference"
  ELSE IF row.status = "REJECTED" THEN "WagerTransactionRejected" ELSE "WagerTransactionProcessed"
Told == {"PENDING_REFERENCE", "REJECTED", "PROCESSED"}

\* An announcement starts with the status; only a movement has more.
LEMMA Announcements ==
  ASSUME NEW row, row.status \in Told
  PROVE  /\ Announced(row) =
              IF Moves(row) THEN <<First(row), "WalletBalanceChanged">> ELSE <<First(row)>>
         /\ First(row) \in EventTypes /\ First(row) # "WalletBalanceChanged"
         /\ row.status = "PENDING_REFERENCE" => ~ Moves(row)
BY DEF Announced, EventsOf, Moves, First, Told, EventTypes

\* The announcement is appended event by event.
LEMMA EventsArrive ==
  ASSUME outbox \in Seq(Event), NEW t \in Nat, NEW row, row.version \in Nat, row.status \in Told,
         outbox' = outbox \o EventsAbout(t, row)
  PROVE  /\ \A type \in EventTypes : About(t, row, type) \in Event
         /\ IF Moves(row)
              THEN outbox' = Append(Append(outbox, About(t, row, First(row))),
                                    About(t, row, "WalletBalanceChanged"))
              ELSE outbox' = Append(outbox, About(t, row, First(row)))
<1>1. \A type \in EventTypes : About(t, row, type) \in Event
  BY DEF About, Event, EventTypes
<1>2. /\ First(row) \in EventTypes /\ "WalletBalanceChanged" \in EventTypes
      /\ Announced(row) = IF Moves(row) THEN <<First(row), "WalletBalanceChanged">> ELSE <<First(row)>>
  BY Announcements DEF EventTypes
<1>3. PICK a, b : a = About(t, row, First(row)) /\ b = About(t, row, "WalletBalanceChanged")
  OBVIOUS
<1>4. a \in Event /\ b \in Event
  BY <1>1, <1>2, <1>3
<1>5. CASE Moves(row)
  <2>1. EventsAbout(t, row) = <<a, b>>
    BY <1>2, <1>3, <1>5 DEF EventsAbout
  <2>2. outbox \o <<a, b>> = Append(Append(outbox, a), b)
    BY <1>4
  <2>3. QED BY <1>1, <1>3, <1>5, <2>1, <2>2
<1>6. CASE ~ Moves(row)
  <2>1. EventsAbout(t, row) = <<a>>
    BY <1>2, <1>3, <1>6 DEF EventsAbout
  <2>2. outbox \o <<a>> = Append(outbox, a)
    BY <1>4
  <2>3. QED BY <1>1, <1>3, <1>6, <2>1, <2>2
<1>7. QED BY <1>5, <1>6

\* A row that arrives at t adds its announcement to what t has told.
LEMMA TypesGrow ==
  ASSUME outbox \in Seq(Event), NEW t \in Nat, NEW row, row.version \in Nat, row.status \in Told,
         outbox' = outbox \o EventsAbout(t, row), NEW i
  PROVE  /\ TypesIn(outbox, i) \in Seq(EventTypes)
         /\ TypesIn(outbox', i) =
              IF i = t THEN TypesIn(outbox, i) \o Announced(row) ELSE TypesIn(outbox, i)
<1>1. /\ First(row) \in EventTypes /\ "WalletBalanceChanged" \in EventTypes
      /\ Announced(row) = IF Moves(row) THEN <<First(row), "WalletBalanceChanged">> ELSE <<First(row)>>
  BY Announcements DEF EventTypes
<1>2. PICK a, b : a = About(t, row, First(row)) /\ b = About(t, row, "WalletBalanceChanged")
  OBVIOUS
<1>3. /\ a \in Event /\ b \in Event /\ a.tx = t /\ b.tx = t
      /\ a.type = First(row) /\ b.type = "WalletBalanceChanged"
  BY <1>1, <1>2, EventsArrive DEF About
<1>4. PICK s, old : s = outbox /\ old = TypesIn(s, i)
  OBVIOUS
<1>5. /\ old \in Seq(EventTypes)
      /\ TypesIn(Append(s, a), i) = IF i = t THEN Append(old, First(row)) ELSE old
  BY <1>3, <1>4, TypesAppend
<1>6. CASE Moves(row)
  <2>1. outbox' = Append(Append(s, a), b)
    BY <1>2, <1>4, <1>6, EventsArrive
  <2>2. TypesIn(Append(Append(s, a), b), i) =
          IF i = t THEN Append(TypesIn(Append(s, a), i), "WalletBalanceChanged")
                   ELSE TypesIn(Append(s, a), i)
    <3>1. Append(s, a) \in Seq(Event)
      BY <1>3, <1>4
    <3>2. PICK more \in Seq(Event) : more = Append(s, a)
      BY <3>1
    <3>3. TypesIn(Append(more, b), i) =
            IF b.tx = i THEN Append(TypesIn(more, i), b.type) ELSE TypesIn(more, i)
      BY <1>3, TypesAppend
    <3>4. QED BY <1>3, <3>2, <3>3
  <2>3. Append(Append(old, First(row)), "WalletBalanceChanged") = old \o Announced(row)
    BY <1>1, <1>5, <1>6
  <2>4. QED BY <1>4, <1>5, <2>1, <2>2, <2>3
<1>7. CASE ~ Moves(row)
  <2>1. outbox' = Append(s, a)
    BY <1>2, <1>4, <1>7, EventsArrive
  <2>2. Append(old, First(row)) = old \o Announced(row)
    BY <1>1, <1>5, <1>7
  <2>3. QED BY <1>4, <1>5, <2>1, <2>2
<1>8. QED BY <1>6, <1>7

\* A movement adds its balance change to those of its wallet, and nothing else
\* adds one.
LEMMA ChangesGrow ==
  ASSUME outbox \in Seq(Event), NEW t \in Nat, NEW row, row.version \in Nat, row.status \in Told,
         outbox' = outbox \o EventsAbout(t, row)
  PROVE  \A later, w : later[t] = row /\ SameWallets(outbox, txs, later) =>
           /\ ChangesIn(outbox, txs, w) \in Seq(Event)
           /\ ChangesIn(outbox', later, w) =
                IF Moves(row) /\ row.req.wallet = w
                  THEN Append(ChangesIn(outbox, txs, w), About(t, row, "WalletBalanceChanged"))
                  ELSE ChangesIn(outbox, txs, w)
<1> SUFFICES ASSUME NEW later, NEW w, later[t] = row, SameWallets(outbox, txs, later)
             PROVE  /\ ChangesIn(outbox, txs, w) \in Seq(Event)
                    /\ ChangesIn(outbox', later, w) =
                         IF Moves(row) /\ row.req.wallet = w
                           THEN Append(ChangesIn(outbox, txs, w),
                                       About(t, row, "WalletBalanceChanged"))
                           ELSE ChangesIn(outbox, txs, w)
  OBVIOUS
<1>1. First(row) \in EventTypes /\ First(row) # "WalletBalanceChanged"
      /\ "WalletBalanceChanged" \in EventTypes
  BY Announcements DEF EventTypes
<1>2. PICK a, b : a = About(t, row, First(row)) /\ b = About(t, row, "WalletBalanceChanged")
  OBVIOUS
<1>3. /\ a \in Event /\ b \in Event
      /\ ~ IsChange(a, later, w) /\ (IsChange(b, later, w) <=> row.req.wallet = w)
  BY <1>1, <1>2, EventsArrive DEF About, IsChange
<1>4. PICK s, old : s = outbox /\ old = ChangesIn(s, txs, w)
  OBVIOUS
<1>5. old \in Seq(Event) /\ ChangesIn(Append(s, a), later, w) = old
  <2>1. ChangesIn(s, txs, w) \in Seq(Event)
        /\ ChangesIn(Append(s, a), later, w) =
             IF IsChange(a, later, w) THEN Append(ChangesIn(s, txs, w), a) ELSE ChangesIn(s, txs, w)
    BY <1>3, <1>4, ChangesAppend
  <2>2. QED BY <1>3, <1>4, <2>1
<1>6. CASE Moves(row)
  <2>1. outbox' = Append(Append(s, a), b)
    BY <1>2, <1>4, <1>6, EventsArrive
  <2>2. ChangesIn(Append(Append(s, a), b), later, w) =
          IF IsChange(b, later, w) THEN Append(ChangesIn(Append(s, a), later, w), b)
                                   ELSE ChangesIn(Append(s, a), later, w)
    <3>0. Append(s, a) \in Seq(Event)
      BY <1>3, <1>4
    <3>1. PICK more \in Seq(Event) : more = Append(s, a)
      BY <3>0
    <3>2. ChangesIn(Append(more, b), later, w) =
            IF IsChange(b, later, w) THEN Append(ChangesIn(more, later, w), b)
                                     ELSE ChangesIn(more, later, w)
      BY <1>3, ChangesAppend DEF SameWallets
    <3>3. QED BY <3>1, <3>2
  <2>3. QED BY <1>2, <1>3, <1>4, <1>5, <1>6, <2>1, <2>2
<1>7. CASE ~ Moves(row)
  <2>1. outbox' = Append(s, a)
    BY <1>2, <1>4, <1>7, EventsArrive
  <2>2. QED BY <1>2, <1>3, <1>4, <1>5, <1>7, <2>1
<1>8. QED BY <1>6, <1>7

\* OutboxInOrder, from the outbox of a moment.
ToldAs(types, row) ==
  /\ row.status \in Told
  /\ \/ types = Announced(row)
     \/ /\ row.status # "PENDING_REFERENCE"
        /\ types = <<"WagerTransactionPendingReference">> \o Announced(row)
Listed(changes, entries, rows) ==
  /\ Len(changes) = Len(entries)
  /\ \A k \in 1..Len(entries) :
       /\ changes[k].tx = entries[k].tx
       /\ changes[k].version = rows[changes[k].tx].version

\* OutboxInOrder in these words, now.
LEMMA StoryForm ==
  OutboxInOrder <=>
    /\ \A k \in DOMAIN outbox : outbox[k].tx \in DOMAIN txs
    /\ \A i \in DOMAIN txs : ToldAs(TypesIn(outbox, i), txs[i])
    /\ \A w \in Wallets : Listed(ChangesIn(outbox, txs, w), ledger[w], txs)
<1>1. \A i : LifeIsTold(i) <=> ToldAs(TypesIn(outbox, i), txs[i])
  BY StoryReads DEF LifeIsTold, ToldAs, Told
<1>2. \A w : ChangesAreEntries(w) <=> Listed(ChangesIn(outbox, txs, w), ledger[w], txs)
  BY StoryReads DEF ChangesAreEntries, Listed
<1>3. QED BY <1>1, <1>2 DEF OutboxInOrder

\* OutboxInOrder in these words, after a step.
LEMMA LaterStoryForm ==
  OutboxInOrder' <=>
    /\ \A k \in DOMAIN outbox' : outbox'[k].tx \in DOMAIN txs'
    /\ \A i \in DOMAIN txs' : ToldAs(TypesIn(outbox', i), txs'[i])
    /\ \A w \in Wallets : Listed(ChangesIn(outbox', txs', w), ledger'[w], txs')
<1>1. \A i : LifeIsTold(i)' <=> ToldAs(TypesIn(outbox', i), txs'[i])
  BY StoryReads DEF LifeIsTold, ToldAs, Told, Announced, Moves
<1>2. \A w : ChangesAreEntries(w)' <=> Listed(ChangesIn(outbox', txs', w), ledger'[w], txs')
  BY StoryReads DEF ChangesAreEntries, Listed
<1>3. QED BY <1>1, <1>2 DEF OutboxInOrder

\* Nothing is stored, nothing is told.
LEMMA OutboxInit == Init => OutboxInOrder
<1> SUFFICES ASSUME Init PROVE OutboxInOrder
  OBVIOUS
<1>1. outbox = <<>> /\ DOMAIN txs = {} /\ \A w \in Wallets : ledger[w] = <<>>
  BY DEF Init
<1>2. ASSUME NEW w PROVE ChangesIn(outbox, txs, w) = <<>>
  <2>1. <<>> \in Seq(Event)
    OBVIOUS
  <2>2. \A S : (\A k \in 1..Len(<<>>) : k \notin S) => Chosen(<<>>, S) = <<>>
    BY <2>1, ChosenNothing
  <2>3. \A S : Chosen(<<>>, S) = <<>>
    BY <2>2
  <2>4. QED BY <1>1, <2>3 DEF ChangesIn
<1>3. \A w \in Wallets : Listed(ChangesIn(outbox, txs, w), ledger[w], txs)
  BY <1>1, <1>2 DEF Listed
<1>4. DOMAIN outbox = {}
  BY <1>1
<1>5. QED BY <1>1, <1>3, <1>4, StoryForm

\* The entry that comes with row, if its operation moves money.
EntryComes(t, row) ==
  IF Moves(row)
    THEN \E w \in Wallets, entry \in Entry :
           /\ row.req.wallet = w /\ entry.tx = t
           /\ ledger' = [ledger EXCEPT ![w] = Append(@, entry)]
    ELSE ledger' = ledger

\* An event is an old one, or of the row that arrives.
LEMMA EventsAreOfRows ==
  ASSUME outbox \in Seq(Event), NEW t \in Nat, NEW row, row.version \in Nat, row.status \in Told,
         outbox' = outbox \o EventsAbout(t, row), NEW k \in DOMAIN outbox'
  PROVE  (k \in DOMAIN outbox /\ outbox'[k] = outbox[k]) \/ outbox'[k].tx = t
<1>1. First(row) \in EventTypes /\ "WalletBalanceChanged" \in EventTypes
  BY Announcements DEF EventTypes
<1>2. PICK a, b : a = About(t, row, First(row)) /\ b = About(t, row, "WalletBalanceChanged")
  OBVIOUS
<1>3. a \in Event /\ b \in Event /\ a.tx = t /\ b.tx = t
  BY <1>1, <1>2, EventsArrive DEF About
<1>4. PICK more \in Seq(Event) : more = Append(outbox, a)
  <2>1. Append(outbox, a) \in Seq(Event)
    BY <1>3
  <2>2. QED BY <2>1
<1>5. outbox' = more \/ outbox' = Append(more, b)
  BY <1>2, <1>4, EventsArrive
<1>6. \A n \in DOMAIN more : (n \in DOMAIN outbox /\ more[n] = outbox[n]) \/ more[n].tx = t
  BY <1>3, <1>4
<1>7. \A n \in DOMAIN Append(more, b) :
        (n \in DOMAIN more /\ Append(more, b)[n] = more[n]) \/ Append(more, b)[n].tx = t
  BY <1>3
<1>8. QED BY <1>5, <1>6, <1>7

\* A row that arrives with its entry and its announcement continues the story.
LEMMA StoryGrows ==
  ASSUME TypeOK, HistoryInvariant, ReversalInvariant, [Next]_vars, OutboxInOrder,
         NEW t \in Nat, NEW row, row.version \in Nat, row.status \in Told,
         Arrives(t, row), EntryComes(t, row), outbox' = outbox \o EventsAbout(t, row),
         t \in DOMAIN txs => row.status # "PENDING_REFERENCE"
  PROVE  OutboxInOrder'
<1>1. /\ outbox \in Seq(Event)
      /\ \A k \in DOMAIN outbox : outbox[k].tx \in DOMAIN txs
      /\ \A i \in DOMAIN txs : ToldAs(TypesIn(outbox, i), txs[i])
      /\ \A w \in Wallets : Listed(ChangesIn(outbox, txs, w), ledger[w], txs)
  BY StoryForm DEF TypeOK
<1>2. /\ DOMAIN txs' = DOMAIN txs \cup {t} /\ txs'[t] = row
      /\ \A i \in DOMAIN txs \ {t} : txs'[i] = txs[i]
      /\ t \in DOMAIN txs => txs[t].status = "PENDING_REFERENCE"
  BY DEF Arrives
<1>3. ASSUME NEW k \in DOMAIN outbox' PROVE outbox'[k].tx \in DOMAIN txs'
  <2>1. outbox \in Seq(Event)
    BY <1>1
  <2>2. (k \in DOMAIN outbox /\ outbox'[k] = outbox[k]) \/ outbox'[k].tx = t
    BY <2>1, EventsAreOfRows
  <2>3. QED BY <1>1, <1>2, <2>2
<1>4. SameWallets(outbox, txs, txs')
  BY <1>1, SettledRowsStay DEF SameWallets
<1>5. ASSUME NEW i \in DOMAIN txs' PROVE ToldAs(TypesIn(outbox', i), txs'[i])
  <2>1. /\ TypesIn(outbox, i) \in Seq(EventTypes)
        /\ TypesIn(outbox', i) =
             IF i = t THEN TypesIn(outbox, i) \o Announced(row) ELSE TypesIn(outbox, i)
    BY <1>1, TypesGrow
  <2>2. CASE i # t
    BY <1>1, <1>2, <2>1, <2>2
  <2>3. CASE i = t /\ t \notin DOMAIN txs
    <3>1. TypesIn(outbox, t) = <<>>
      <4>1. \A k \in DOMAIN outbox : outbox[k].tx # t
        BY <1>1, <2>3
      <4>2. QED BY <1>1, <4>1, TypesOfNobody
    <3>2. <<>> \o Announced(row) = Announced(row)
      BY Announcements
    <3>3. QED BY <1>2, <2>1, <2>3, <3>1, <3>2 DEF ToldAs
  <2>4. CASE i = t /\ t \in DOMAIN txs
    <3>1. TypesIn(outbox, t) = Announced(txs[t])
      BY <1>1, <1>2, <2>4 DEF ToldAs
    <3>2. Announced(txs[t]) = <<"WagerTransactionPendingReference">>
      BY <1>2, <2>4 DEF Announced, EventsOf
    <3>3. QED BY <1>2, <2>1, <2>4, <3>1, <3>2 DEF ToldAs
  <2>5. QED BY <2>2, <2>3, <2>4
<1>6. ASSUME NEW w \in Wallets PROVE Listed(ChangesIn(outbox', txs', w), ledger'[w], txs')
  <2>0. PICK old, last : old = ChangesIn(outbox, txs, w) /\ last = About(t, row, "WalletBalanceChanged")
    OBVIOUS
  <2>1. /\ old \in Seq(Event) /\ last \in Event
        /\ ChangesIn(outbox', txs', w) =
             IF Moves(row) /\ row.req.wallet = w THEN Append(old, last) ELSE old
    <3>1. /\ old \in Seq(Event)
          /\ ChangesIn(outbox', txs', w) =
               IF Moves(row) /\ row.req.wallet = w THEN Append(old, last) ELSE old
      <4>1. outbox \in Seq(Event)
        BY <1>1
      <4>2. \A later, v : later[t] = row /\ SameWallets(outbox, txs, later) =>
              /\ ChangesIn(outbox, txs, v) \in Seq(Event)
              /\ ChangesIn(outbox', later, v) =
                   IF Moves(row) /\ row.req.wallet = v
                     THEN Append(ChangesIn(outbox, txs, v), About(t, row, "WalletBalanceChanged"))
                     ELSE ChangesIn(outbox, txs, v)
        BY <4>1, ChangesGrow, ZenonT(60)
      <4>3. txs'[t] = row
        BY <1>2
      <4>4. QED BY <1>4, <2>0, <4>2, <4>3
    <3>2. last \in Event
      BY <1>1, <2>0, EventsArrive DEF EventTypes
    <3>3. QED BY <3>1, <3>2
  <2>2. PICK es \in Seq(Entry) : es = ledger[w]
    BY DEF TypeOK
  <2>3. /\ Len(old) = Len(es) /\ Len(es) \in Nat
        /\ \A k \in 1..Len(es) : old[k].tx = es[k].tx /\ old[k].version = txs[old[k].tx].version
    BY <1>1, <2>0, <2>2 DEF Listed
  <2>4. \A k \in 1..Len(es) : es[k].tx \in DOMAIN txs /\ es[k].tx # t
    <3>1. \A k \in DOMAIN es : es[k].tx \in DOMAIN txs /\ txs[es[k].tx].status = "PROCESSED"
      BY <2>2 DEF ReversalInvariant, EntriesAreRecorded
    <3>2. QED BY <1>2, <3>1
  <2>5. \A k \in 1..Len(es) : old[k].tx = es[k].tx /\ old[k].version = txs'[old[k].tx].version
    BY <1>2, <2>3, <2>4
  <2>6. CASE Moves(row) /\ row.req.wallet = w
    <3>1. PICK entry \in Entry : entry.tx = t /\ ledger' = [ledger EXCEPT ![w] = Append(@, entry)]
      BY <2>6 DEF EntryComes
    <3>2. ledger'[w] = Append(es, entry)
      BY <2>2, <3>1 DEF TypeOK
    <3>3. last.tx = t /\ last.version = txs'[t].version
      BY <1>2, <2>0 DEF About
    <3>4. PICK changes, entries : changes = Append(old, last) /\ entries = Append(es, entry)
      OBVIOUS
    <3>5. /\ Len(changes) = Len(es) + 1 /\ Len(entries) = Len(es) + 1
          /\ \A k \in 1..Len(es) : changes[k] = old[k] /\ entries[k] = es[k]
          /\ changes[Len(es) + 1] = last /\ entries[Len(es) + 1] = entry
      BY <2>1, <2>3, <3>1, <3>4, AppendProperties
    <3>6. ASSUME NEW k \in 1..(Len(es) + 1)
          PROVE  changes[k].tx = entries[k].tx /\ changes[k].version = txs'[changes[k].tx].version
      <4>1. CASE k \in 1..Len(es)
        BY <2>5, <3>5, <4>1
      <4>2. CASE k = Len(es) + 1
        BY <3>1, <3>3, <3>5, <4>2
      <4>3. QED BY <2>3, <4>1, <4>2
    <3>7. Listed(changes, entries, txs')
      BY <3>5, <3>6 DEF Listed
    <3>8. QED BY <2>1, <2>6, <3>2, <3>4, <3>7
  <2>7. CASE ~ (Moves(row) /\ row.req.wallet = w)
    <3>1. ledger'[w] = es
      BY <2>2, <2>7 DEF EntryComes, TypeOK
    <3>2. Listed(old, es, txs')
      BY <2>3, <2>5 DEF Listed
    <3>3. QED BY <2>1, <2>7, <3>1, <3>2
  <2>8. QED BY <2>6, <2>7
<1>7. QED BY <1>3, <1>5, <1>6, LaterStoryForm

\* Nothing is told of a step that leaves the entries alone and the rows where
\* they stand; a row that goes on waiting stands where it stood.
LEMMA StoryRests ==
  ASSUME TypeOK, HistoryInvariant, ReversalInvariant, [Next]_vars, OutboxInOrder,
         outbox' = outbox, ledger' = ledger, DOMAIN txs' = DOMAIN txs,
         \A i \in DOMAIN txs :
           \/ txs'[i] = txs[i]
           \/ txs[i].status = "PENDING_REFERENCE" /\ txs'[i].status = "PENDING_REFERENCE"
  PROVE  OutboxInOrder'
<1>1. /\ outbox \in Seq(Event)
      /\ \A k \in DOMAIN outbox : outbox[k].tx \in DOMAIN txs
      /\ \A i \in DOMAIN txs : ToldAs(TypesIn(outbox, i), txs[i])
      /\ \A w \in Wallets : Listed(ChangesIn(outbox, txs, w), ledger[w], txs)
  BY StoryForm DEF TypeOK
<1>2. SameWallets(outbox, txs, txs')
  BY <1>1, SettledRowsStay DEF SameWallets
<1>3. ASSUME NEW i \in DOMAIN txs' PROVE ToldAs(TypesIn(outbox, i), txs'[i])
  <2>1. CASE txs'[i] = txs[i]
    BY <1>1, <2>1
  <2>2. CASE txs[i].status = "PENDING_REFERENCE" /\ txs'[i].status = "PENDING_REFERENCE"
    <3>1. Announced(txs'[i]) = Announced(txs[i])
      BY <2>2 DEF Announced, EventsOf
    <3>2. ToldAs(TypesIn(outbox, i), txs[i])
      BY <1>1
    <3>3. QED BY <2>2, <3>1, <3>2 DEF ToldAs
  <2>3. QED BY <2>1, <2>2
<1>4. ASSUME NEW w \in Wallets PROVE Listed(ChangesIn(outbox, txs', w), ledger[w], txs')
  <2>1. ChangesIn(outbox, txs', w) = ChangesIn(outbox, txs, w)
    <3>1. \A k \in DOMAIN outbox : IsChange(outbox[k], txs', w) <=> IsChange(outbox[k], txs, w)
      BY <1>2 DEF IsChange, SameWallets
    <3>2. {k \in DOMAIN outbox : IsChange(outbox[k], txs', w)} =
          {k \in DOMAIN outbox : IsChange(outbox[k], txs, w)}
      BY <3>1
    <3>3. QED BY <3>2 DEF ChangesIn
  <2>2. PICK changes, es : changes = ChangesIn(outbox, txs, w) /\ es = ledger[w]
    OBVIOUS
  <2>3. Listed(changes, es, txs)
    BY <1>1, <2>2
  <2>4. \A k \in 1..Len(es) : txs'[es[k].tx] = txs[es[k].tx]
    <3>1. \A k \in DOMAIN es : es[k].tx \in DOMAIN txs /\ txs[es[k].tx].status = "PROCESSED"
      BY <2>2 DEF ReversalInvariant, EntriesAreRecorded
    <3>2. DOMAIN es = 1..Len(es)
      BY <2>2 DEF TypeOK
    <3>3. QED BY <3>1, <3>2
  <2>5. Listed(changes, es, txs')
    BY <2>3, <2>4 DEF Listed
  <2>6. QED BY <2>1, <2>2, <2>5
<1>5. QED BY <1>1, <1>3, <1>4, LaterStoryForm

\* A unit of work that writes has a row to announce.
LEMMA CommitsAreTold ==
  ASSUME TypeOK, LedgerInvariant, HistoryInvariant, ReversalInvariant, DecisionsAreCurrent,
         NEW p \in Procs, Commit(p), plan[p].write # "none"
  PROVE  plan[p].row.status \in Told
<1> DEFINE r     == job[p].req
           row   == Bare(RowAtHand(p))
           after == Bare(plan[p].row)
<1>1. /\ pc[p] = "return" /\ row \in Row /\ row.req = r
      /\ plan[p].row \in Row /\ after.status = plan[p].row.status
  BY CommittedMovement, AtHand, BareFields DEF Commit
<1>2. DecidedHere(p) /\ CurrencyOf[r.wallet] = r.currency
  BY <1>1, SameDecisions DEF DecisionsAreCurrent, DecisionInOrder, InFlight
<1>3. /\ Reject(row, "REFERENCE_NOT_FOUND").status = "REJECTED"
      /\ MarkPendingReference(row).status = "PENDING_REFERENCE"
      /\ p \in Workers => row.status = "PENDING_REFERENCE"
  <2>1. p \in Workers => row.status = "PENDING_REFERENCE"
    BY <1>1, AtHand, BareFields, InvariantByProcess DEF HistoryInvariant, ClaimInOrder, RowAtHand
  <2>2. QED BY <1>1, <2>1 DEF Reject, MarkPendingReference, Row
<1>4. EndsAs(row, after) => after.status \in {"PROCESSED", "REJECTED"}
  BY <1>1, EndsSettle
<1>5. QED BY <1>1, <1>2, <1>3, <1>4 DEF DecidedHere, Told

\* A commit tells what it stores: a first wait, an outcome, or, for a retry,
\* nothing.
LEMMA CommitKeepsStory ==
  ASSUME TypeOK, LedgerInvariant, HistoryInvariant, ReversalInvariant, DecisionsAreCurrent,
         OutboxInOrder, NEW p \in Procs, Commit(p)
  PROVE  OutboxInOrder'
<1>0. PICK row, t : row = plan[p].row /\ t = TxId(p)
  OBVIOUS
<1>1. [Next]_vars /\ Apply(p)
  BY DEF Next, Step, Commit
<1>2. CASE plan[p].write = "none"
  <2>1. plan[p].direction = "NONE"
    BY <1>2 DEF ReversalInvariant, PlansAreJustified, OutcomeIsJustified
  <2>2. outbox' = outbox /\ ledger' = ledger /\ txs' = txs
    BY <1>1, <1>2, <2>1 DEF Apply
  <2>3. QED BY <1>1, <2>2, StoryRests
<1>3. CASE plan[p].write # "none"
  <2>1. /\ Arrives(t, row) /\ row \in Row /\ row.req = job[p].req /\ row.status \in Told
        /\ plan[p].direction # "NONE" <=> Moves(row)
        /\ outbox' = outbox \o Events(p) /\ plan[p].write \in {"insert", "update"}
    BY <1>0, <1>1, <1>3, CommitArrives, CommittedMovement, CommitsAreTold
    DEF Moves, Apply, TypeOK, Plan
  <2>2. t \in Nat /\ row.version \in Nat
    BY <1>0, <2>1 DEF TypeOK, Job, TxId, Row
  <2>3. t \in DOMAIN txs <=> plan[p].write = "update"
    <3>1. CASE plan[p].write = "insert"
      <4>1. t = Len(txs) + 1 /\ Len(txs) \in Nat /\ DOMAIN txs = 1..Len(txs)
        BY <1>0, <3>1 DEF TxId, TypeOK
      <4>2. QED BY <3>1, <4>1
    <3>2. CASE plan[p].write = "update"
      <4>1. t = job[p].tx /\ pc[p] = "return"
        BY <1>0, <3>2 DEF TxId, Commit
      <4>2. QED BY <1>3, <3>2, <4>1, PlannedRequest
    <3>3. QED BY <2>1, <3>1, <3>2
  <2>4. EntryComes(t, row)
    <3>1. CASE Moves(row)
      <4>1. row.req.wallet \in Wallets /\ plan[p].direction # "NONE"
        BY <1>3, <2>1, <3>1, MovementCounts
      <4>2. ledger' = [ledger EXCEPT ![row.req.wallet] = Append(@, Movement(p))]
        BY <1>1, <2>1, <4>1 DEF Apply
      <4>3. Movement(p) \in Entry /\ Movement(p).tx = t
        <5>1. /\ plan[p].direction \in {"CREDIT", "DEBIT"}
              /\ view[p].balance \in 0..MaxMinor /\ row.balance \in 0..MaxMinor
              /\ row.req.amount \in 0..MaxMinor
          BY <1>0, <2>1, <4>1, RequestFields DEF TypeOK, Plan, Row, Wallet, Directions
        <5>2. QED BY <1>0, <2>2, <5>1 DEF Movement, Entry
      <4>4. QED BY <3>1, <4>1, <4>2, <4>3 DEF EntryComes
    <3>2. CASE ~ Moves(row)
      <4>1. ledger' = ledger
        BY <1>1, <2>1, <3>2 DEF Apply
      <4>2. QED BY <3>2, <4>1 DEF EntryComes
    <3>3. QED BY <3>1, <3>2
  <2>5. CASE plan[p].write = "update" /\ row.status = "PENDING_REFERENCE"
    <3>1. Events(p) = <<>>
      BY <1>0, <2>5 DEF Events
    <3>2. outbox' = outbox
      BY <2>1, <3>1 DEF TypeOK
    <3>3. ledger' = ledger
      BY <2>4, <2>5 DEF EntryComes, Moves
    <3>4. /\ DOMAIN txs' = DOMAIN txs
          /\ \A i \in DOMAIN txs :
               \/ txs'[i] = txs[i]
               \/ txs[i].status = "PENDING_REFERENCE" /\ txs'[i].status = "PENDING_REFERENCE"
      BY <2>1, <2>3, <2>5 DEF Arrives
    <3>5. QED BY <1>1, <3>2, <3>3, <3>4, StoryRests
  <2>6. CASE ~ (plan[p].write = "update" /\ row.status = "PENDING_REFERENCE")
    <3>1. EventsOf(row, plan[p].direction) = Announced(row)
      BY <2>1 DEF Announced, EventsOf, Moves
    <3>2. Events(p) = EventsAbout(t, row)
      BY <1>0, <2>6, <3>1 DEF Events, EventsAbout, About
    <3>3. t \in DOMAIN txs => row.status # "PENDING_REFERENCE"
      BY <2>3, <2>6
    <3>4. QED BY <1>1, <2>1, <2>2, <2>4, <3>2, <3>3, StoryGrows
  <2>7. QED BY <2>5, <2>6
<1>4. QED BY <1>2, <1>3

\* An opening with money is a story of its own.
LEMMA OpeningKeepsStory ==
  ASSUME TypeOK, LedgerInvariant, HistoryInvariant, ReversalInvariant, OutboxInOrder,
         NEW w \in Wallets, NEW b \in OpeningBalances, OpenWallet(w, b)
  PROVE  OutboxInOrder'
<1>1. [Next]_vars
  BY DEF Next
<1>2. CASE b = 0
  BY <1>1, <1>2, StoryRests DEF OpenWallet
<1>3. CASE b # 0
  <2>0. PICK t : t = Len(txs) + 1
    OBVIOUS
  <2> DEFINE row == OpeningRow(w, b)
             entry == [tx |-> t, direction |-> "CREDIT", amount |-> b, before |-> 0, after |-> b]
  <2>1. /\ row \in Row /\ txs' = Append(txs, row) /\ ledger' = [ledger EXCEPT ![w] = Append(@, entry)]
        /\ outbox' = outbox \o <<About(t, row, "WagerTransactionProcessed"),
                                 About(t, row, "WalletBalanceChanged")>>
    <3>1. row.version = 1
      BY DEF OpeningRow, MarkProcessed, NewExternal, BlankRow
    <3>2. QED BY <1>3, <2>0, <3>1, OpeningRowType DEF OpenWallet, OpeningRow, About
  <2>2. /\ row.status = "PROCESSED" /\ row.req.kind = "OPENING"
        /\ row.req.wallet = w /\ row.version = 1
    BY DEF OpeningRow, MarkProcessed, NewExternal, BlankRow, OpeningRequest
  <2>3. entry \in Entry /\ entry.tx = t /\ t \in Nat
    BY <2>0, EngineAssumption, DomainAssumption DEF Entry, TypeOK
  <2> HIDE DEF row, entry
  <2>4. Justified(row) /\ ~ Reverses(row) /\ Moves(row) /\ row.status \in Told
    BY <2>2 DEF Justified, Reverses, IsReversal, Moves, Told
  <2>5. Arrives(t, row)
    BY <2>0, <2>1, <2>4, AppendArrives
  <2>6. EntryComes(t, row)
    BY <2>1, <2>2, <2>3, <2>4 DEF EntryComes
  <2>7. outbox' = outbox \o EventsAbout(t, row)
    <3>1. Announced(row) = <<"WagerTransactionProcessed", "WalletBalanceChanged">>
      BY <2>2, <2>4 DEF Announced, EventsOf
    <3>2. EventsAbout(t, row) = <<About(t, row, "WagerTransactionProcessed"),
                                  About(t, row, "WalletBalanceChanged")>>
      BY <3>1 DEF EventsAbout
    <3>3. QED BY <2>1, <3>2
  <2>8. row.version \in Nat /\ row.status # "PENDING_REFERENCE"
    BY <2>2
  <2>9. QED BY <1>1, <2>3, <2>4, <2>5, <2>6, <2>7, <2>8, StoryGrows
<1>4. QED BY <1>2, <1>3

\* Only a commit and an opening announce anything.
LEMMA OtherStepsTellNothing ==
  ASSUME [Next]_vars,
         \A p \in Procs : ~ Commit(p),
         \A w \in Wallets, b \in OpeningBalances : ~ OpenWallet(w, b)
  PROVE  outbox' = outbox
<1>1. CASE \E i \in DOMAIN txs : BecomesDue(i)
  BY <1>1 DEF BecomesDue
<1>2. CASE \E p \in Workers, i \in DOMAIN txs : Claim(p, i)
  BY <1>2 DEF Claim, Start, tables
<1>3. QED
  BY <1>1, <1>2 DEF Next, Step, vars, tables, Submit, Deliver, Start, FindInbox, RecordInbox,
     LockWallet, FindByIdempotencyKey, FindByExternalID, FindReference, CheckReversed, Persist,
     Rollback, Crash

\* Every step continues the story or leaves it.
LEMMA OutboxNext ==
  TypeOK /\ LedgerInvariant /\ HistoryInvariant /\ ReversalInvariant /\ DecisionsAreCurrent
  /\ OutboxInOrder /\ [Next]_vars => OutboxInOrder'
<1> SUFFICES ASSUME TypeOK, LedgerInvariant, HistoryInvariant, ReversalInvariant,
                    DecisionsAreCurrent, OutboxInOrder, [Next]_vars
             PROVE  OutboxInOrder'
  OBVIOUS
<1>1. CASE \E p \in Procs : Commit(p)
  BY <1>1, CommitKeepsStory
<1>2. CASE \E w \in Wallets, b \in OpeningBalances : OpenWallet(w, b)
  BY <1>2, OpeningKeepsStory
<1>3. CASE txs' = txs /\ ledger' = ledger /\ outbox' = outbox
  BY <1>3, StoryRests
<1>4. QED BY <1>1, <1>2, <1>3, OtherStepsKeepRows, OtherStepsKeepEntries, OtherStepsTellNothing

\* The version of a wallet's k-th entry is the k-th of the wallet.
LEMMA EntryVersions ==
  ASSUME EntryPerMovement, EntriesAreRecorded, NEW w \in Wallets, NEW k \in DOMAIN ledger[w]
  PROVE  txs[ledger[w][k].tx].version = k + VersionBefore(w)
<1>1. PICK i : i = ledger[w][k].tx
  OBVIOUS
<1>2. i \in DOMAIN txs /\ txs[i].req.wallet = w
  BY <1>1 DEF EntriesAreRecorded
<1>3. <<w, k>> \in EntriesOf(i)
  <2>1. <<w, k>> \in {<<w, n>> : n \in DOMAIN ledger[w]}
    OBVIOUS
  <2>2. <<w, k>> \in UNION {{<<v, n>> : n \in DOMAIN ledger[v]} : v \in Wallets}
    BY <2>1
  <2>3. QED BY <1>1, <2>2 DEF EntriesOf
<1>4. PICK n \in DOMAIN ledger[w] :
        EntriesOf(i) = {<<w, n>>} /\ txs[i].version = n + VersionBefore(w)
  BY <1>2, <1>3 DEF EntryPerMovement
<1>5. n = k
  BY <1>3, <1>4
<1>6. QED BY <1>1, <1>4, <1>5

\* The promise follows from its strengthening and the entries.
LEMMA LifeFollows ==
  ASSUME TypeOK, EntryPerMovement, EntriesAreRecorded, OutboxInOrder
  PROVE  OutboxTellsTheLife
<1>1. ASSUME NEW i \in DOMAIN txs
      PROVE  EventsOf(txs[i], IF EntriesOf(i) = {} THEN "NONE" ELSE "CREDIT") = Announced(txs[i])
  <2>1. EntriesOf(i) = {} <=> ~ Moves(txs[i])
    BY DEF EntryPerMovement, Moves
  <2>2. QED BY <2>1 DEF Announced
<1>2. ASSUME NEW i \in DOMAIN txs
      PROVE  /\ TypesOfTx(i) \in {Announced(txs[i]),
                                  <<"WagerTransactionPendingReference">> \o Announced(txs[i])}
             /\ txs[i].status = "PENDING_REFERENCE" =>
                  TypesOfTx(i) = <<"WagerTransactionPendingReference">>
  <2>1. LifeIsTold(i)
    BY DEF OutboxInOrder
  <2>2. txs[i].status = "PENDING_REFERENCE" =>
          Announced(txs[i]) = <<"WagerTransactionPendingReference">>
    BY DEF Announced, EventsOf
  <2>3. QED BY <2>1, <2>2 DEF LifeIsTold
<1>3. ASSUME NEW w \in Wallets
      PROVE  /\ [k \in DOMAIN ChangesOf(w) |-> ChangesOf(w)[k].tx] =
                  [k \in DOMAIN ledger[w] |-> ledger[w][k].tx]
             /\ \A k \in DOMAIN ChangesOf(w) :
                  ChangesOf(w)[k].version = ChangesOf(w)[1].version + k - 1
  <2>1. PICK changes, es : changes = ChangesOf(w) /\ es = ledger[w]
    OBVIOUS
  <2>2. changes \in Seq(Event) /\ es \in Seq(Entry)
    <3>1. changes = ChangesIn(outbox, txs, w) /\ outbox \in Seq(Event)
      BY <2>1, StoryReads DEF TypeOK
    <3>2. Chosen(outbox, {k \in DOMAIN outbox : IsChange(outbox[k], txs, w)}) \in Seq(Event)
      BY <3>1, ChosenDefined
    <3>3. QED BY <2>1, <3>1, <3>2 DEF ChangesIn, TypeOK
  <2>3. /\ Len(changes) = Len(es)
        /\ \A k \in 1..Len(es) : /\ changes[k].tx = es[k].tx
                                 /\ changes[k].version = txs[changes[k].tx].version
    BY <2>1 DEF OutboxInOrder, ChangesAreEntries
  <2>4. DOMAIN changes = 1..Len(es) /\ DOMAIN es = 1..Len(es) /\ Len(es) \in Nat
    BY <2>2, <2>3
  <2>5. PICK first \in Nat : first = VersionBefore(w)
    BY DEF VersionBefore
  <2>6. \A k \in DOMAIN es : changes[k].version = k + first
    BY <2>1, <2>3, <2>4, <2>5, EntryVersions
  <2>7. \A k \in DOMAIN changes : changes[k].version = changes[1].version + k - 1
    <3> SUFFICES ASSUME NEW k \in DOMAIN changes
                 PROVE  changes[k].version = changes[1].version + k - 1
      OBVIOUS
    <3>1. k \in Nat /\ 1 \in DOMAIN es /\ k \in DOMAIN es
      BY <2>4
    <3>2. changes[k].version = k + first /\ changes[1].version = 1 + first
      BY <2>6, <3>1
    <3>3. QED BY <2>5, <3>1, <3>2
  <2>8. [k \in DOMAIN changes |-> changes[k].tx] = [k \in DOMAIN es |-> es[k].tx]
    BY <2>3, <2>4
  <2>9. QED BY <2>1, <2>7, <2>8
<1>4. QED BY <1>1, <1>2, <1>3 DEF OutboxTellsTheLife

-----------------------------------------------------------------------------
(* The invariant of the engine.                                              *)

\* Balances, identities, outcomes and decisions fit together at every moment, so
\* that no unit of work commits a decision that the commits, crashes and retries
\* of others have outdated (LockByID first, SetStatus and UpdateBalance last).
THEOREM EngineInvariantCorrect == Spec => []EngineInvariant
<1>1. Init => DecisionsAreCurrent
  BY DecisionsInit
<1>2. /\ TypeOK /\ TypeOK' /\ LedgerInvariant /\ HistoryInvariant
      /\ OutcomeInvariant /\ OutcomeInvariant' /\ DecisionsAreCurrent /\ [Next]_vars
      => DecisionsAreCurrent'
  BY DecisionsNext DEF OutcomeInvariant, ReversalInvariant
<1>3. Init => VersionsCountEntries /\ EntriesInOrder
  BY EntriesInit
<1>4. /\ TypeOK /\ LedgerInvariant /\ HistoryInvariant /\ OutcomeInvariant /\ DecisionsAreCurrent
      /\ VersionsCountEntries /\ EntriesInOrder /\ [Next]_vars
      => VersionsCountEntries' /\ EntriesInOrder'
  BY EntriesNext DEF OutcomeInvariant
<1>5. Init => OutboxInOrder
  BY OutboxInit
<1>6. /\ TypeOK /\ LedgerInvariant /\ HistoryInvariant /\ OutcomeInvariant /\ DecisionsAreCurrent
      /\ OutboxInOrder /\ [Next]_vars
      => OutboxInOrder'
  BY OutboxNext DEF OutcomeInvariant
<1>7. /\ TypeOK /\ LedgerInvariant /\ HistoryInvariant /\ OutcomeInvariant /\ DecisionsAreCurrent
      /\ VersionsCountEntries /\ EntriesInOrder /\ OutboxInOrder
      => EngineInvariant
  <2>1. TypeOK /\ EntriesInOrder => EntryPerMovement
    BY EntryForm
  <2>2. QED BY <2>1 DEF EngineInvariant
<1>8. QED BY <1>1, <1>2, <1>3, <1>4, <1>5, <1>6, <1>7, TypeCorrect, LedgerInvariantCorrect,
             HistoryInvariantCorrect, OutcomeInvariantCorrect, PTL DEF Spec

\* Every movement has one entry, in its wallet, with its amount and its frozen
\* balance and version, and nothing else has one (Ledger().Append beside
\* Create or Update, in one unit of work).
THEOREM EntryCorrect == Spec => []EntryPerMovement
<1>1. EngineInvariant => EntryPerMovement
  BY DEF EngineInvariant
<1>2. QED BY <1>1, EngineInvariantCorrect, PTL

\* What happened to an operation is announced with it: its wait, if it waited,
\* then its outcome, then the balance change its entry records, each once and
\* in order; and the balance changes of a wallet are its entries, version by
\* version (the outbox rows of outbox_events.go are appended in the unit of
\* work that writes the transaction).
THEOREM OutboxTellsTheLifeCorrect == Spec => []OutboxTellsTheLife
<1>1. TypeOK /\ EngineInvariant => OutboxTellsTheLife
  BY LifeFollows DEF EngineInvariant, OutcomeInvariant, ReversalInvariant
<1>2. QED BY <1>1, TypeCorrect, EngineInvariantCorrect, PTL

-----------------------------------------------------------------------------
(* Refinement.                                                             *)

LEMMA ServiceInit == Init => Service!Init
<1> SUFFICES ASSUME Init PROVE Service!Init
  OBVIOUS
<1>1. wallets = [w \in Wallets |-> [open |-> FALSE, balance |-> 0, version |-> 0]]
  BY DEF Init, ClosedWallet
<1>2. Book = <<>>
  <2>1. txs = <<>>
    BY DEF Init
  <2>2. DOMAIN Book = {} /\ Book = [i \in DOMAIN Book |-> Book[i]]
    BY <2>1 DEF Book
  <2>3. <<>> = [i \in {} |-> Book[i]]
    OBVIOUS
  <2>4. QED BY <2>2, <2>3
<1>3. QED BY <1>1, <1>2 DEF Service!Init

\* The book follows the rows.
LEMMA BookSteps ==
  ASSUME TypeOK
  PROVE  /\ txs' = txs => Book' = Book
         /\ \A row \in Row : txs' = Append(txs, row) => Book' = Append(Book, Bare(row))
         /\ \A i \in DOMAIN txs, row \in Row :
              txs' = [txs EXCEPT ![i] = row] => Book' = [Book EXCEPT ![i] = Bare(row)]
<1>1. txs' = txs => Book' = Book
  BY DEF Book, Bare
<1>2. ASSUME NEW row \in Row, txs' = Append(txs, row) PROVE Book' = Append(Book, Bare(row))
  <2>1. txs \in Seq(Row) /\ Book \in Seq(Row) /\ DOMAIN Book = DOMAIN txs /\ Bare(row) \in Row
    BY BookFields, BareFields DEF TypeOK
  <2>2. Len(Book) = Len(txs) /\ Len(txs) \in Nat /\ DOMAIN txs = 1..Len(txs)
    BY <2>1
  <2>3. /\ DOMAIN txs' = 1..(Len(txs) + 1)
        /\ \A i \in 1..Len(txs) : txs'[i] = txs[i]
        /\ txs'[Len(txs) + 1] = row
    BY <1>2, <2>1, <2>2
  <2>4. /\ DOMAIN Append(Book, Bare(row)) = 1..(Len(txs) + 1)
        /\ \A i \in 1..Len(txs) : Append(Book, Bare(row))[i] = Book[i]
        /\ Append(Book, Bare(row))[Len(txs) + 1] = Bare(row)
        /\ Append(Book, Bare(row)) \in Seq(Row)
    BY <2>1, <2>2
  <2>5. Book' = [i \in 1..(Len(txs) + 1) |-> Bare(txs'[i])]
    BY <2>3 DEF Book, Bare
  <2>6. \A i \in 1..(Len(txs) + 1) : Bare(txs'[i]) = Append(Book, Bare(row))[i]
    BY <2>2, <2>3, <2>4 DEF Book
  <2>7. PICK longer : longer = Append(Book, Bare(row))
    OBVIOUS
  <2>8. longer = [i \in 1..(Len(txs) + 1) |-> longer[i]]
    <3>1. longer \in Seq(Row) /\ DOMAIN longer = 1..(Len(txs) + 1)
      BY <2>4, <2>7
    <3>2. QED BY <3>1
  <2>9. QED BY <2>5, <2>6, <2>7, <2>8
<1>3. ASSUME NEW i \in DOMAIN txs, NEW row \in Row, txs' = [txs EXCEPT ![i] = row]
      PROVE  Book' = [Book EXCEPT ![i] = Bare(row)]
  BY <1>3 DEF Book, Bare
<1>4. QED BY <1>1, <1>2, <1>3

\* An opening is the service's Open.
LEMMA OpeningRefines ==
  ASSUME TypeOK, NEW w \in Wallets, NEW b \in OpeningBalances, OpenWallet(w, b)
  PROVE  Service!Next
<1>1. Book' = IF b = 0 THEN Book ELSE Append(Book, Bare(OpeningRow(w, b)))
  <2>1. CASE b = 0
    BY <2>1, BookSteps DEF OpenWallet
  <2>2. CASE b # 0
    <3>1. txs' = Append(txs, OpeningRow(w, b)) /\ OpeningRow(w, b) \in Row
      BY <2>2, OpeningRowType DEF OpenWallet, OpeningRow
    <3>2. QED BY <2>2, <3>1, BookSteps
  <2>3. QED BY <2>1, <2>2
<1>2. b # 0 => Bare(OpeningRow(w, b)) =
        Service!MarkProcessed(Service!NewExternal(Service!OpeningRequest(w, b)), 0, b, 1)
  <2>1. OpeningRow(w, b) = Service!MarkProcessed(Service!NewExternal(Service!OpeningRequest(w, b)), 0, b, 1)
    BY DEF OpeningRow, MarkProcessed, NewExternal, BlankRow, OpeningRequest,
           Service!MarkProcessed, Service!NewExternal, Service!BlankRow, Service!OpeningRequest
  <2>2. OpeningRow(w, b).attempts = 0
    BY DEF OpeningRow, MarkProcessed, NewExternal, BlankRow
  <2>3. b # 0 => Bare(OpeningRow(w, b)) = OpeningRow(w, b)
    BY <2>2, OpeningRowType DEF Bare, Row
  <2>4. QED BY <2>1, <2>3
<1>3. Service!Open(w, b)
  BY <1>1, <1>2 DEF OpenWallet, Service!Open
<1>4. QED BY <1>3 DEF Service!Next

\* The account follows the row of a commit.
LEMMA CommitSettles ==
  ASSUME TypeOK, LedgerInvariant, HistoryInvariant, ReversalInvariant, NEW p \in Procs, Commit(p),
         plan[p].write # "none", NEW after, after = Bare(plan[p].row)
  PROVE  Service!Settle(after)
<1>1. /\ plan[p].row.req = job[p].req
      /\ plan[p].direction # "NONE" <=> plan[p].row.status = "PROCESSED" /\ plan[p].row.req.kind # "LOSS"
      /\ after.req = plan[p].row.req /\ after.status = plan[p].row.status
      /\ after.balance = plan[p].row.balance /\ after.version = plan[p].row.version
  BY CommittedMovement, BareFields
<1>2. QED BY <1>1 DEF Service!Settle, Commit, Apply

\* A commit is one operation of the service, or changes nothing it can see.
LEMMA CommitRefines ==
  ASSUME TypeOK, EngineInvariant, NEW p \in Procs, Commit(p)
  PROVE  Service!Next \/ (wallets' = wallets /\ Book' = Book)
<1> DEFINE row   == plan[p].row
           r     == job[p].req
           after == Bare(plan[p].row)
<1>1. /\ LedgerInvariant /\ HistoryInvariant /\ ReversalInvariant /\ DecisionsAreCurrent
      /\ pc[p] = "return" /\ DecisionInOrder(p)
  BY DEF EngineInvariant, OutcomeInvariant, DecisionsAreCurrent, Commit
<1>2. CASE plan[p].write = "none"
  <2>1. plan[p].direction = "NONE"
    BY <1>1, <1>2 DEF ReversalInvariant, PlansAreJustified, OutcomeIsJustified
  <2>2. txs' = txs /\ wallets' = wallets
    BY <1>2, <2>1 DEF Commit, Apply
  <2>3. QED BY <2>2, BookSteps
<1>3. CASE plan[p].write # "none"
  <2>1. /\ row \in Row /\ row.req = r
        /\ r \in StoredRequests /\ r.wallet \in Wallets
        /\ RowAtHand(p) \in Row /\ RowAtHand(p).req = r
    BY <1>1, <1>3, PlannedRequest, AtHand DEF TypeOK, Plan
  <2>2. /\ holder[r.wallet] = p /\ DecidedNow(p) /\ CurrencyOf[r.wallet] = r.currency
    BY <1>1, <1>3 DEF DecisionInOrder, InFlight
  <2>3. Service!Settle(after)
    BY <1>1, <1>3, CommitSettles
  <2>4. CASE p \notin Workers
    <3>1. r \in Requests /\ txs' = Append(txs, row)
      <4>1. plan[p].write = "insert"
        BY <1>1, <1>3, <2>4, PlannedRequest
      <4>2. QED BY <1>1, <2>4, <4>1, InvariantByProcess
                DEF HistoryInvariant, RequestInOrder, Procs, Commit, Apply
    <3>2. Book' = Append(Book, after)
      BY <2>1, <3>1, BookSteps
    <3>3. wallets[r.wallet].open
      BY <1>1, <2>1, <2>2, EngineAssumption DEF LedgerInvariant, ClosedIsUntouched
    <3>4. Service!Unregistered(r)
      <4>1. InFlight(p) /\ p \in Sessions \cup Consumers
        BY <1>1, <1>3, <2>4 DEF InFlight, Procs
      <4>2. \A i \in DOMAIN txs : ~ SameIdentity(txs[i], row)
        BY <1>1, <4>1 DEF HistoryInvariant, InsertsAreNew
      <4>3. QED BY <2>1, <4>2, BookFields DEF Service!Unregistered, SameIdentity
    <3>5. Bare(RowAtHand(p)) = Service!NewExternal(r)
      <4>1. RowAtHand(p) = NewExternal(r)
        BY <2>4 DEF RowAtHand
      <4>2. Bare(NewExternal(r)) = NewExternal(r)
        <5>1. NewExternal(r) = [req |-> r, status |-> "PENDING", code |-> Nil, refTx |-> 0,
                                balance |-> 0, version |-> 0, attempts |-> 0]
          BY DEF NewExternal, BlankRow
        <5>2. QED BY <5>1 DEF Bare
      <4>3. Service!NewExternal(r) = NewExternal(r)
        BY SameDomain
      <4>4. QED BY <4>1, <4>2, <4>3
    <3>6. \/ after \in Service!Outcomes(Service!NewExternal(r))
          \/ Service!MayMiss(r) /\ after = Service!MarkPendingReference(Service!NewExternal(r))
      BY <2>2, <2>4, <3>5, SameDomain DEF DecidedNow
    <3>7. Service!Valid(r) /\ Service!Complete(r)
      <4>1. InFlight(p) /\ p \in Sessions \cup Consumers
        BY <1>1, <1>3, <2>4 DEF InFlight, Procs
      <4>2. Valid(r) /\ Complete(r)
        BY <1>1, <2>1, <4>1, InsertsAreValid
      <4>3. QED BY <4>2, SameDomain
    <3>8. Service!Register(r)
      BY <2>2, <2>3, <3>2, <3>3, <3>4, <3>6, <3>7 DEF Service!Register
    <3>9. QED BY <3>1, <3>8 DEF Service!Next
  <2>5. CASE p \in Workers
    <3> DEFINE i == job[p].tx
    <3>1. /\ i \in DOMAIN txs /\ txs[i].status = "PENDING_REFERENCE" /\ txs' = [txs EXCEPT ![i] = row]
          /\ RowAtHand(p) = txs[i] /\ txs[i].req = r
      BY <1>1, <1>3, <2>1, <2>5, PlannedRequest DEF Commit, Apply, RowAtHand
    <3>2. Book' = [Book EXCEPT ![i] = after]
      BY <2>1, <3>1, BookSteps
    <3>3. i \in DOMAIN Book /\ Book[i] = Bare(RowAtHand(p)) /\ Book[i].req = r
          /\ Book[i].status = "PENDING_REFERENCE"
      BY <3>1, BookFields
    <3>4. CASE after = Book[i]
      <4>1. Book' = Book
        BY <3>2, <3>4 DEF Book
      <4>2. row.status = "PENDING_REFERENCE"
        BY <2>1, <3>3, <3>4, BareFields
      <4>3. after.status = "PENDING_REFERENCE"
        BY <3>3, <3>4
      <4>4. wallets' = wallets
        BY <2>3, <4>3 DEF Service!Settle
      <4>5. QED BY <4>1, <4>4
    <3>5. CASE after # Book[i]
      <4>1. \/ after \in Service!Outcomes(Book[i])
            \/ Service!MayMiss(Book[i].req) /\ after = Service!Reject(Book[i], "REFERENCE_NOT_FOUND")
        BY <2>2, <2>5, <3>3, <3>5, SameDomain DEF DecidedNow
      <4>2. Service!Resolve(i)
        BY <2>3, <3>2, <3>3, <4>1 DEF Service!Resolve
      <4>3. QED BY <3>3, <4>2 DEF Service!Next
    <3>6. QED BY <3>4, <3>5
  <2>6. QED BY <2>4, <2>5
<1>4. QED BY <1>2, <1>3

LEMMA ServiceNext ==
  TypeOK /\ EngineInvariant /\ [Next]_vars => [Service!Next]_(Service!svars)
<1> SUFFICES ASSUME TypeOK, EngineInvariant, [Next]_vars
             PROVE  Service!Next \/ (wallets' = wallets /\ Book' = Book)
  BY DEF Service!svars
<1>1. ASSUME NEW p \in Procs, Commit(p)
      PROVE  Service!Next \/ (wallets' = wallets /\ Book' = Book)
  BY <1>1, CommitRefines
<1>2. ASSUME NEW w \in Wallets, NEW b \in OpeningBalances, OpenWallet(w, b)
      PROVE  Service!Next
  BY <1>2, OpeningRefines
<1>3. QED BY <1>1, <1>2, OtherStepsKeepRows, OtherStepsKeepWallets, BookSteps

\* Every run of the statements of sessions, consumers and workers is, seen
\* through its committed tables, a run of atomic operations that happen at most
\* once and are decided by the tables of their instant: locks, replays, crashes
\* and retries cannot be told apart from them (UnitOfWork.Execute around
\* ProcessWagerTransaction, HandleWagerMessage and ResolvePendingReferences).
THEOREM ServiceImplemented == Spec => ImplementsService
<1>1. Init => Service!Init
  BY ServiceInit
<1>2. TypeOK /\ EngineInvariant /\ [Next]_vars => [Service!Next]_(Service!svars)
  BY ServiceNext
<1>3. QED BY <1>1, <1>2, TypeCorrect, EngineInvariantCorrect, PTL DEF Spec, ImplementsService, Service!Spec
=============================================================================

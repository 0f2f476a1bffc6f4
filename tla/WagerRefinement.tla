--------------------------- MODULE WagerRefinement ---------------------------
(***************************************************************************)
(* WagerEngine implements WagerService: seen through its committed tables, *)
(* every run of the statements of all its processes is a run of atomic     *)
(* operations.  The retries a waiting row has used are hidden.             *)
(***************************************************************************)
EXTENDS WagerEngine

Bare(row) == [row EXCEPT !.attempts = 0]
Book == [i \in DOMAIN txs |-> Bare(txs[i])]

Service == INSTANCE WagerService WITH accounts <- wallets, book <- Book

\* Every commit of WagerEngine (unit_of_work.go, Execute) is one atomic
\* operation of the service, decided by the committed state it is applied to:
\* locks, replays, crashes and retries are invisible.
ImplementsService == Service!Spec

-----------------------------------------------------------------------------
(* Why a decision still holds at its commit.                               *)

\* The row p decides about.
RowAtHand(p) == IF p \in Workers THEN txs[job[p].tx] ELSE NewExternal(job[p].req)

\* What p has decided is what the service would decide now.  A refusal for the
\* currency is none of its outcomes; a retry is none of its steps.
DecidedNow(p) ==
  LET r     == job[p].req
      row   == Bare(RowAtHand(p))
      after == Bare(plan[p].row) IN
  \/ CurrencyOf[r.wallet] # r.currency
  \/ after \in Service!Outcomes(row)
  \/ /\ Service!MayMiss(r)
     /\ after = IF p \in Workers THEN Reject(row, "REFERENCE_NOT_FOUND")
                                 ELSE MarkPendingReference(row)
  \/ p \in Workers /\ after = row

\* A decision is taken and kept under the lock of the wallet it is about, so
\* that nothing it rests on changes before its commit: the account, what is
\* settled for this wallet, and whether the reference was reversed.
DecisionInOrder(p) ==
  /\ p \notin Workers /\ pc[p] \notin {"idle", "persist", "return"} =>
       plan[p].row = NewExternal(job[p].req)
  /\ pc[p] \in {"ref", "reversed"} => Holder[job[p].req.wallet] = job[p].req.player
  /\ pc[p] = "reversed" => job[p].ref \in SettledRows(job[p].req.ref)
  /\ plan[p].write # "none" => holder[job[p].req.wallet] = p /\ DecidedNow(p)
  /\ InFlight(p) => CurrencyOf[job[p].req.wallet] = job[p].req.currency
WaitingRowsMatch ==
  \A i \in DOMAIN txs : txs[i].status = "PENDING_REFERENCE" =>
    Holder[txs[i].req.wallet] = txs[i].req.player
DecisionsAreCurrent == (\A p \in Procs : DecisionInOrder(p)) /\ WaitingRowsMatch

\* The strengthening of EntryPerMovement: the version of a wallet counts its
\* entries, as the versions frozen in its operations do.
VersionsCountEntries ==
  \A w \in Wallets : wallets[w].open =>
    wallets[w].version = Len(ledger[w]) + VersionBefore(w)

\* The strengthening of OutboxTellsTheLife: every event is of a stored row, the
\* events of a row tell how far it has come, and the balance changes of a wallet
\* are its entries, each with the version that is frozen in its row.
Moves(row) == row.status = "PROCESSED" /\ row.req.kind # "LOSS"
Announced(row) == EventsOf(row, IF Moves(row) THEN "CREDIT" ELSE "NONE")
LifeIsTold(i) ==
  LET row == txs[i] IN
  /\ row.status \in {"PENDING_REFERENCE", "REJECTED", "PROCESSED"}
  /\ \/ TypesOfTx(i) = Announced(row)
     \/ /\ row.status # "PENDING_REFERENCE"
        /\ TypesOfTx(i) = <<"WagerTransactionPendingReference">> \o Announced(row)
ChangesAreEntries(w) ==
  LET changes == ChangesOf(w) IN
  /\ Len(changes) = Len(ledger[w])
  /\ \A k \in 1..Len(ledger[w]) :
       /\ changes[k].tx = ledger[w][k].tx
       /\ changes[k].version = txs[changes[k].tx].version
OutboxInOrder ==
  /\ \A k \in DOMAIN outbox : outbox[k].tx \in DOMAIN txs
  /\ \A i \in DOMAIN txs : LifeIsTold(i)
  /\ \A w \in Wallets : ChangesAreEntries(w)

\* The inductive invariant of the engine: balances, identities, outcomes,
\* decisions, entries and events in one.  If it fails, some commit writes what
\* another has outdated, or says something else than it does.
EngineInvariant ==
  /\ LedgerInvariant
  /\ HistoryInvariant
  /\ OutcomeInvariant
  /\ DecisionsAreCurrent
  /\ VersionsCountEntries /\ EntryPerMovement
  /\ OutboxInOrder
=============================================================================

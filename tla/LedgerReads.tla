---------------------------- MODULE LedgerReads ----------------------------
(***************************************************************************)
(* Reading the ledger of one wallet while it grows: the paginated listing  *)
(* (wallets_handler.go, Ledger; repository/ledger.go, ListByWallet) and    *)
(* the reconciliation of the balance (reconcile_wallet.go), each in read   *)
(* only REPEATABLE READ transactions (unit_of_work.go, ExecuteReadOnly).   *)
(*                                                                         *)
(* Units of work post one entry each.  What matters of them here is when   *)
(* they take created_at: HTTP calls and consumers under the wallet lock,   *)
(* the reference workers before they wait for it.                          *)
(***************************************************************************)
EXTENDS Money, FiniteSets, SequencesExt

CONSTANTS
  Sessions, Workers,    \* goroutines that post entries, by when they take created_at
  Deltas,               \* what a movement adds to the balance
  Limits,               \* the page sizes a caller may ask for
  MaxTime, MaxEntries,  \* bounds: the clock, and the entries of the wallet
  NoOne

Writers == Sessions \cup Workers

ASSUME ReadsAssumption ==
  /\ Sessions \cap Workers = {} /\ NoOne \notin Writers
  /\ Deltas \subseteq Words
  /\ Limits \subseteq Nat \ {0}
  /\ MaxTime \in Nat \ {0} /\ MaxEntries \in Nat

VARIABLES
  now,       \* the clock
  balance,   \* wallets.balance_minor
  entries,   \* the committed entries, in commit order
  stamp,     \* stamp[p]: the created_at p has taken, 0 when it has none
  holder,    \* who holds the wallet lock
  listing,   \* the listing: its cursor, and whether it has begun or ended
  listed,    \* history: the entries the pages have shown, in order
  atFirst, atLast, \* history: how many entries were committed at its first and its last page
  check      \* the reconciliation

vars == <<now, balance, entries, stamp, holder, listing, listed, atFirst, atLast, check>>

Times == 1..MaxTime
Key == [at : 0..MaxTime, id : 0..MaxEntries]
Entry == [at : Times, id : 1..MaxEntries, delta : Words, by : Writers]
KeyOf(e) == [at |-> e.at, id |-> e.id]
Before(a, b) == a.at < b.at \/ (a.at = b.at /\ a.id < b.id)
Start == [at |-> 0, id |-> 0]     \* no cursor: before every key

NoCheck == [pc |-> "idle", stored |-> 0, snapshot |-> <<>>, difference |-> Amount(0)]

TypeOK ==
  /\ now \in Times
  /\ balance \in 0..MaxInt
  /\ entries \in Seq(Entry) /\ Len(entries) <= MaxEntries
  /\ stamp \in [Writers -> 0..MaxTime]
  /\ holder \in Writers \cup {NoOne}
  /\ listing \in [pc : {"idle", "reading", "ended"}, cursor : Key]
  /\ listed \in Seq(Entry)
  /\ atFirst \in 0..Len(entries) /\ atLast \in atFirst..Len(entries)
  /\ check \in [pc : {"idle", "read", "reported"}, stored : 0..MaxInt, snapshot : Seq(Entry),
                difference : [error : Errors, minor : Words]]

Init ==
  /\ now = 1
  /\ balance = 0
  /\ entries = <<>>
  /\ stamp = [p \in Writers |-> 0]
  /\ holder = NoOne
  /\ listing = [pc |-> "idle", cursor |-> Start]
  /\ listed = <<>>
  /\ atFirst = 0 /\ atLast = 0
  /\ check = NoCheck

reads == <<listing, listed, atFirst, atLast, check>>

-----------------------------------------------------------------------------
(* Units of work.                                                          *)

Tick ==
  /\ now < MaxTime
  /\ now' = now + 1
  /\ UNCHANGED <<balance, entries, stamp, holder, reads>>

StampsEarly(p) == FALSE
StampsUnderLock(p) == p \in Sessions

\* ResolvePendingReferences.Tick: now, then the claim, then the wallet lock.
TakeStamp(p) ==
  /\ ~ StampsUnderLock(p) /\ stamp[p] = 0
  /\ stamp' = [stamp EXCEPT ![p] = now]
  /\ UNCHANGED <<now, balance, entries, holder, reads>>

\* LockByID, and for a session the clock read that follows it.
Lock(p) ==
  /\ holder = NoOne
  /\ holder' = p
  /\ IF StampsUnderLock(p)
       THEN stamp[p] = 0 /\ stamp' = [stamp EXCEPT ![p] = now]
       ELSE stamp[p] # 0 /\ UNCHANGED stamp
  /\ UNCHANGED <<now, balance, entries, reads>>

\* A wallet is debited no further than zero.
NotOverflowing(total) == total <= MaxInt
Fits(total) == total \in 0..MaxInt

\* The commit: the entry and the balance it ends in.  Entry ids (UUIDv7) order
\* the entries of one instant in any way.
Post(p) ==
  /\ holder = p
  /\ \E delta \in Deltas, id \in 1..MaxEntries \ {entries[k].id : k \in DOMAIN entries} :
       /\ Fits(balance + delta)
       /\ balance' = balance + delta
       /\ entries' = Append(entries, [at |-> stamp[p], id |-> id, delta |-> delta, by |-> p])
  /\ holder' = NoOne
  /\ stamp' = [stamp EXCEPT ![p] = 0]
  /\ UNCHANGED <<now, reads>>

\* A unit of work that fails or writes no entry.
GiveUp(p) ==
  /\ stamp[p] # 0
  /\ stamp' = [stamp EXCEPT ![p] = 0]
  /\ holder' = IF holder = p THEN NoOne ELSE holder
  /\ UNCHANGED <<now, balance, entries, reads>>

-----------------------------------------------------------------------------
(* The listing.                                                            *)

\* ListByWallet: (created_at, id) > cursor ORDER BY created_at, id LIMIT limit + 1.
AtOrAfter(cursor, key) == ~ Before(key, cursor)
After(cursor, key) == Before(cursor, key)
InKeyOrder(S) ==
  CHOOSE rows \in [1..Cardinality(S) -> S] :
    \A j, k \in 1..Cardinality(S) : j < k => Before(rows[j], rows[k])
RowsAfter(cursor) == InKeyOrder({e \in ToSet(entries) : After(cursor, KeyOf(e))})

\* The row that says there is another page is not part of this one.
CursorOfNext(rows, limit) == rows[limit + 1]
CursorOf(rows, limit) == rows[limit]

ReadPage(limit) ==
  LET rows == RowsAfter(listing.cursor)
      more == Len(rows) > limit IN
  /\ listing.pc # "ended"
  /\ listed' = listed \o (IF more THEN SubSeq(rows, 1, limit) ELSE rows)
  /\ listing' = IF more
       THEN [pc |-> "reading", cursor |-> KeyOf(CursorOf(rows, limit))]
       ELSE [listing EXCEPT !.pc = "ended"]
  /\ atFirst' = IF listing.pc = "idle" THEN Len(entries) ELSE atFirst
  /\ atLast' = Len(entries)
  /\ UNCHANGED <<now, balance, entries, stamp, holder, check>>

-----------------------------------------------------------------------------
(* The reconciliation.                                                     *)

\* FindByID, the first statement: it fixes the snapshot of both reads.
ReadBalance ==
  /\ check.pc = "idle"
  /\ check' = [check EXCEPT !.pc = "read", !.stored = balance, !.snapshot = entries]
  /\ UNCHANGED <<now, balance, entries, stamp, holder, listing, listed, atFirst, atLast>>

\* SumByWallet and the difference; the variant reads what is committed by now.
SeenNow == entries
Seen == check.snapshot
SumOf(es) ==
  LET total[k \in 0..Len(es)] == IF k = 0 THEN 0 ELSE total[k - 1] + es[k].delta
  IN total[Len(es)]
ReadLedger ==
  /\ check.pc = "read"
  /\ check' = [check EXCEPT !.pc = "reported", !.difference = Subtract(check.stored, SumOf(Seen))]
  /\ UNCHANGED <<now, balance, entries, stamp, holder, listing, listed, atFirst, atLast>>

Next ==
  \/ Tick
  \/ \E p \in Writers : TakeStamp(p) \/ Lock(p) \/ Post(p) \/ GiveUp(p)
  \/ \E limit \in Limits : ReadPage(limit)
  \/ ReadBalance
  \/ ReadLedger

Spec == Init /\ [][Next]_vars

-----------------------------------------------------------------------------
(* Correctness.                                                            *)

\* The pages together show no entry twice and are ordered by (created_at, id),
\* whatever is inserted between them (ADR-018; ListByWallet's cursor).
ListingInKeyOrder ==
  \A k \in 1..(Len(listed) - 1) : Before(listed[k], listed[k + 1])

\* A listing that has ended has shown every entry that was committed before its
\* first page was read, although others were inserted among them meanwhile.
OldEntriesAreListed ==
  listing.pc = "ended" => \A k \in 1..atFirst : entries[k] \in ToSet(listed)

\* An entry committed while the listing ran is missed only if it arrived behind
\* the cursor: it is a worker's, whose created_at is older than its commit, or
\* of the very instant of an entry that was there.  An operation that takes its
\* created_at under the wallet lock is never missed otherwise.
OnlyEarlyStampsAreMissed ==
  listing.pc = "ended" =>
    \A k \in 1..atLast : entries[k] \notin ToSet(listed) =>
      \/ entries[k].by \in Workers
      \/ \E j \in 1..(k - 1) : entries[j].at = entries[k].at

\* The reconciliation never reports a divergence of a wallet that moves while
\* it is checked (ReconcileWallet.Execute: one snapshot for both reads).
NoFalseDivergence == check.pc = "reported" => check.difference = Amount(0)
=============================================================================

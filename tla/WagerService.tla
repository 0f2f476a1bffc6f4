---------------------------- MODULE WagerService ----------------------------
(***************************************************************************)
(* What the wagering service promises, without processes, locks, messages  *)
(* or statements: every operation takes effect at one instant, at most     *)
(* once, decided by the accounts and the book of operations of that very   *)
(* instant.  WagerEngine implements this specification.                    *)
(***************************************************************************)
EXTENDS Wagering, Sequences

CONSTANT OpeningBalances

VARIABLES
  accounts,   \* accounts[w]: [open, balance, version]
  book        \* operations in the order they were recorded

svars == <<accounts, book>>

Init ==
  /\ accounts = [w \in Wallets |-> [open |-> FALSE, balance |-> 0, version |-> 0]]
  /\ book = <<>>

Open(w, initial) ==
  /\ ~ accounts[w].open
  /\ accounts' = [accounts EXCEPT ![w] = [open |-> TRUE, balance |-> initial, version |-> 1]]
  /\ book' = IF initial = 0 THEN book
             ELSE Append(book, MarkProcessed(NewExternal(OpeningRequest(w, initial)), 0, initial, 1))

-----------------------------------------------------------------------------
(* The decision on a new or waiting operation, as the set of rows it may   *)
(* become; the set is empty when the movement would overflow.              *)

Unregistered(r) == \A i \in DOMAIN book : book[i].req.key # r.key /\ book[i].req.ext # r.ext
Settled(ext) == {i \in DOMAIN book : book[i].req.ext = ext /\ IsTerminal(book[i].status)}
Reverted(i) ==
  \E j \in DOMAIN book :
    book[j].refTx = i /\ IsReversal(book[j].req.kind) /\ book[j].status = "PROCESSED"

MovedNow(row, reference, direction) ==
  LET account == accounts[row.req.wallet] IN
  IF Overflows(direction, account.balance, row.req.amount) THEN {}
  ELSE {Moved(row, reference, direction, account.balance, account.version)}

ReversedNow(row, i) ==
  LET refusal == ReversalRejection(book[i], row.req) IN
  IF refusal # Nil THEN {Reject(row, refusal)}
  ELSE IF Reverted(i) THEN {Reject(row, "DUPLICATE_REVERSAL")}
  ELSE MovedNow(row, i, ReversalDirection(book[i].req.kind))

Outcomes(row) ==
  LET r == row.req IN
  IF Holder[r.wallet] # r.player THEN {Reject(row, "WALLET_PLAYER_MISMATCH")}
  ELSE IF IsReversal(r.kind) THEN UNION {ReversedNow(row, i) : i \in Settled(r.ref)}
  ELSE MovedNow(row, 0, DirectDirection(r.kind))

\* A reversal may find its reference unsettled.  An operation on another
\* wallet may settle while it is being looked up, and may then be missed.
MayMiss(r) ==
  /\ Holder[r.wallet] = r.player /\ IsReversal(r.kind)
  /\ \A i \in Settled(r.ref) : book[i].req.wallet # r.wallet

\* The account follows the row it has just been moved by.
Settle(row) ==
  accounts' =
    IF row.status = "PROCESSED" /\ row.req.kind # "LOSS"
      THEN [accounts EXCEPT ![row.req.wallet] =
              [open |-> TRUE, balance |-> row.balance, version |-> row.version]]
      ELSE accounts

-----------------------------------------------------------------------------

\* A valid and complete request in the currency of its wallet is recorded with
\* its outcome; no other ever is.
Register(r) ==
  /\ Valid(r) /\ Complete(r)
  /\ accounts[r.wallet].open /\ CurrencyOf[r.wallet] = r.currency
  /\ Unregistered(r)
  /\ LET row == NewExternal(r) IN
     \E after \in Outcomes(row) \cup {x \in {MarkPendingReference(row)} : MayMiss(r)} :
       book' = Append(book, after) /\ Settle(after)

\* A waiting reversal is decided, or given up.
Resolve(i) ==
  /\ book[i].status = "PENDING_REFERENCE"
  /\ \E after \in Outcomes(book[i])
                  \cup {x \in {Reject(book[i], "REFERENCE_NOT_FOUND")} : MayMiss(book[i].req)} :
       book' = [book EXCEPT ![i] = after] /\ Settle(after)

Next ==
  \/ \E w \in Wallets, b \in OpeningBalances : Open(w, b)
  \/ \E r \in Requests : Register(r)
  \/ \E i \in DOMAIN book : Resolve(i)

Spec == Init /\ [][Next]_svars
=============================================================================

------------------------------ MODULE Wagering ------------------------------
(***************************************************************************)
(* The wagering domain: kinds, statuses, the transaction row and the pure  *)
(* decisions the use cases take on it (internal/domain/wagering,           *)
(* internal/domain/wallet and the helpers of process_transaction.go).      *)
(*                                                                         *)
(* A request is a ProcessTransactionCommand as it arrives, valid or not.   *)
(* Its key, ext and ref stand for the pairs (provider, idempotency key),   *)
(* (provider, external id) and (provider, referenced external id): every   *)
(* query of the code is scoped by provider, so one value per pair is       *)
(* enough.  A field that is missing or cannot be parsed is Nil.            *)
(***************************************************************************)
EXTENDS Integers

CONSTANTS
  Requests,      \* the commands providers may send, valid or not
  Wallets,       \* wallet ids
  Holder,        \* Holder[w]: the player wallet w belongs to
  CurrencyOf,    \* CurrencyOf[w]: the currency of wallet w
  Nil,           \* an absent column (SQL NULL)
  MaxMinor,      \* the largest amount of minor units (math.MaxInt64, scaled)
  MaxAttempts    \* PendingReferencePolicy.MaxAttempts

ExternalKinds == {"BET", "WIN", "LOSS", "REFUND", "ROLLBACK"}
IsReversal(kind) == kind \in {"REFUND", "ROLLBACK"}

Statuses == {"PENDING", "PENDING_REFERENCE", "PROCESSED", "REJECTED", "FAILED"}
IsTerminal(status) == status \in {"PROCESSED", "REJECTED", "FAILED"}

\* allowedTransitions: terminal statuses are no source.
CanTransitionTo(from, to) ==
  \/ from = "PENDING" /\ to \in {"PENDING_REFERENCE", "PROCESSED", "REJECTED", "FAILED"}
  \/ from = "PENDING_REFERENCE" /\ to \in {"PROCESSED", "REJECTED", "FAILED"}

FailureCodes ==
  {"INSUFFICIENT_FUNDS", "REVERSAL_EXCEEDS_BALANCE", "REFERENCE_NOT_FOUND",
   "REFERENCE_NOT_PROCESSED", "DUPLICATE_REVERSAL", "REFERENCE_MISMATCH",
   "CURRENCY_MISMATCH", "WALLET_PLAYER_MISMATCH"}

Directions == {"CREDIT", "DEBIT", "NONE"}

Request ==
  [key : {r.key : r \in Requests}, ext : {r.ext : r \in Requests},
   wallet : Wallets, player : {r.player : r \in Requests},
   currency : {r.currency : r \in Requests}, round : {r.round : r \in Requests},
   kind : ExternalKinds, amount : 0..MaxMinor, ref : {r.ref : r \in Requests}]

ValidAmount(r) == (r.kind = "LOSS") <=> (r.amount = 0)
ValidReference(r) ==
  /\ IsReversal(r.kind) => r.ref # Nil
  /\ r.ref # Nil => IsReversal(r.kind) \/ r.kind = "WIN"

\* What parse lets through.  It runs inside the unit of work, for a message
\* after the INSERT of its inbox row.
Valid(r) ==
  /\ Nil \notin {r.key, r.ext, r.player, r.currency}
  /\ ValidAmount(r)
  /\ ValidReference(r)

\* The fields NewExternal asks for beyond those of parse: roundId and gameId,
\* both of which round stands for.
Complete(r) == r.round # Nil

ASSUME DomainAssumption ==
  /\ MaxMinor \in Nat
  /\ MaxAttempts \in Nat \ {0}
  /\ Nil \notin FailureCodes
  /\ Requests \subseteq Request

-----------------------------------------------------------------------------
(* Rows of wager_transactions.                                             *)

\* The request an OPENING row is stored with: no provider metadata.
OpeningRequest(w, initial) ==
  [key |-> Nil, ext |-> Nil, wallet |-> w, player |-> Holder[w],
   currency |-> CurrencyOf[w], round |-> Nil, kind |-> "OPENING",
   amount |-> initial, ref |-> Nil]

StoredRequests ==
  Requests \cup {OpeningRequest(w, b) : w \in Wallets, b \in 1..MaxMinor}

\* balance and version are the frozen result, refTx the resolved reference
\* (0: none); code is the failure code.
Row ==
  [req : StoredRequests, status : Statuses, code : FailureCodes \cup {Nil},
   refTx : Nat, balance : 0..MaxMinor, version : Nat, attempts : Nat]

\* A row of no request yet, and the row of a new one.
BlankRow ==
  [req |-> Nil, status |-> "PENDING", code |-> Nil, refTx |-> 0,
   balance |-> 0, version |-> 0, attempts |-> 0]
NewExternal(r) == [BlankRow EXCEPT !.req = r]

MarkPendingReference(row) ==
  [row EXCEPT !.status = "PENDING_REFERENCE", !.attempts = 0]

\* A retry that is not counted, and one that is.
RetryUncounted(row) == row
ScheduleReferenceRetry(row) == [row EXCEPT !.attempts = @ + 1]

Reject(row, why) == [row EXCEPT !.status = "REJECTED", !.code = why]

MarkProcessed(row, reference, after, ver) ==
  [row EXCEPT !.status = "PROCESSED", !.refTx = reference,
              !.balance = after, !.version = ver]

-----------------------------------------------------------------------------
(* Decisions.                                                              *)

EligibleForReversal(reversal, referenced) ==
  IF reversal = "REFUND" THEN referenced = "BET"
                         ELSE referenced \in {"BET", "WIN", "REFUND"}

\* reversalRejection: the code that refuses r against a terminal reference
\* row, Nil when the reference is acceptable.
ReversalRejection(reference, r) ==
  IF reference.status # "PROCESSED" \/ ~ EligibleForReversal(r.kind, reference.req.kind)
    THEN "REFERENCE_NOT_PROCESSED"
  ELSE IF \/ reference.req.wallet # r.wallet
          \/ reference.req.player # r.player
          \/ reference.req.round # r.round
          \/ reference.req.amount # r.amount
          \/ reference.req.currency # r.currency
    THEN "REFERENCE_MISMATCH"
  ELSE Nil

\* Direction of a direct operation and of a reversal of a referenced kind.
DirectDirection(kind) ==
  CASE kind = "BET" -> "DEBIT" [] kind = "WIN" -> "CREDIT" [] OTHER -> "NONE"
ReversalDirection(referenced) == IF referenced = "BET" THEN "CREDIT" ELSE "DEBIT"

InsufficientFundsCode(kind) ==
  IF IsReversal(kind) THEN "REVERSAL_EXCEEDS_BALANCE" ELSE "INSUFFICIENT_FUNDS"

Overflows(direction, balance, amount) ==
  direction = "CREDIT" /\ balance + amount > MaxMinor
\* The balance check left to somebody else.
OverdrawsNever(direction, balance, amount) == FALSE
Overdraws(direction, balance, amount) ==
  direction = "DEBIT" /\ amount > balance

BalanceAfter(direction, balance, amount) ==
  CASE direction = "CREDIT" -> balance + amount
    [] direction = "DEBIT"  -> balance - amount
    [] OTHER -> balance
VersionAfter(direction, version) ==
  IF direction = "NONE" THEN version ELSE version + 1

\* move and persistSettled: the row an operation ends in when a wallet with
\* this balance and version is moved (only meaningful without overflow).
Moved(row, reference, direction, balance, version) ==
  IF Overdraws(direction, balance, row.req.amount)
    THEN Reject([row EXCEPT !.refTx = reference], InsufficientFundsCode(row.req.kind))
    ELSE MarkProcessed(row, reference,
                       BalanceAfter(direction, balance, row.req.amount),
                       VersionAfter(direction, version))

\* The events appended with a row, in order (outbox_events.go).
EventsOf(row, direction) ==
  CASE row.status = "PENDING_REFERENCE" -> <<"WagerTransactionPendingReference">>
    [] row.status = "REJECTED" -> <<"WagerTransactionRejected">>
    [] row.status = "PROCESSED" /\ direction = "NONE" -> <<"WagerTransactionProcessed">>
    [] OTHER -> <<"WagerTransactionProcessed", "WalletBalanceChanged">>
=============================================================================

--------------------------- MODULE MCLedgerReads ---------------------------
(***************************************************************************)
(* A small instance of LedgerReads.  The pure operators of Money and       *)
(* HttpEdge are checked beside it: each of their inputs is an initial      *)
(* state of its own, from which nothing goes on.  The listing and the      *)
(* reconciliation do not see each other: no behaviour has both.            *)
(***************************************************************************)
EXTENDS LedgerReads, HttpEdge

CONSTANT MaxText      \* the longest text that is parsed
ASSUME MCReadsAssumption == MaxText \in Nat

VARIABLE input        \* the input of a pure operator, or none

MCDeltas == {1, -1}

Texts == UNION {[1..n -> Digit \cup {Minus, Dot, Other}] : n \in 0..MaxText}
NoInput == [of |-> "nothing"]
Inputs ==
  [of : {"words"}, a : Words, b : Words]
    \cup [of : {"text"}, text : Texts] \cup [of : {"call"}, call : Calls]

MCInit == Init /\ input \in {NoInput} \cup Inputs
MCNext ==
  /\ input = NoInput /\ Next /\ UNCHANGED input
  /\ (listing.pc = "idle" \/ check = NoCheck)'
MCSpec == MCInit /\ [][MCNext]_<<vars, input>>

\* Checked arithmetic gives the true result or, exactly when that does not fit
\* the word, an overflow (money.go, add, subtract, multiply, Negate).
ArithmeticExact == input.of = "words" => ArithmeticIsExactFor(input.a, input.b)

\* Parse accepts exactly the texts Format writes, and gives back the amount:
\* one text per amount, so that the payload hash of an operation is the same
\* over HTTP and SQS (ADR-021; money.go, Parse and String).
CanonicalForm ==
  /\ input.of = "words" /\ input.a # MinInt => Parse(Format(input.a)) = Amount(input.a)
  /\ input.of = "text" =>
       LET amount == Parse(input.text) IN
       amount.error = "none" => Format(amount.minor) = input.text

\* Every call of the API that a provider makes speaks of its own transactions
\* (wagering_handler.go; HttpEdge, AnswersItsOwn).
OwnTransactionsOnly == input.of = "call" => AnswersItsOwn(input.call)
=============================================================================

------------------------------- MODULE Money -------------------------------
(***************************************************************************)
(* Amounts of internal/domain/money: machine integers of minor units with  *)
(* two decimal places.  The word holds MinInt..MaxInt and arithmetic wraps *)
(* at its ends; Base stands for 10.  A text is a sequence of characters:   *)
(* digits, Minus, Dot, and Other for every other byte.                     *)
(***************************************************************************)
EXTENDS Integers, Sequences

CONSTANTS Base, MaxInt

ASSUME MoneyAssumption ==
  /\ Base \in Nat /\ Base > 1
  /\ MaxInt \in Nat /\ MaxInt >= Base * Base

MinInt == -MaxInt - 1
Words == MinInt..MaxInt
MinorPerUnit == Base * Base

Minus == -1
Dot   == -2
Other == -3
Digit == 0..(Base - 1)

\* The result of a computation that may fail: an amount or an error.
Errors == {"none", "INVALID_AMOUNT", "AMOUNT_OVERFLOW"}
Amount(m) == [error |-> "none", minor |-> m]
Overflow == [error |-> "AMOUNT_OVERFLOW", minor |-> 0]
Invalid  == [error |-> "INVALID_AMOUNT", minor |-> 0]
Then(result, Op(_)) == IF result.error = "none" THEN Op(result.minor) ELSE result

-----------------------------------------------------------------------------
(* Checked arithmetic.                                                     *)

Wrap(n) == ((n - MinInt) % (2 * (MaxInt + 1))) + MinInt
\* The machine's division by a positive number, which truncates.
Quotient(a, d) == IF a < 0 THEN -((-a) \div d) ELSE a \div d

Add(a, b) ==
  IF (b > 0 /\ a > Wrap(MaxInt - b)) \/ (b < 0 /\ a < Wrap(MinInt - b))
    THEN Overflow ELSE Amount(Wrap(a + b))
\* A difference as the sum with the negated amount: MinInt has no negation.
AddNegated(a, b) == Add(a, Wrap(-b))
Subtract(a, b) ==
  IF (b < 0 /\ a > Wrap(MaxInt + b)) \/ (b > 0 /\ a < Wrap(MinInt + b))
    THEN Overflow ELSE Amount(Wrap(a - b))
Multiply(a, factor) ==
  IF a = 0 THEN Amount(0)
  ELSE IF a > Quotient(MaxInt, factor) \/ a < Quotient(MinInt, factor)
    THEN Overflow ELSE Amount(Wrap(a * factor))
Negate(a) == IF a = MinInt THEN Overflow ELSE Amount(Wrap(-a))

-----------------------------------------------------------------------------
(* Texts.                                                                  *)

\* String: sign, units without leading zeros, two decimals.
Digits[n \in Nat] == IF n < Base THEN <<n>> ELSE Append(Digits[n \div Base], n % Base)
Format(m) ==
  LET quotient == Quotient(m, MinorPerUnit)
      remainder == m - quotient * MinorPerUnit
      sign == IF m < 0 THEN -1 ELSE 1 IN
  (IF m < 0 THEN <<Minus>> ELSE <<>>) \o Digits[sign * quotient] \o <<Dot>>
    \o (IF sign * remainder < Base THEN <<0>> ELSE <<>>) \o Digits[sign * remainder]

AreDigits(part) == \A k \in DOMAIN part : part[k] \in Digit
AnyUnits(part) == TRUE
NoLeadingZero(part) == Len(part) > 1 => part[1] # 0

\* digitsToMinorUnits: the units digit by digit, then the decimals.
DigitsToMinorUnits(units, decimals) ==
  LET Prefix[k \in 0..Len(units)] ==
        IF k = 0 THEN Amount(0)
        ELSE Then(Then(Prefix[k - 1], LAMBDA m : Multiply(m, Base)),
                  LAMBDA m : Add(m, units[k])) IN
  Then(Then(Prefix[Len(units)], LAMBDA m : Multiply(m, MinorPerUnit)),
       LAMBDA m : Add(m, decimals[1] * Base + decimals[2]))

\* parseMinorUnits: only the canonical form is accepted (ADR-021).
ParseBody(body) ==
  LET dots == {k \in DOMAIN body : body[k] = Dot}
      at == CHOOSE k \in dots : \A j \in dots : k <= j
      units == SubSeq(body, 1, at - 1)
      decimals == SubSeq(body, at + 1, Len(body)) IN
  IF /\ dots # {} /\ Len(decimals) = 2 /\ units # <<>>
     /\ NoLeadingZero(units) /\ AreDigits(units) /\ AreDigits(decimals)
    THEN DigitsToMinorUnits(units, decimals) ELSE Invalid
Parse(text) ==
  IF text = <<>> THEN Invalid
  ELSE IF text[1] # Minus THEN ParseBody(text)
  ELSE Then(ParseBody(Tail(text)), LAMBDA m : IF m = 0 THEN Invalid ELSE Amount(Wrap(-m)))

-----------------------------------------------------------------------------
(* Correctness.                                                            *)

\* Arithmetic over whole words gives the true result, or an overflow exactly
\* when the true result does not fit: no guard overflows itself, at either end
\* of the range (money.go, add, subtract, multiply, Negate).
Exact(result, truth) ==
  result = IF truth \in Words THEN Amount(truth) ELSE Overflow
ArithmeticIsExactFor(a, b) ==
  /\ Exact(Add(a, b), a + b) /\ Exact(Subtract(a, b), a - b)
  /\ \A factor \in {Base, MinorPerUnit} : Exact(Multiply(a, factor), a * factor)
  /\ Exact(Negate(a), -a)
ArithmeticIsExact == \A a, b \in Words : ArithmeticIsExactFor(a, b)
=============================================================================

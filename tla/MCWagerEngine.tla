--------------------------- MODULE MCWagerEngine ---------------------------
(***************************************************************************)
(* Small instances of WagerEngine: wallets, and the requests providers     *)
(* send in each run.                                                       *)
(***************************************************************************)
EXTENDS WagerRefinement, TLC

CONSTANTS w1, w2, ana, bia

MCHolder == [w \in Wallets |-> IF w = w1 THEN ana ELSE bia]
MCCurrencyOf == [w \in Wallets |-> "BRL"]
Perms == Permutations(Sessions) \cup Permutations(Consumers) \cup Permutations(Workers)

\* A request of w1's holder in w1's currency.
Req(ext, kind, amount, ref) ==
  [key |-> ext, ext |-> ext, wallet |-> w1, player |-> ana, currency |-> "BRL",
   round |-> "r1", kind |-> kind, amount |-> amount, ref |-> ref]

Bet    == Req("bet", "BET", 2, Nil)
Refund == Req("refund", "REFUND", 2, "bet")
Win    == Req("win", "WIN", 3, Nil)
Undo   == Req("undo", "ROLLBACK", 2, "bet")

InDollars == [Bet EXCEPT !.currency = "USD"]

\* Two reversals of one bet, and the bet without a currency and for a player who
\* does not hold the wallet, in any order.
ReversalRequests ==
  {Bet, Refund, Undo, [Bet EXCEPT !.currency = Nil], [Bet EXCEPT !.player = bia]}

\* A refund that may have to wait, the bet over HTTP and as a message, and the
\* bet in the wrong currency.
RefundRequests == {Bet, Refund, InDollars}
BetMessages == {[id |-> "m1", body |-> Bet]}

\* A refund that waits for its bet while a win fills the wallet.
OverflowRequests == {Bet, Refund, Win}
\* The same beside a refund whose bet never arrives.
StarvationRequests == OverflowRequests \cup {Req("lost", "REFUND", 1, "never")}

\* A bet sent in the wrong currency as well.
DollarRequests == {Bet, InDollars}

\* As messages, under three ids that are all used again with other content: one
\* key and one external id in two wallets, with a bet that may lack funds and a
\* win that may overflow; the bet a second time, and without a round; a loss with
\* that external id; and the rollback of what may be the win, the loss or the other
\* wallet's bet.
SmallBet == Req("a", "BET", 1, Nil)
\* The same request, sent for the other wallet.
Elsewhere(r) == [r EXCEPT !.wallet = w2, !.player = bia]
CrossMessages ==
  {[id |-> "m1", body |-> SmallBet],
   [id |-> "m1", body |-> [SmallBet EXCEPT !.round = Nil]],
   [id |-> "m2", body |-> Elsewhere(Req("a", "WIN", 2, Nil))],
   [id |-> "m2", body |-> [Elsewhere(Req("a", "LOSS", 0, Nil)) EXCEPT !.key = "b"]],
   [id |-> "m3", body |-> Elsewhere(Req("c", "ROLLBACK", 2, "a"))],
   [id |-> "m3", body |-> SmallBet]}
CrossRequests == {m.body : m \in CrossMessages}
=============================================================================

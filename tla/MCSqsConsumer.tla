---------------------------- MODULE MCSqsConsumer ----------------------------
(***************************************************************************)
(* Small instances of SqsConsumer.                                         *)
(***************************************************************************)
EXTENDS SqsConsumer, TLC

CONSTANTS bet, refund, junk, usd

\* A bet, its refund and a message that always fails for one wallet, an
\* envelope nobody can read for another.
MCGroupOf == [m \in Messages |-> IF m = junk THEN "w2" ELSE "w1"]
Perms == Permutations(Consumers)
=============================================================================

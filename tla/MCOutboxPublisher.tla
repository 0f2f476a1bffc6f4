------------------------- MODULE MCOutboxPublisher -------------------------
(***************************************************************************)
(* Small instances of OutboxPublisher.                                     *)
(***************************************************************************)
EXTENDS OutboxPublisher, TLC

Perms == Permutations(Events) \cup Permutations(Publishers)
=============================================================================

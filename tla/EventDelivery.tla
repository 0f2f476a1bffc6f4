---------------------------- MODULE EventDelivery ----------------------------
(***************************************************************************)
(* What the outbox promises about an integration event: it is delivered    *)
(* only after it is stored, confirmed only after it is delivered, and      *)
(* confirmed for good in the end.  It may be delivered more than once.     *)
(***************************************************************************)
CONSTANT Events

VARIABLES stored, delivered, confirmed

dvars == <<stored, delivered, confirmed>>

Init == stored = {} /\ delivered = {} /\ confirmed = {}

Store(e) ==
  /\ e \notin stored
  /\ stored' = stored \cup {e}
  /\ UNCHANGED <<delivered, confirmed>>

Deliver(e) ==
  /\ e \in stored
  /\ delivered' = delivered \cup {e}
  /\ UNCHANGED <<stored, confirmed>>

Confirm(e) ==
  /\ e \in delivered
  /\ confirmed' = confirmed \cup {e}
  /\ UNCHANGED <<stored, delivered>>

Next == \E e \in Events : Store(e) \/ Deliver(e) \/ Confirm(e)

Spec ==
  /\ Init /\ [][Next]_dvars
  /\ \A e \in Events : WF_dvars(Deliver(e)) /\ WF_dvars(Confirm(e))
=============================================================================

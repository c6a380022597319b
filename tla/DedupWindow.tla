----------------------------- MODULE DedupWindow -----------------------------
(***************************************************************************)
(* Clients submitting, closing and retrying order ids through one          *)
(* IdempotencyRouter, which may also be cleared.                           *)
(***************************************************************************)
EXTENDS IdempotencyRouter

CONSTANTS
  Ids,       \* client order ids
  MaxClosed  \* bound: ids closed between two clears

ASSUME MaxClosedAssumption == MaxClosed \in Nat

VARIABLES
  router,  \* the IdempotencyRouter
  closed   \* history: every id closed since the last clear, oldest first

dedupVars == <<router, closed>>

DedupInit ==
  /\ router = EmptyRouter
  /\ closed = <<>>

RegisterOrder(id) ==
  /\ ~IsDuplicate(router, id)
  /\ router' = Register(router, id)
  /\ UNCHANGED closed

(* The call returns the order when the id was active and None otherwise.   *)
DeregisterOrder(id) ==
  /\ Len(closed) < MaxClosed
  /\ router' = Deregister(router, id)
  /\ closed' = IF id \in router.active THEN Append(closed, id) ELSE closed

Clear ==
  /\ router' = EmptyRouter
  /\ closed' = <<>>

DedupNext ==
  \/ \E id \in Ids : RegisterOrder(id) \/ DeregisterOrder(id)
  \/ Clear

DedupSpec == DedupInit /\ [][DedupNext]_dedupVars

-----------------------------------------------------------------------------
DedupTypeOK ==
  /\ router \in [active : SUBSET Ids, ring : Seq(Ids), hist : SUBSET Ids]
  /\ closed \in Seq(Ids)

(* The ring and the set stay two views of one bounded window: same ids, no *)
(* id twice, never more than the capacity, never an id that is in flight.  *)
RingMirrorsSet ==
  /\ Len(router.ring) <= Capacity
  /\ router.hist = {router.ring[k] : k \in 1..Len(router.ring)}
  /\ \A j, k \in 1..Len(router.ring) : router.ring[j] = router.ring[k] => j = k
  /\ router.active \cap router.hist = {}

(* The last n ids closed.                                                  *)
LastClosed(n) == {closed[k] : k \in {j \in 1..Len(closed) : j > Len(closed) - n}}

(* INV-GW-002: an id is refused while it is in flight and until Capacity   *)
(* other ids have been closed after it; not a moment less, not longer.     *)
WindowExact ==
  \A id \in Ids :
    IsDuplicate(router, id) <=> id \in router.active \cup LastClosed(Capacity)

(* The duplicate window is one window kept twice, and exactly as long as   *)
(* its capacity.                                                           *)
WindowSound ==
  /\ DedupTypeOK
  /\ RingMirrorsSet
  /\ WindowExact
=============================================================================

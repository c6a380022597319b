-------------------------- MODULE IdempotencyRouter --------------------------
(***************************************************************************)
(* The duplicate filter of execution/idempotency.py, as operators on a     *)
(* router record:                                                          *)
(*   active  the client order ids in flight (the keys of _active_orders)   *)
(*   ring    the closed ids, oldest first, at most Capacity (_history_ring)*)
(*   hist    the same ids as a set, for O(1) lookup (_history_set)         *)
(* Nothing else forgets an id: ttl_seconds is stored and never read.       *)
(***************************************************************************)
EXTENDS Naturals, Sequences

CONSTANT Capacity  \* history_capacity

ASSUME CapacityAssumption == Capacity \in Nat \ {0}

EmptyRouter == [active |-> {}, ring |-> <<>>, hist |-> {}]

(* Faulty variant: only the orders in flight are looked at.                *)
IsDuplicateActiveOnly(rt, id) == id \in rt.active

(* register_order raises exactly on a duplicate.                           *)
IsDuplicate(rt, id) == id \in rt.active \/ id \in rt.hist

Register(rt, id) == [rt EXCEPT !.active = @ \cup {id}]

(* Faulty variant: the newest id is evicted instead of the oldest.         *)
DeregisterNewest(rt, id) ==
  IF id \notin rt.active THEN rt
  ELSE LET full == Len(rt.ring) >= Capacity
           kept == IF full THEN SubSeq(rt.ring, 1, Len(rt.ring) - 1) ELSE rt.ring
       IN  [active |-> rt.active \ {id},
            ring   |-> Append(kept, id),
            hist   |-> (IF full THEN rt.hist \ {rt.ring[Len(rt.ring)]} ELSE rt.hist) \cup {id}]

(* deregister_order: an id that is not active is ignored; otherwise it     *)
(* moves to the ring, which first evicts its oldest id when full.          *)
Deregister(rt, id) ==
  IF id \notin rt.active THEN rt
  ELSE LET full == Len(rt.ring) >= Capacity
       IN  [active |-> rt.active \ {id},
            ring   |-> Append(IF full THEN Tail(rt.ring) ELSE rt.ring, id),
            hist   |-> (IF full THEN rt.hist \ {Head(rt.ring)} ELSE rt.hist) \cup {id}]
=============================================================================

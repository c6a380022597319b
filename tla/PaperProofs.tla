------------------------------ MODULE PaperProofs ------------------------------
(***************************************************************************)
(* Proofs about the books of paper trading: the gateway's account, and the *)
(* ledger service with its tax lots.                                       *)
(*                                                                         *)
(* PaperGateway: for any attempts, ids, prices, fees and capacity of the   *)
(* router's ring, and any interleaving of submissions, cancels, ticks and  *)
(* connections. An order is Bare (no execution) or Done (filled as a       *)
(* whole, at one price); a submission Lands, resting orders are Ended by a *)
(* cancel or a tick, and these two kinds of step carry every invariant.    *)
(* The account is a sum over the filled orders, so each fill adds its term *)
(* (SumTheorems).                                                          *)
(*                                                                         *)
(* LedgerService: a fill takes from the lots in their order (Greedy,       *)
(* InTurn), keeps them one-sided and books what their cost changes by      *)
(* (FillEntered). Until it commits, the rows Follow the lots: they agree   *)
(* once its notes are written. LedgerInvariant carries that through every  *)
(* call, failure, reload and restart.                                      *)
(***************************************************************************)
EXTENDS PaperGateway, LedgerService, SumTheorems, SequenceTheorems, TLAPS

Routers == [active : SUBSET Ids, ring : Seq(Ids), hist : SUBSET Ids]

(* A router that has forgotten nothing, and will not: the ring holds the   *)
(* closed ids once each.                                                   *)
Keeps(rt) == rt.active \cap rt.hist = {} /\ Cardinality(rt.hist) = Len(rt.ring)

Remembered(rt) == rt.active \cup rt.hist

(* There are finitely many ids, the attempts being finitely many.          *)
LEMMA IdsFinite == IsFiniteSet(Ids)
<1>1. IsFiniteSet(Attempts)
  BY AttemptsAssumption
<1>2. [a \in Attempts |-> Id(a)] \in Surjection(Attempts, Ids)
  BY DEF Ids, Surjection
<1> QED BY <1>1, <1>2, FS_Surjection

(* Closing an id (IdempotencyRouter.deregister) leaves a router whose      *)
(* active ids lack that one.                                               *)
LEMMA DeregisterTyped ==
  ASSUME NEW rt \in Routers, NEW id \in Ids
  PROVE  Deregister(rt, id) \in Routers /\ Deregister(rt, id).active = rt.active \ {id}
<1>1. CASE id \notin rt.active
  BY <1>1 DEF Deregister, Routers
<1>2. CASE id \in rt.active
  <2> DEFINE kept == IF Len(rt.ring) >= Capacity THEN Tail(rt.ring) ELSE rt.ring
             held == IF Len(rt.ring) >= Capacity THEN rt.hist \ {Head(rt.ring)} ELSE rt.hist
  <2>1. rt.ring \in Seq(Ids) /\ rt.hist \subseteq Ids /\ rt.active \subseteq Ids
    BY DEF Routers
  <2>2. kept \in Seq(Ids) /\ held \subseteq Ids
    <3>1. CASE Len(rt.ring) >= Capacity
      <4>1. rt.ring # <<>>
        BY <3>1, <2>1, CapacityAssumption
      <4>2. Tail(rt.ring) \in Seq(Ids)
        BY <4>1, <2>1
      <4> QED BY <3>1, <2>1, <4>2
    <3>2. CASE ~(Len(rt.ring) >= Capacity)
      BY <3>2, <2>1
    <3> QED BY <3>1, <3>2
  <2>3. Deregister(rt, id) = [active |-> rt.active \ {id}, ring |-> Append(kept, id),
                              hist |-> held \cup {id}]
    BY <1>2 DEF Deregister
  <2> HIDE DEF kept, held
  <2>4. Append(kept, id) \in Seq(Ids)
    BY <2>2
  <2> QED BY <2>1, <2>2, <2>3, <2>4 DEF Routers
<1> QED BY <1>1, <1>2

(* Closing an id evicts nothing while the ids fit into the ring.           *)
LEMMA DeregisterKeeps ==
  ASSUME NEW rt \in Routers, NEW id \in Ids, Cardinality(Ids) <= Capacity, Keeps(rt)
  PROVE  Keeps(Deregister(rt, id)) /\ Remembered(Deregister(rt, id)) = Remembered(rt)
<1>1. CASE id \notin rt.active
  BY <1>1 DEF Deregister
<1>2. CASE id \in rt.active
  <2>1. rt.hist \subseteq Ids \ {id} /\ rt.ring \in Seq(Ids)
    BY <1>2 DEF Routers, Keeps
  <2>2. /\ Cardinality(rt.hist) <= Cardinality(Ids \ {id})
        /\ Cardinality(Ids \ {id}) = Cardinality(Ids) - 1
        /\ Cardinality(Ids) \in Nat /\ IsFiniteSet(rt.hist)
        /\ Cardinality(rt.hist) \in Nat
        /\ Cardinality(rt.hist \cup {id}) = Cardinality(rt.hist) + 1
    <3>1. IsFiniteSet(Ids) /\ IsFiniteSet(Ids \ {id}) /\ IsFiniteSet(rt.hist)
      BY <2>1, IdsFinite, FS_Subset
    <3>2. Cardinality(rt.hist) <= Cardinality(Ids \ {id})
      BY <3>1, <2>1, FS_Subset
    <3>3. Cardinality(Ids) \in Nat /\ Cardinality(rt.hist) \in Nat
      BY <3>1, FS_CardinalityType
    <3>4. Cardinality(Ids \ {id}) = Cardinality(Ids) - 1
      BY <3>1, FS_RemoveElement
    <3>5. Cardinality(rt.hist \cup {id}) = Cardinality(rt.hist) + 1
      BY <3>1, <2>1, FS_AddElement
    <3> QED BY <3>1, <3>2, <3>3, <3>4, <3>5
  <2>3. Len(rt.ring) < Capacity
    BY <2>2, CapacityAssumption DEF Keeps
  <2>4. Deregister(rt, id) = [active |-> rt.active \ {id}, ring |-> Append(rt.ring, id),
                              hist |-> rt.hist \cup {id}]
    <3>1. ~ (Len(rt.ring) >= Capacity)
      BY <2>1, <2>3, CapacityAssumption
    <3> QED BY <1>2, <3>1 DEF Deregister
  <2>5. Len(Append(rt.ring, id)) = Len(rt.ring) + 1
    BY <2>1
  <2>6. (rt.active \ {id}) \cap (rt.hist \cup {id}) = {}
    BY DEF Keeps
  <2>7. (rt.active \ {id}) \cup (rt.hist \cup {id}) = Remembered(rt)
    BY <1>2 DEF Remembered
  <2> QED BY <2>2, <2>4, <2>5, <2>6, <2>7 DEF Keeps, Remembered
<1> QED BY <1>1, <1>2

(* Opening an id (IdempotencyRouter.register) leaves a router with that id *)
(* active and the same history.                                            *)
LEMMA RegisterTyped ==
  ASSUME NEW rt \in Routers, NEW id \in Ids
  PROVE  Register(rt, id) \in Routers /\ Register(rt, id).active = rt.active \cup {id}
         /\ Register(rt, id).hist = rt.hist
BY DEF Register, Routers

(* Opening an id that is no duplicate forgets nothing and remembers it.    *)
LEMMA RegisterKeeps ==
  ASSUME NEW rt \in Routers, NEW id \in Ids, Keeps(rt), ~IsDuplicate(rt, id)
  PROVE  Keeps(Register(rt, id)) /\ Remembered(Register(rt, id)) = Remembered(rt) \cup {id}
BY DEF Register, Routers, Keeps, Remembered, IsDuplicate

-----------------------------------------------------------------------------
TickRouter(rt, reg, m) ==
  FoldLeft(LAMBDA r, a : IF a \in m THEN Deregister(r, Id(a)) ELSE r, rt, reg)

Ticked(g, rt, reg, m) ==
  g = [s \in SUBSET (DOMAIN reg) |->
         IF s = {} THEN rt
         ELSE IF reg[Max(s)] \in m THEN Deregister(g[s \ {Max(s)}], Id(reg[Max(s)]))
         ELSE g[s \ {Max(s)}]]

(* The fold that closes the ids of a tick, written as its table.           *)
LEMMA TickByDef ==
  ASSUME NEW rt, NEW reg, NEW m
  PROVE  TickRouter(rt, reg, m) = (CHOOSE g : Ticked(g, rt, reg, m))[DOMAIN reg]
BY DEF TickRouter, FoldLeft, MapThenFoldSet, Ticked

(* The table of that fold exists, so the fold has the value the table      *)
(* gives.                                                                  *)
LEMMA TickTable ==
  ASSUME NEW rt \in Routers, NEW reg \in Seq(Attempts), NEW m
  PROVE  \E g : Ticked(g, rt, reg, m) /\ TickRouter(rt, reg, m) = g[DOMAIN reg]
<1> DEFINE n == Len(reg)
           S == DOMAIN reg
           step == [t \in S \X Routers |->
                      IF reg[t[1]] \in m THEN Deregister(t[2], Id(reg[t[1]])) ELSE t[2]]
           pick == [s \in SUBSET S |-> Max(s)]
<1>1. n \in Nat /\ S = 1..n /\ IsFiniteSet(S)
  BY FS_Interval
<1>2. \A k \in S : reg[k] \in Attempts /\ Id(reg[k]) \in Ids
  BY DEF Ids
<1>3. \A s \in SUBSET S : pick[s] = Max(s) /\ (s # {} => pick[s] \in s)
  BY <1>1, GreatestOf
<1>4. \A k \in S, r \in Routers :
        step[<<k, r>>] = IF reg[k] \in m THEN Deregister(r, Id(reg[k])) ELSE r
  OBVIOUS
<1>5. Leads(step, S, Routers)
  <2> SUFFICES ASSUME NEW k \in S, NEW r \in Routers PROVE step[<<k, r>>] \in Routers
    BY DEF Leads
  <2>1. Deregister(r, Id(reg[k])) \in Routers
    BY <1>2, DeregisterTyped
  <2> HIDE DEF step
  <2> QED BY <2>1, <1>4
<1> HIDE DEF step, pick, n, S
<1>6. PICK g : Tabulates(g, rt, step, pick, SUBSET S)
  BY <1>1, <1>3, TableExists
<1>7. \A s \in SUBSET S : g[s] \in Routers
  <2>1. \A s \in SUBSET S : s # {} => pick[s] \in s
    BY <1>3
  <2> HIDE <1>3, <1>4
  <2> QED BY <2>1, <1>1, <1>5, <1>6, TableTyped
<1>8. ASSUME NEW s \in SUBSET S
      PROVE  g[s] = IF s = {} THEN rt
                    ELSE IF reg[Max(s)] \in m THEN Deregister(g[s \ {Max(s)}], Id(reg[Max(s)]))
                    ELSE g[s \ {Max(s)}]
  <2>1. g[s] = IF s = {} THEN rt ELSE step[<<Max(s), g[s \ {Max(s)}]>>]
    BY <1>3, <1>6 DEF Tabulates
  <2>2. s # {} => Max(s) \in S /\ g[s \ {Max(s)}] \in Routers
    BY <1>3, <1>7
  <2> QED BY <2>1, <2>2, <1>4
<1>9. Ticked(g, rt, reg, m)
  <2>1. g = [s \in SUBSET S |-> g[s]]
    BY <1>6 DEF Tabulates
  <2> QED BY <2>1, <1>8 DEF Ticked, S
<1>10. Ticked(CHOOSE h : Ticked(h, rt, reg, m), rt, reg, m)
  BY <1>9
<1> QED BY <1>10, TickByDef

(* The ids of the first k registered orders that the tick matches.         *)
Closed(reg, m, k) == {Id(reg[j]) : j \in {i \in 1..k : reg[i] \in m}}

(* What a tick leaves of the router: the ids of the orders it matched are  *)
(* no longer active, and none is forgotten when all ids fit into the ring. *)
LEMMA TickEffect ==
  ASSUME NEW rt \in Routers, NEW reg \in Seq(Attempts), NEW m
  PROVE  /\ TickRouter(rt, reg, m) \in Routers
         /\ TickRouter(rt, reg, m).active = rt.active \ Closed(reg, m, Len(reg))
         /\ Cardinality(Ids) <= Capacity /\ Keeps(rt)
              => /\ Keeps(TickRouter(rt, reg, m))
                 /\ Remembered(TickRouter(rt, reg, m)) = Remembered(rt)
<1> DEFINE n == Len(reg)
           Fits == Cardinality(Ids) <= Capacity /\ Keeps(rt)
           Right(r, k) == /\ r \in Routers /\ r.active = rt.active \ Closed(reg, m, k)
                          /\ Fits => Keeps(r) /\ Remembered(r) = Remembered(rt)
<1>1. n \in Nat /\ DOMAIN reg = 1..n /\ \A k \in 1..n : reg[k] \in Attempts /\ Id(reg[k]) \in Ids
  BY DEF Ids
<1>2. PICK g : Ticked(g, rt, reg, m) /\ TickRouter(rt, reg, m) = g[DOMAIN reg]
  BY TickTable
<1> DEFINE Good == {k \in Nat : k <= n => Right(g[1..k], k)}
<1>3. 0 \in Good
  <2>1. 1..0 = {} /\ {} \in SUBSET (DOMAIN reg)
    OBVIOUS
  <2>2. g[1..0] = rt
    BY <1>2, <2>1 DEF Ticked
  <2>3. Closed(reg, m, 0) = {}
    BY DEF Closed
  <2>4. Right(rt, 0)
    BY <2>3
  <2> HIDE DEF Right
  <2> QED BY <2>2, <2>4
<1>4. ASSUME NEW k \in Nat, k \in Good PROVE k + 1 \in Good
  <2> SUFFICES ASSUME k + 1 <= n PROVE Right(g[1..(k + 1)], k + 1)
    OBVIOUS
  <2> DEFINE r == g[1..k]
             a == reg[k + 1]
  <2>1. Right(r, k)
    BY <1>1, <1>4
  <2>2. Max(1..(k + 1)) = k + 1 /\ (1..(k + 1)) \ {k + 1} = 1..k
    <3> HIDE DEF Good
    <3>1. k + 1 \in Nat /\ k + 1 \in 1..(k + 1) /\ 1..(k + 1) \in SUBSET (1..(k + 1))
      OBVIOUS
    <3>2. Max(1..(k + 1)) \in 1..(k + 1) /\ k + 1 <= Max(1..(k + 1))
      BY <3>1, GreatestOf
    <3>3. (1..(k + 1)) \ {k + 1} = 1..k
      OBVIOUS
    <3> QED BY <3>1, <3>2, <3>3
  <2>3. 1..(k + 1) \in SUBSET (DOMAIN reg) /\ 1..(k + 1) # {}
    <3>1. 1..(k + 1) \subseteq 1..n /\ 1 \in 1..(k + 1)
      BY <1>1
    <3> QED BY <3>1, <1>1
  <2>4. g[1..(k + 1)] = IF a \in m THEN Deregister(r, Id(a)) ELSE r
    BY <1>2, <2>2, <2>3 DEF Ticked
  <2>5. Closed(reg, m, k + 1) = IF a \in m THEN Closed(reg, m, k) \cup {Id(a)} ELSE Closed(reg, m, k)
    <3>1. CASE a \in m
      <4>1. {i \in 1..(k + 1) : reg[i] \in m} = {i \in 1..k : reg[i] \in m} \cup {k + 1}
        BY <3>1
      <4> QED BY <3>1, <4>1 DEF Closed
    <3>2. CASE a \notin m
      <4>1. {i \in 1..(k + 1) : reg[i] \in m} = {i \in 1..k : reg[i] \in m}
        BY <3>2
      <4> QED BY <3>2, <4>1 DEF Closed
    <3> QED BY <3>1, <3>2
  <2>6. a \in Attempts /\ Id(a) \in Ids
    BY <1>1
  <2> HIDE DEF r, a
  <2>7. Right(IF a \in m THEN Deregister(r, Id(a)) ELSE r, k + 1)
    <3>1. CASE a \in m
      <4>1. Deregister(r, Id(a)) \in Routers /\ Deregister(r, Id(a)).active = r.active \ {Id(a)}
        BY <2>1, <2>6, DeregisterTyped
      <4>2. Fits => Keeps(Deregister(r, Id(a))) /\ Remembered(Deregister(r, Id(a))) = Remembered(r)
        BY <2>1, <2>6, DeregisterKeeps
      <4> QED BY <2>1, <2>5, <3>1, <4>1, <4>2
    <3>2. CASE a \notin m
      BY <2>1, <2>5, <3>2
    <3> QED BY <3>1, <3>2
  <2> HIDE DEF Right
  <2> QED BY <2>4, <2>7
<1>5. Nat \subseteq Good
  <2> HIDE DEF Good
  <2> QED BY <1>3, <1>4, SetInduction
<1>6. Right(g[1..n], n)
  BY <1>1, <1>5
<1> QED BY <1>1, <1>2, <1>6

-----------------------------------------------------------------------------
InReg(reg, a) == \E k \in DOMAIN reg : reg[k] = a

OnePerId(reg) == \A j, k \in DOMAIN reg : Id(reg[j]) = Id(reg[k]) => j = k

(* Registering an order replaces the one with its id: the registry (a dict *)
(* keyed by cl_ord_id) stays one order to an id.                           *)
LEMMA StoreEffect ==
  ASSUME NEW reg \in Seq(Attempts), OnePerId(reg), NEW a \in Attempts
  PROVE  /\ Store(reg, a) \in Seq(Attempts) /\ OnePerId(Store(reg, a))
         /\ \A b : InReg(Store(reg, a), b) <=> b = a \/ (InReg(reg, b) /\ Id(b) # Id(a))
<1>1. CASE \E k \in DOMAIN reg : Id(reg[k]) = Id(a)
  <2>1. PICK k \in DOMAIN reg : Id(reg[k]) = Id(a)
    BY <1>1
  <2>2. Store(reg, a) = [j \in DOMAIN reg |-> IF Id(reg[j]) = Id(a) THEN a ELSE reg[j]]
    BY <1>1 DEF Store
  <2>3. Store(reg, a) \in Seq(Attempts) /\ DOMAIN Store(reg, a) = DOMAIN reg
    <3>1. DOMAIN reg = 1..Len(reg) /\ Len(reg) \in Nat /\ \A j \in DOMAIN reg : reg[j] \in Attempts
      OBVIOUS
    <3>2. Store(reg, a) \in [1..Len(reg) -> Attempts]
      BY <2>2, <3>1
    <3> QED BY <3>1, <3>2
  <2>4. \A j \in DOMAIN reg : (Id(reg[j]) = Id(a)) <=> (j = k)
    BY <2>1 DEF OnePerId
  <2>5. \A j \in DOMAIN reg : Store(reg, a)[j] = IF j = k THEN a ELSE reg[j]
    BY <2>2, <2>4
  <2> DEFINE new == Store(reg, a)
  <2> HIDE DEF new
  <2>6. \A j \in DOMAIN reg : Id(new[j]) = Id(reg[j])
    BY <2>1, <2>5 DEF new
  <2>7. OnePerId(new)
    BY <2>3, <2>6 DEF OnePerId, new
  <2>8. ASSUME NEW b PROVE InReg(new, b) <=> b = a \/ (InReg(reg, b) /\ Id(b) # Id(a))
    <3>1. InReg(new, b) => b = a \/ (InReg(reg, b) /\ Id(b) # Id(a))
      BY <2>3, <2>4, <2>5 DEF InReg, new
    <3>2. new[k] = a
      BY <2>1, <2>5 DEF new
    <3>3. InReg(reg, b) /\ Id(b) # Id(a) => InReg(new, b)
      BY <2>3, <2>4, <2>5 DEF InReg, new
    <3> QED BY <2>1, <2>3, <3>1, <3>2, <3>3 DEF InReg, new
  <2> QED BY <2>3, <2>7, <2>8 DEF new
<1>2. CASE ~ \E k \in DOMAIN reg : Id(reg[k]) = Id(a)
  <2>1. Store(reg, a) = Append(reg, a)
    BY <1>2 DEF Store
  <2>2. /\ Append(reg, a) \in Seq(Attempts) /\ DOMAIN Append(reg, a) = 1..(Len(reg) + 1)
        /\ Append(reg, a)[Len(reg) + 1] = a /\ Len(reg) \in Nat /\ DOMAIN reg = 1..Len(reg)
        /\ \A j \in DOMAIN reg : Append(reg, a)[j] = reg[j]
    OBVIOUS
  <2> DEFINE new == Append(reg, a)
  <2> HIDE DEF new
  <2>3. OnePerId(new)
    BY <1>2, <2>2 DEF OnePerId, new
  <2>4. ASSUME NEW b PROVE InReg(new, b) <=> b = a \/ InReg(reg, b)
    <3>1. InReg(new, b) => b = a \/ InReg(reg, b)
      BY <2>2 DEF InReg, new
    <3>2. InReg(reg, b) => InReg(new, b)
      BY <2>2 DEF InReg, new
    <3>3. InReg(new, a)
      BY <2>2 DEF InReg, new
    <3> QED BY <3>1, <3>2, <3>3
  <2>5. \A b : InReg(reg, b) => Id(b) # Id(a)
    BY <1>2 DEF InReg
  <2>6. new \in Seq(Attempts)
    BY <2>2 DEF new
  <2>7. \A b : InReg(new, b) <=> b = a \/ (InReg(reg, b) /\ Id(b) # Id(a))
    BY <2>4, <2>5
  <2> QED BY <2>1, <2>3, <2>6, <2>7 DEF new
<1> QED BY <1>1, <1>2

(* What is left of a sequence without its k-th element.                    *)
LEMMA RemoveAtEffect ==
  ASSUME NEW S, NEW s \in Seq(S), NEW k \in 1..Len(s)
  PROVE  /\ RemoveAt(s, k) \in Seq(S) /\ Len(RemoveAt(s, k)) = Len(s) - 1
         /\ \A j \in 1..(Len(s) - 1) : RemoveAt(s, k)[j] = s[IF j < k THEN j ELSE j + 1]
<1> DEFINE front == SubSeq(s, 1, k - 1)
           back == SubSeq(s, k + 1, Len(s))
           n == Len(s)
<1>1. n \in Nat /\ k \in Int /\ 1 <= k /\ k <= n /\ DOMAIN s = 1..n
  OBVIOUS
<1>2. /\ front \in Seq(S) /\ Len(front) = k - 1
      /\ \A j \in 1..(k - 1) : front[j] = s[j]
  OBVIOUS
<1>3. /\ back \in Seq(S) /\ Len(back) = n - k
      /\ \A j \in 1..(n - k) : back[j] = s[j + k]
  <2>1. \A j \in (k + 1)..n : s[j] \in S
    BY <1>1
  <2>2. k + 1 \in Int /\ n \in Int
    BY <1>1
  <2>3. /\ back \in Seq(S)
        /\ Len(back) = IF k + 1 <= n THEN n - (k + 1) + 1 ELSE 0
        /\ \A j \in 1..(n - (k + 1) + 1) : back[j] = s[(k + 1) + j - 1]
    BY <2>1, <2>2, SubSeqProperties
  <2> HIDE DEF back, n
  <2>4. n - (k + 1) + 1 = n - k /\ \A j \in Int : (k + 1) + j - 1 = j + k
    BY <1>1
  <2>5. Len(back) = n - k
    BY <2>3, <1>1
  <2>6. \A j \in 1..(n - k) : back[j] = s[j + k]
    BY <2>3, <2>4
  <2> QED BY <2>3, <2>5, <2>6
<1>4. RemoveAt(s, k) = front \o back
  BY DEF RemoveAt
<1> HIDE DEF front, back, n
<1>5. /\ front \o back \in Seq(S) /\ Len(front \o back) = Len(front) + Len(back)
      /\ \A i \in 1..(Len(front) + Len(back)) :
           (front \o back)[i] = IF i <= Len(front) THEN front[i] ELSE back[i - Len(front)]
  BY <1>2, <1>3, ConcatProperties
<1>6. Len(front) + Len(back) = n - 1
  BY <1>1, <1>2, <1>3
<1>7. ASSUME NEW i \in 1..(n - 1)
      PROVE  (front \o back)[i] = s[IF i < k THEN i ELSE i + 1]
  <2>1. CASE i < k
    <3>1. i \in 1..(k - 1) /\ i <= Len(front)
      BY <2>1, <1>1, <1>2
    <3> QED BY <2>1, <3>1, <1>2, <1>5, <1>6
  <2>2. CASE ~ (i < k)
    <3>1. i - (k - 1) \in 1..(n - k) /\ (i - (k - 1)) + k = i + 1 /\ ~ (i <= Len(front))
      BY <2>2, <1>1, <1>2
    <3>2. back[i - (k - 1)] = s[i + 1]
      BY <1>3, <3>1
    <3> QED BY <2>2, <3>1, <3>2, <1>2, <1>5, <1>6
  <2> QED BY <2>1, <2>2
<1> QED BY <1>4, <1>5, <1>6, <1>7 DEF n

(* Dropping an id from the registry drops the order with that id and no    *)
(* other.                                                                  *)
LEMMA PopEffect ==
  ASSUME NEW reg \in Seq(Attempts), OnePerId(reg), NEW id
  PROVE  /\ Pop(reg, id) \in Seq(Attempts) /\ OnePerId(Pop(reg, id))
         /\ \A b : InReg(Pop(reg, id), b) <=> InReg(reg, b) /\ Id(b) # id
<1>1. CASE \E k \in DOMAIN reg : Id(reg[k]) = id
  <2> DEFINE k == CHOOSE j \in DOMAIN reg : Id(reg[j]) = id
             new == Pop(reg, id)
             Old(j) == IF j < k THEN j ELSE j + 1
  <2>1. k \in DOMAIN reg /\ Id(reg[k]) = id
    BY <1>1
  <2>2. new = RemoveAt(reg, k)
    BY <1>1 DEF Pop
  <2> HIDE DEF k, new
  <2>3. Len(reg) \in Nat /\ DOMAIN reg = 1..Len(reg) /\ k \in 1..Len(reg)
    <3>1. reg \in Seq(Attempts)
      OBVIOUS
    <3>2. Len(reg) \in Nat /\ DOMAIN reg = 1..Len(reg)
      BY <3>1, LenProperties
    <3> QED BY <2>1, <3>2
  <2>6. /\ new \in Seq(Attempts) /\ Len(new) = Len(reg) - 1
        /\ \A j \in 1..(Len(reg) - 1) : new[j] = reg[Old(j)]
    BY Zenon, <2>2, <2>3, RemoveAtEffect
  <2>7. DOMAIN new = 1..(Len(reg) - 1)
    BY <2>6
  <2>8. \A j \in DOMAIN new : Old(j) \in DOMAIN reg /\ Old(j) # k
    BY <2>3, <2>7
  <2>9. \A i \in DOMAIN reg : i # k => \E j \in DOMAIN new : Old(j) = i
    <3> SUFFICES ASSUME NEW i \in DOMAIN reg, i # k PROVE \E j \in DOMAIN new : Old(j) = i
      OBVIOUS
    <3>1. CASE i < k
      BY <3>1, <2>3, <2>7
    <3>2. CASE i > k
      <4>1. i - 1 \in DOMAIN new /\ Old(i - 1) = i
        BY <3>2, <2>3, <2>7
      <4> QED BY <4>1
    <3> QED BY <3>1, <3>2, <2>3
  <2>10. \A i, j \in DOMAIN new : Old(i) = Old(j) => i = j
    BY <2>3, <2>7
  <2>11. \A j \in DOMAIN new : new[j] = reg[Old(j)]
    BY <2>6, <2>7
  <2> HIDE DEF Old
  <2>12. \A i \in DOMAIN reg : (Id(reg[i]) = id) <=> (i = k)
    BY <2>1 DEF OnePerId
  <2>13. OnePerId(new)
    BY <2>8, <2>10, <2>11 DEF OnePerId
  <2>14. \A b : InReg(new, b) <=> InReg(reg, b) /\ Id(b) # id
    BY <2>8, <2>9, <2>11, <2>12 DEF InReg
  <2> QED BY <2>6, <2>13, <2>14 DEF new
<1>2. CASE ~ \E k \in DOMAIN reg : Id(reg[k]) = id
  BY <1>2 DEF Pop, InReg
<1> QED BY <1>1, <1>2

(* An order of attempt a as the gateway leaves it: untouched, acknowledged *)
(* or cancelled without a fill, or filled completely at the price p.       *)
Made(a, state, filled, quote, fees) ==
  [clOrdId |-> Id(a), state |-> state, quantity |-> OrderOf[a].quantity,
   filled |-> filled, quote |-> quote, fees |-> fees]

Bare(a, state) == Made(a, state, 0, 0, 0)

Done(a, p) ==
  Made(a, "FILLED", OrderOf[a].quantity, p * OrderOf[a].quantity,
       (p * OrderOf[a].quantity) * FeeBps)

WithinLimit(a, p) ==
  ~IsMarket(a) => IF IsBuy(a) THEN p <= Limit(a) ELSE p >= Limit(a)

IsBare(o, a)   == \E s \in {"PENDING_NEW", "NEW", "CANCELLED"} : o = Bare(a, s)
IsFilled(o, a) == \E p \in Nat : WithinLimit(a, p) /\ o = Done(a, p)

(* What the assumption on the attempts says of one of them.                *)
LEMMA QuantityPositive ==
  ASSUME NEW a \in Attempts
  PROVE  OrderOf[a].quantity \in Nat \ {0} /\ Id(a) \in Ids /\ OrderOf[a].symbol \in Symbols
BY AttemptsAssumption DEF Ids

Overwrite(a, s, c, q, f, s2, c2, q2, f2) ==
  [Made(a, s, c, q, f) EXCEPT !.filled = c2, !.quote = q2, !.fees = f2, !.state = s2]

(* Overwriting four fields, one by one.                                    *)
LEMMA Rewritten ==
  ASSUME NEW a, NEW s, NEW c, NEW q, NEW f, NEW s2, NEW c2, NEW q2, NEW f2
  PROVE  Overwrite(a, s, c, q, f, s2, c2, q2, f2) = Made(a, s2, c2, q2, f2)
<1>1. Overwrite(a, s, c, q, f, s2, c2, q2, f2)
        = [[[[Made(a, s, c, q, f) EXCEPT !.filled = c2] EXCEPT !.quote = q2]
              EXCEPT !.fees = f2] EXCEPT !.state = s2]
  BY DEF Overwrite
<1>2. [Made(a, s, c, q, f) EXCEPT !.filled = c2] = Made(a, s, c2, q, f)
  BY DEF Made
<1>3. [Made(a, s, c2, q, f) EXCEPT !.quote = q2] = Made(a, s, c2, q2, f)
  BY DEF Made
<1>4. [Made(a, s, c2, q2, f) EXCEPT !.fees = f2] = Made(a, s, c2, q2, f2)
  BY DEF Made
<1>5. [Made(a, s, c2, q2, f2) EXCEPT !.state = s2] = Made(a, s2, c2, q2, f2)
  BY DEF Made
<1> QED BY <1>1, <1>2, <1>3, <1>4, <1>5

(* Acknowledging a pending order changes its state alone.                  *)
LEMMA NewOf ==
  ASSUME NEW a \in Attempts PROVE Transition(Bare(a, "PENDING_NEW"), "NEW") = Bare(a, "NEW")
<1> DEFINE o == Bare(a, "PENDING_NEW")
<1>1. o.state = "PENDING_NEW" /\ [o EXCEPT !.state = "NEW"] = Bare(a, "NEW")
  BY DEF Bare, Made
<1>2. CanTransition("PENDING_NEW", "NEW")
  BY DEF CanTransition, ValidTransitions, OrderStates
<1> HIDE DEF o
<1>3. ~IsTerminal(o) /\ Acknowledged(o, "NEW") = o
  BY <1>1 DEF IsTerminal, TerminalStates, Acknowledged
<1>4. CanTransition(o.state, "NEW")
  BY <1>1, <1>2
<1>5. Transition(o, "NEW") = [o EXCEPT !.state = "NEW"]
  BY <1>3, <1>4 DEF Transition
<1>6. Transition(o, "NEW") = Bare(a, "NEW")
  BY <1>1, <1>5
<1> QED BY <1>6 DEF o

(* A cancel report on a resting order cancels it and books nothing.        *)
LEMMA CancelOf ==
  ASSUME NEW a \in Attempts
  PROVE  ApplyExecutionReport(Bare(a, "NEW"),
           [clOrdId |-> Id(a), execType |-> "CANCELLED", cum |-> 0, quote |-> 0, fee |-> 0])
         = Bare(a, "CANCELLED")
<1> DEFINE o == Bare(a, "NEW")
           r == [clOrdId |-> Id(a), execType |-> "CANCELLED", cum |-> 0, quote |-> 0, fee |-> 0]
<1>1. /\ o.state = "NEW" /\ o.clOrdId = Id(a) /\ o.filled = 0 /\ o.fees = 0
      /\ o.quantity \in Nat
  BY QuantityPositive DEF Bare, Made
<1>2. r.clOrdId = Id(a) /\ r.execType = "CANCELLED" /\ r.cum = 0 /\ r.quote = 0 /\ r.fee = 0
  OBVIOUS
<1>3. [o EXCEPT !.filled = 0, !.quote = 0, !.fees = 0, !.state = "CANCELLED"]
        = Bare(a, "CANCELLED")
  <2>1. Overwrite(a, "NEW", 0, 0, 0, "CANCELLED", 0, 0, 0) = Made(a, "CANCELLED", 0, 0, 0)
    BY Rewritten
  <2> QED BY <2>1, Zenon DEF Bare, Overwrite
<1> HIDE DEF o, r
<1>4. CanTransition("NEW", "CANCELLED")
  BY DEF CanTransition, ValidTransitions, OrderStates
<1>5. ReportAdmissible(o, r) /\ Acknowledged(o, "CANCELLED") = o
  BY <1>1, <1>2 DEF ReportAdmissible, IsTerminal, TerminalStates, Acknowledged
<1>6. CanTransition(o.state, r.execType) /\ Acknowledged(o, r.execType) = o
  BY <1>1, <1>2, <1>4, <1>5
<1>7. ApplyExecutionReport(o, r)
        = [o EXCEPT !.filled = r.cum, !.quote = r.quote, !.fees = o.fees + r.fee, !.state = r.execType]
  BY <1>5, <1>6 DEF ApplyExecutionReport
<1>8. ApplyExecutionReport(o, r) = Bare(a, "CANCELLED")
  BY <1>1, <1>2, <1>3, <1>7
<1> QED BY <1>8 DEF o, r

(* A fill report on a resting order books its whole quantity at the price, *)
(* with the fee.                                                           *)
LEMMA FillOf ==
  ASSUME NEW a \in Attempts, NEW p \in Nat
  PROVE  ApplyExecutionReport(Bare(a, "NEW"), FillReport(a, p)) = Done(a, p)
<1> DEFINE o == Bare(a, "NEW")
           q == OrderOf[a].quantity
           n == p * q
           f == n * FeeBps
           r == FillReport(a, p)
<1>0. n \in Nat /\ f \in Nat /\ q \in Nat
  BY QuantityPositive, RatesAssumption
<1>1. o.state = "NEW" /\ o.clOrdId = Id(a) /\ o.filled = 0 /\ o.fees = 0 /\ o.quantity = q
  BY DEF Bare, Made
<1>2. r.clOrdId = Id(a) /\ r.execType = "FILLED" /\ r.cum = q /\ r.quote = n /\ r.fee = f
  BY DEF FillReport
<1>a. Done(a, p) = Made(a, "FILLED", q, n, f)
  BY DEF Done
<1> HIDE DEF r, f, n, q
<1>3. [o EXCEPT !.filled = q, !.quote = n, !.fees = f, !.state = "FILLED"] = Done(a, p)
  <2>1. Overwrite(a, "NEW", 0, 0, 0, "FILLED", q, n, f) = Made(a, "FILLED", q, n, f)
    BY Rewritten
  <2> QED BY <1>a, <2>1, Zenon DEF Bare, Overwrite
<1> HIDE DEF o
<1>4. CanTransition("NEW", "FILLED")
  BY DEF CanTransition, ValidTransitions, OrderStates
<1>5. ReportAdmissible(o, r) /\ Acknowledged(o, "FILLED") = o
  BY <1>0, <1>1, <1>2 DEF ReportAdmissible, IsTerminal, TerminalStates, Acknowledged
<1>6. CanTransition(o.state, r.execType) /\ Acknowledged(o, r.execType) = o
  BY <1>1, <1>2, <1>4, <1>5
<1>7. ApplyExecutionReport(o, r)
        = [o EXCEPT !.filled = r.cum, !.quote = r.quote, !.fees = o.fees + r.fee, !.state = r.execType]
  BY <1>5, <1>6 DEF ApplyExecutionReport
<1>8. o.fees + r.fee = f
  BY <1>0, <1>1, <1>2
<1>9. ApplyExecutionReport(o, r) = Done(a, p)
  BY <1>2, <1>3, <1>7, <1>8
<1> QED BY <1>9 DEF o, r

(* What the shape of an order says about it.                               *)
LEMMA BareIs ==
  ASSUME NEW a, NEW s
  PROVE  /\ Bare(a, s).state = s /\ Bare(a, s).filled = 0 /\ Bare(a, s).quote = 0
         /\ Bare(a, s).fees = 0 /\ Bare(a, s).clOrdId = Id(a)
BY DEF Bare, Made

(* The fields of a filled order.                                           *)
LEMMA DoneIs ==
  ASSUME NEW a, NEW p
  PROVE  /\ Done(a, p).state = "FILLED" /\ Done(a, p).filled = OrderOf[a].quantity
         /\ Done(a, p).quote = p * OrderOf[a].quantity
         /\ Done(a, p).fees = (p * OrderOf[a].quantity) * FeeBps
BY DEF Done, Made

(* The price of an immediate fill is a price, and within the limit.        *)
LEMMA FillPriceFits ==
  ASSUME price \in [Symbols -> PaperPrices \cup {None}], NEW a \in Attempts, Market(a) # None
  PROVE  FillPrice(a) \in Nat /\ WithinLimit(a, FillPrice(a))
<1> DEFINE slipped == Market(a) * (IF IsBuy(a) THEN Unit + SlippageBps ELSE Unit - SlippageBps)
<1>1. Market(a) \in Nat
  BY RatesAssumption, QuantityPositive DEF Market
<1>2. (IF IsBuy(a) THEN Unit + SlippageBps ELSE Unit - SlippageBps) \in Nat
  BY RatesAssumption
<1>3. slipped \in Nat
  BY <1>1, <1>2
<1>4. ~IsMarket(a) => Limit(a) \in Nat
  <2>1. ~IsMarket(a) => OrderOf[a].price \in Nat
    BY AttemptsAssumption DEF IsMarket
  <2> QED BY <2>1, RatesAssumption DEF Limit
<1>5. FillPrice(a) = IF IsMarket(a) THEN slipped
                     ELSE IF IsBuy(a) THEN Min({Limit(a), slipped}) ELSE Max({Limit(a), slipped})
  BY DEF FillPrice
<1> HIDE DEF slipped
<1>6. ~IsMarket(a) => /\ Min({Limit(a), slipped}) = IF Limit(a) <= slipped THEN Limit(a) ELSE slipped
                      /\ Max({Limit(a), slipped}) = IF Limit(a) >= slipped THEN Limit(a) ELSE slipped
  BY <1>3, <1>4, SmallerOfTwo, LargerOfTwo
<1> QED BY <1>3, <1>4, <1>5, <1>6 DEF WithinLimit

(* A tick that crosses the limit fills within it.                          *)
LEMMA TickFits ==
  ASSUME NEW a \in Attempts, NEW p \in PaperPrices, ~IsMarket(a), Crosses(a, p)
  PROVE  p * Unit \in Nat /\ WithinLimit(a, p * Unit)
<1> DEFINE l == OrderOf[a].price
<1>1. l \in Nat /\ p \in Nat /\ Unit \in Nat
  BY AttemptsAssumption, RatesAssumption DEF IsMarket
<1>2. IF IsBuy(a) THEN p <= l ELSE p >= l
  BY <1>1 DEF Crosses
<1> HIDE DEF l
<1>3. p <= l => p * Unit <= l * Unit
  BY <1>1
<1>4. p >= l => p * Unit >= l * Unit
  BY <1>1
<1>5. p * Unit \in Nat
  BY <1>1
<1> QED BY <1>2, <1>3, <1>4, <1>5 DEF WithinLimit, Limit, l

OrderRecords ==
  [clOrdId : Ids, state : OrderStates, quantity : Nat, filled : Nat, quote : Nat, fees : Nat]

PaperTyped ==
  /\ connected \in BOOLEAN /\ linkOps \subseteq {"connect", "disconnect"}
  /\ submitting \subseteq Attempts /\ cancelling \subseteq Ids
  /\ object \in [Attempts -> OrderRecords]
  /\ registry \in Seq(Attempts) /\ router \in Routers
  /\ price \in [Symbols -> PaperPrices \cup {None}]
  /\ cash \in Int /\ position \in [Symbols -> Int]

(* Every order is untouched, resting, cancelled without a fill, or filled  *)
(* completely at one price.                                                *)
PaperShape == \A a \in Attempts : IsBare(object[a], a) \/ IsFilled(object[a], a)

(* A sleeping submission has not been acknowledged, and what is registered *)
(* has been.                                                               *)
Acknowledges ==
  /\ \A a \in submitting : object[a].state = "PENDING_NEW"
  /\ \A a \in Attempts : InReg(registry, a) => object[a].state # "PENDING_NEW"

PaperInvariant ==
  PaperTyped /\ PaperShape /\ Acknowledges /\ OnePerId(registry) /\ RegistryCoherent

(* What the shape of an order says about it.                               *)
LEMMA ShapedIsRecord ==
  ASSUME NEW a \in Attempts, NEW o, IsBare(o, a) \/ IsFilled(o, a)
  PROVE  /\ o \in OrderRecords /\ o.filled \in 0..OrderOf[a].quantity
         /\ o.state \in {"PENDING_NEW", "NEW", "CANCELLED", "FILLED"}
         /\ o.state # "FILLED" => o = Bare(a, o.state)
<1>0. OrderOf[a].quantity \in Nat /\ Id(a) \in Ids
  BY QuantityPositive
<1>1. CASE IsBare(o, a)
  BY <1>0, <1>1 DEF IsBare, Bare, Made, OrderRecords, OrderStates
<1>2. CASE IsFilled(o, a)
  <2>1. PICK p \in Nat : o = Done(a, p)
    BY <1>2 DEF IsFilled
  <2> DEFINE n == p * OrderOf[a].quantity
             f == n * FeeBps
  <2>2. n \in Nat /\ f \in Nat
    BY <1>0, RatesAssumption
  <2>3. o = Made(a, "FILLED", OrderOf[a].quantity, n, f)
    BY <2>1 DEF Done
  <2> HIDE DEF n, f
  <2> QED BY <1>0, <2>2, <2>3 DEF Made, OrderRecords, OrderStates
<1> QED BY <1>1, <1>2

(* What lands: a submission whose id was not a duplicate ends as r, and is *)
(* kept in the registry or dropped from it.                                *)
Lands(a, r, kept) ==
  /\ a \in submitting /\ ~IsRefused(a)
  /\ IsBare(r, a) \/ IsFilled(r, a)
  /\ UNCHANGED <<link, cancelling, price>> /\ submitting' = submitting \ {a}
  /\ object' = [object EXCEPT ![a] = r]
  /\ registry' \in Seq(Attempts) /\ OnePerId(registry')
  /\ router' \in Routers /\ cash' \in Int /\ position' \in [Symbols -> Int]
  /\ kept => /\ r.state # "PENDING_NEW"
             /\ router'.active = IF IsActive(r) THEN router.active \cup {Id(a)} ELSE router.active
             /\ \A b : InReg(registry', b) <=> b = a \/ (InReg(registry, b) /\ Id(b) # Id(a))
  /\ ~kept => /\ r.state = "NEW" => IsMarket(a)
              /\ router'.active = router.active
              /\ \A b : InReg(registry', b) <=> InReg(registry, b) /\ Id(b) # Id(a)

(* A submission that lands, registered or rolled back, preserves the       *)
(* invariant.                                                              *)
LEMMA LandsSafely ==
  ASSUME PaperInvariant, NEW a \in Attempts, NEW r, NEW kept \in BOOLEAN, Lands(a, r, kept)
  PROVE  PaperInvariant'
<1> USE DEF PaperInvariant
<1>1. PaperTyped'
  <2>1. r \in OrderRecords
    BY ShapedIsRecord DEF Lands
  <2>2. object' \in [Attempts -> OrderRecords]
    BY <2>1 DEF PaperTyped, Lands
  <2> QED BY <2>2 DEF PaperTyped, Lands, link
<1>2. /\ \A b \in Attempts : object'[b] = IF b = a THEN r ELSE object[b]
      /\ Id(a) \notin router.active /\ ~InReg(registry, a)
      /\ \A b \in Attempts : InReg(registry, b) /\ Id(b) = Id(a) => ~IsActive(object[b])
  <2>1. \A b \in Attempts : object'[b] = IF b = a THEN r ELSE object[b]
    BY DEF PaperTyped, Lands
  <2>2. Id(a) \notin router.active
    BY DEF Lands, IsRefused, IsDuplicate
  <2>3. object[a].state = "PENDING_NEW" /\ ~InReg(registry, a)
    BY DEF Acknowledges, Lands
  <2>4. \A b \in Attempts : InReg(registry, b) /\ Id(b) = Id(a) => ~IsActive(object[b])
    BY <2>2 DEF RegistryCoherent, Registered, InReg
  <2> QED BY <2>1, <2>2, <2>3, <2>4
<1>3. PaperShape'
  BY <1>2 DEF PaperShape, Lands
<1>4. Acknowledges'
  <2>1. submitting' = submitting \ {a} /\ submitting \subseteq Attempts
    BY DEF Lands, PaperTyped
  <2>2. \A b \in submitting' : object'[b].state = "PENDING_NEW"
    BY <1>2, <2>1 DEF Acknowledges
  <2>3. \A b \in Attempts : InReg(registry', b) => object'[b].state # "PENDING_NEW"
    BY <1>2 DEF Acknowledges, Lands
  <2> QED BY <2>2, <2>3 DEF Acknowledges
<1>5. OnePerId(registry')
  BY DEF Lands
<1>6. RegistryCoherent'
  <2> DEFINE Live  == {Id(b) : b \in {c \in Attempts : InReg(registry, c) /\ IsActive(object[c])}}
             Later == {Id(b) : b \in {c \in Attempts : InReg(registry', c) /\ IsActive(object'[c])}}
  <2>1. router.active = Live
    BY DEF RegistryCoherent, Registered, InReg
  <2>2. \A c \in Attempts : c # a => ((InReg(registry', c) /\ IsActive(object'[c]))
                                        <=> (InReg(registry, c) /\ IsActive(object[c])))
    BY <1>2 DEF Lands
  <2>3. (InReg(registry', a) /\ IsActive(object'[a])) <=> (kept /\ IsActive(r))
    BY <1>2 DEF Lands
  <2>4. Later = IF kept /\ IsActive(r) THEN Live \cup {Id(a)} ELSE Live
    <3>1. CASE kept /\ IsActive(r)
      <4>1. {c \in Attempts : InReg(registry', c) /\ IsActive(object'[c])}
              = {c \in Attempts : InReg(registry, c) /\ IsActive(object[c])} \cup {a}
        BY <2>2, <2>3, <3>1
      <4> QED BY <3>1, <4>1
    <3>2. CASE ~(kept /\ IsActive(r))
      <4>1. {c \in Attempts : InReg(registry', c) /\ IsActive(object'[c])}
              = {c \in Attempts : InReg(registry, c) /\ IsActive(object[c])}
        BY <1>2, <2>2, <2>3, <3>2
      <4> QED BY <3>2, <4>1
    <3> QED BY <3>1, <3>2
  <2> HIDE DEF Live, Later
  <2>5. router'.active = Later
    BY <2>1, <2>4 DEF Lands
  <2>6. ASSUME NEW b \in Attempts, object'[b].state = "NEW", ~IsMarket(b)
        PROVE  InReg(registry', b)
    <3>1. CASE b = a
      BY <1>2, <2>6, <3>1 DEF Lands
    <3>2. CASE b # a
      <4>1. object[b].state = "NEW" /\ IsActive(object[b])
        BY <1>2, <2>6, <3>2 DEF IsActive, ActiveStates
      <4>2. InReg(registry, b)
        BY <4>1, <2>6 DEF RegistryCoherent, Registered, InReg
      <4>3. Id(b) # Id(a)
        BY <1>2, <4>1, <4>2
      <4> QED BY <4>2, <4>3 DEF Lands
    <3> QED BY <3>1, <3>2
  <2>7. \A b : Registered(b)' <=> InReg(registry', b)
    BY DEF Registered, InReg
  <2> QED BY <2>5, <2>6, <2>7 DEF RegistryCoherent, Later
<1> QED BY <1>1, <1>3, <1>4, <1>5, <1>6

(* The sum the model uses is the sum the theorems on sums are about.       *)
LEMMA SumOnSet == ASSUME NEW f, NEW S PROVE SumFunctionOnSet(f, S) = SumOver(f, S)
BY DEF SumFunctionOnSet, FoldFunctionOnSet, SumOver, MapThenSumSet

(* What a fill brings in is a whole number.                                *)
LEMMA FlowTyped ==
  ASSUME NEW a \in Attempts, NEW p \in Nat
  PROVE  CashFlow(a, p) \in Int /\ SignedQuantity(a) \in Int
<1> DEFINE n == p * OrderOf[a].quantity
           q == OrderOf[a].quantity
<1>1. n \in Nat /\ q \in Nat /\ Unit + FeeBps \in Int /\ Unit - FeeBps \in Int
  BY QuantityPositive, RatesAssumption
<1>2. CashFlow(a, p) = IF IsBuy(a) THEN -(n * (Unit + FeeBps)) ELSE n * (Unit - FeeBps)
  BY DEF CashFlow
<1>3. SignedQuantity(a) = IF IsBuy(a) THEN -(-q) ELSE -q
  BY <1>1 DEF SignedQuantity
<1> HIDE DEF n, q
<1>4. n * (Unit + FeeBps) \in Int /\ n * (Unit - FeeBps) \in Int
  BY <1>1
<1>5. -(n * (Unit + FeeBps)) \in Int
  BY <1>4
<1>6. -q \in Int /\ -(-q) \in Int
  BY <1>1
<1> QED BY <1>2, <1>3, <1>4, <1>5, <1>6

(* Where an action ends a submission.                                      *)
LEMMA Sleeping ==
  ASSUME PaperInvariant, NEW a \in submitting
  PROVE  a \in Attempts /\ object[a] = Bare(a, "PENDING_NEW") /\ Id(a) \in Ids
<1>1. a \in Attempts /\ object[a].state = "PENDING_NEW"
  BY DEF PaperInvariant, PaperTyped, Acknowledges
<1>2. IsBare(object[a], a) \/ IsFilled(object[a], a)
  BY <1>1 DEF PaperInvariant, PaperShape
<1>3. object[a] = Bare(a, object[a].state)
  BY <1>1, <1>2, ShapedIsRecord
<1> QED BY <1>1, <1>3, QuantityPositive

(* Opening and closing an id that was not active leaves the active ids as  *)
(* they were.                                                              *)
LEMMA RegisteredClosed ==
  ASSUME NEW rt \in Routers, NEW id \in Ids, id \notin rt.active
  PROVE  /\ Deregister(Register(rt, id), id) \in Routers
         /\ Deregister(Register(rt, id), id).active = rt.active
<1>1. /\ Register(rt, id) \in Routers /\ Register(rt, id).active = rt.active \cup {id}
      /\ Deregister(Register(rt, id), id) \in Routers
      /\ Deregister(Register(rt, id), id).active = Register(rt, id).active \ {id}
  BY RegisterTyped, DeregisterTyped
<1> QED BY <1>1

(* A submission that fails after it registered leaves no trace in the      *)
(* registry but the removal of an older order with its id.                 *)
LEMMA RollbackEffect ==
  ASSUME PaperInvariant, NEW a \in Attempts, Rollback(a), ~IsRefused(a)
  PROVE  /\ registry' \in Seq(Attempts) /\ OnePerId(registry')
         /\ router' \in Routers /\ router'.active = router.active
         /\ \A b : InReg(registry', b) <=> InReg(registry, b) /\ Id(b) # Id(a)
<1> DEFINE mid == Store(registry, a)
<1>1. registry \in Seq(Attempts) /\ OnePerId(registry) /\ router \in Routers /\ Id(a) \in Ids
  BY QuantityPositive DEF PaperInvariant, PaperTyped
<1>2. /\ mid \in Seq(Attempts) /\ OnePerId(mid)
      /\ \A b : InReg(mid, b) <=> b = a \/ (InReg(registry, b) /\ Id(b) # Id(a))
  BY <1>1, StoreEffect
<1>3. registry' = Pop(mid, Id(a)) /\ router' = Deregister(Register(router, Id(a)), Id(a))
  BY DEF Rollback
<1> HIDE DEF mid
<1>4. /\ registry' \in Seq(Attempts) /\ OnePerId(registry')
      /\ \A b : InReg(registry', b) <=> InReg(mid, b) /\ Id(b) # Id(a)
  BY <1>2, <1>3, PopEffect
<1>5. Id(a) \notin router.active
  BY DEF IsRefused, IsDuplicate
<1>6. router' \in Routers /\ router'.active = router.active
  BY <1>1, <1>3, <1>5, RegisteredClosed
<1> QED BY <1>2, <1>4, <1>6

(* Where a submission without margin ends: pending, and not registered.    *)
LEMMA FailureLands ==
  ASSUME PaperInvariant, NEW a \in Attempts, SubmitMarginFailure(a)
  PROVE  Lands(a, Bare(a, "PENDING_NEW"), FALSE)
<1>1. a \in submitting /\ ~IsRefused(a) /\ Rollback(a) /\ object' = object
      /\ UNCHANGED <<link, cancelling, price>> /\ submitting' = submitting \ {a}
      /\ cash' = cash /\ position' = position
  BY DEF SubmitMarginFailure, Landing, Rollback, paperAccount
<1>2. object[a] = Bare(a, "PENDING_NEW")
  BY <1>1, Sleeping
<1>3. object' = [object EXCEPT ![a] = Bare(a, "PENDING_NEW")]
  BY <1>1, <1>2 DEF PaperInvariant, PaperTyped
<1>4. IsBare(Bare(a, "PENDING_NEW"), a) /\ Bare(a, "PENDING_NEW").state = "PENDING_NEW"
  BY BareIs DEF IsBare
<1>5. cash \in Int /\ position \in [Symbols -> Int]
  BY DEF PaperInvariant, PaperTyped
<1> QED BY <1>1, <1>3, <1>4, <1>5, RollbackEffect DEF Lands

(* Where a market SELL without a price ends: acknowledged, and not         *)
(* registered.                                                             *)
LEMMA UnpricedLands ==
  ASSUME PaperInvariant, NEW a \in Attempts, SubmitUnpricedSell(a)
  PROVE  Lands(a, Bare(a, "NEW"), FALSE)
<1>1. a \in submitting /\ ~IsRefused(a) /\ Rollback(a) /\ IsMarket(a)
      /\ object' = [object EXCEPT ![a] = Transition(object[a], "NEW")]
      /\ UNCHANGED <<link, cancelling, price>> /\ submitting' = submitting \ {a}
      /\ cash' = cash /\ position' = position
  BY DEF SubmitUnpricedSell, Landing, Rollback, paperAccount
<1>2. object' = [object EXCEPT ![a] = Bare(a, "NEW")]
  BY <1>1, Sleeping, NewOf
<1>3. IsBare(Bare(a, "NEW"), a)
  BY DEF IsBare
<1>4. cash \in Int /\ position \in [Symbols -> Int]
  BY DEF PaperInvariant, PaperTyped
<1> QED BY <1>1, <1>2, <1>3, <1>4, RollbackEffect DEF Lands

(* Where an immediate fill ends: filled within its limit, and registered.  *)
LEMMA FillLands ==
  ASSUME PaperInvariant, NEW a \in Attempts, SubmitFill(a)
  PROVE  Lands(a, Done(a, FillPrice(a)), TRUE) /\ FillPrice(a) \in Nat
<1> DEFINE p == FillPrice(a)
<1>1. a \in submitting /\ ~IsRefused(a) /\ Market(a) # None
      /\ object' = [object EXCEPT ![a] =
                      ApplyExecutionReport(Transition(object[a], "NEW"), FillReport(a, p))]
      /\ UNCHANGED <<link, cancelling, price>> /\ submitting' = submitting \ {a}
      /\ cash' = cash + CashFlow(a, p)
      /\ position' = [position EXCEPT ![OrderOf[a].symbol] = @ + SignedQuantity(a)]
      /\ registry' = Store(registry, a)
      /\ router' = Deregister(Register(router, Id(a)), Id(a))
  BY DEF SubmitFill, Landing
<1>2. p \in Nat /\ WithinLimit(a, p)
  BY <1>1, FillPriceFits DEF PaperInvariant, PaperTyped
<1>3. /\ registry \in Seq(Attempts) /\ OnePerId(registry) /\ router \in Routers
      /\ cash \in Int /\ position \in [Symbols -> Int] /\ Id(a) \in Ids
  BY QuantityPositive DEF PaperInvariant, PaperTyped
<1> HIDE DEF p
<1>4. object' = [object EXCEPT ![a] = Done(a, p)]
  <2>1. object[a] = Bare(a, "PENDING_NEW")
    BY <1>1, Sleeping
  <2>2. Transition(object[a], "NEW") = Bare(a, "NEW")
    BY <2>1, NewOf
  <2>3. ApplyExecutionReport(Transition(object[a], "NEW"), FillReport(a, p)) = Done(a, p)
    BY <1>2, <2>2, FillOf
  <2> QED BY <1>1, <2>3
<1>5. IsFilled(Done(a, p), a) /\ Done(a, p).state = "FILLED"
  BY <1>2, DoneIs DEF IsFilled
<1>6. CashFlow(a, p) \in Int /\ SignedQuantity(a) \in Int
  BY <1>2, FlowTyped
<1>7. cash' \in Int /\ position' \in [Symbols -> Int]
  <2>1. cash' \in Int
    BY <1>1, <1>3, <1>6
  <2>2. position' = [position EXCEPT ![OrderOf[a].symbol] = @ + SignedQuantity(a)]
    BY <1>1
  <2>3. OrderOf[a].symbol \in Symbols
    BY QuantityPositive
  <2> QED BY <1>3, <1>6, <2>1, <2>2, <2>3
<1>8. Id(a) \notin router.active
  BY <1>1 DEF IsRefused, IsDuplicate
<1>9. router' \in Routers /\ router'.active = router.active
  BY <1>1, <1>3, <1>8, RegisteredClosed
<1>10. /\ registry' \in Seq(Attempts) /\ OnePerId(registry')
       /\ \A b : InReg(registry', b) <=> b = a \/ (InReg(registry, b) /\ Id(b) # Id(a))
  BY <1>1, <1>3, StoreEffect
<1>11. ~IsActive(Done(a, p)) /\ Done(a, p).state # "PENDING_NEW"
  BY <1>5 DEF IsActive, ActiveStates
<1>12. Lands(a, Done(a, p), TRUE)
  BY <1>1, <1>4, <1>5, <1>7, <1>9, <1>10, <1>11 DEF Lands
<1> QED BY <1>2, <1>12 DEF p

(* Where a limit order that does not cross ends: acknowledged and resting. *)
LEMMA RestLands ==
  ASSUME PaperInvariant, NEW a \in Attempts, SubmitRest(a)
  PROVE  Lands(a, Bare(a, "NEW"), TRUE) /\ ~IsMarket(a)
<1>1. a \in submitting /\ ~IsRefused(a) /\ ~IsMarket(a)
      /\ object' = [object EXCEPT ![a] = Transition(object[a], "NEW")]
      /\ UNCHANGED <<link, cancelling, price>> /\ submitting' = submitting \ {a}
      /\ cash' = cash /\ position' = position
      /\ registry' = Store(registry, a) /\ router' = Register(router, Id(a))
  BY DEF SubmitRest, Landing, paperAccount, Marketable
<1>2. /\ registry \in Seq(Attempts) /\ OnePerId(registry) /\ router \in Routers
      /\ cash \in Int /\ position \in [Symbols -> Int] /\ Id(a) \in Ids
  BY QuantityPositive DEF PaperInvariant, PaperTyped
<1>3. object' = [object EXCEPT ![a] = Bare(a, "NEW")]
  BY <1>1, Sleeping, NewOf
<1>4. IsBare(Bare(a, "NEW"), a) /\ IsActive(Bare(a, "NEW")) /\ Bare(a, "NEW").state # "PENDING_NEW"
  BY BareIs DEF IsBare, IsActive, ActiveStates
<1>5. router' \in Routers /\ router'.active = router.active \cup {Id(a)}
  BY <1>1, <1>2, RegisterTyped
<1>6. /\ registry' \in Seq(Attempts) /\ OnePerId(registry')
      /\ \A b : InReg(registry', b) <=> b = a \/ (InReg(registry, b) /\ Id(b) # Id(a))
  BY <1>1, <1>2, StoreEffect
<1>7. Lands(a, Bare(a, "NEW"), TRUE)
  BY <1>1, <1>2, <1>3, <1>4, <1>5, <1>6 DEF Lands
<1> QED BY <1>1, <1>7

(* One registered order to an id.                                          *)
LEMMA OneOfId ==
  ASSUME OnePerId(registry), NEW a, NEW b, InReg(registry, a), InReg(registry, b), Id(a) = Id(b)
  PROVE  a = b
BY DEF OnePerId, InReg

(* A registered order that is not terminal rests.                          *)
LEMMA Resting ==
  ASSUME PaperInvariant, NEW a \in Attempts, InReg(registry, a), ~IsTerminal(object[a])
  PROVE  object[a] = Bare(a, "NEW") /\ a \notin submitting /\ IsActive(object[a])
<1>1. IsBare(object[a], a) \/ IsFilled(object[a], a)
  BY DEF PaperInvariant, PaperShape
<1>2. object[a].state # "PENDING_NEW" /\ (a \in submitting => object[a].state = "PENDING_NEW")
  BY DEF PaperInvariant, Acknowledges
<1>3. object[a].state = "NEW"
  BY <1>1, <1>2, ShapedIsRecord DEF IsTerminal, TerminalStates
<1> QED BY <1>1, <1>2, <1>3, ShapedIsRecord DEF IsActive, ActiveStates

(* The orders of m end as n says, and their ids are closed.                *)
Ends(m, n) ==
  /\ m \subseteq {a \in Attempts : InReg(registry, a) /\ ~IsTerminal(object[a])}
  /\ \A a \in m : (IsBare(n[a], a) \/ IsFilled(n[a], a)) /\ IsTerminal(n[a])
  /\ object' = [a \in Attempts |-> IF a \in m THEN n[a] ELSE object[a]]
  /\ router' \in Routers /\ router'.active = router.active \ {Id(a) : a \in m}
  /\ UNCHANGED <<link, submitting, registry>>
  /\ cancelling' \subseteq cancelling /\ price' \in [Symbols -> PaperPrices \cup {None}]
  /\ cash' \in Int /\ position' \in [Symbols -> Int]

(* Ending resting orders, by a cancel or a tick, preserves the invariant.  *)
LEMMA EndsSafely ==
  ASSUME PaperInvariant, NEW m, NEW n, Ends(m, n)
  PROVE  PaperInvariant'
<1> USE DEF PaperInvariant
<1>0. /\ \A a \in Attempts : object'[a] = IF a \in m THEN n[a] ELSE object[a]
      /\ \A a \in m : a \in Attempts /\ InReg(registry, a) /\ object[a] = Bare(a, "NEW")
                      /\ a \notin submitting /\ IsActive(object[a])
      /\ registry' = registry /\ submitting' = submitting
  BY Resting DEF Ends
<1>a. \A a \in m : n[a] \in OrderRecords /\ n[a].state # "PENDING_NEW" /\ n[a].state # "NEW"
                  /\ ~IsActive(n[a])
  BY <1>0, ShapedIsRecord DEF Ends, IsTerminal, TerminalStates, IsActive, ActiveStates
<1>1. PaperTyped'
  <2>1. object' \in [Attempts -> OrderRecords]
    BY <1>0, <1>a DEF PaperTyped, Ends
  <2> QED BY <2>1 DEF PaperTyped, Ends, link
<1>2. PaperShape'
  BY <1>0 DEF PaperShape, Ends
<1>3. Acknowledges'
  <2>1. \A a \in submitting' : object'[a].state = "PENDING_NEW"
    BY <1>0 DEF Acknowledges, PaperTyped
  <2>2. \A a \in Attempts : InReg(registry', a) => object'[a].state # "PENDING_NEW"
    BY <1>0, <1>a DEF Acknowledges
  <2> QED BY <2>1, <2>2 DEF Acknowledges
<1>4. OnePerId(registry')
  BY <1>0
<1>5. RegistryCoherent'
  <2> DEFINE Now   == {c \in Attempts : InReg(registry, c) /\ IsActive(object[c])}
             Then  == {c \in Attempts : InReg(registry', c) /\ IsActive(object'[c])}
  <2>1. router.active = {Id(c) : c \in Now}
    BY DEF RegistryCoherent, Registered, InReg
  <2>2. Then = Now \ m /\ m \subseteq Now
    BY <1>0, <1>a
  <2>3. \A c \in Now, a \in m : Id(c) = Id(a) => c = a
    BY <1>0, OneOfId
  <2> HIDE DEF Now, Then
  <2>4. {Id(c) : c \in Now} \ {Id(a) : a \in m} = {Id(c) : c \in Then}
    BY <2>2, <2>3
  <2>5. router'.active = {Id(c) : c \in Then}
    BY <2>1, <2>4 DEF Ends
  <2>6. ASSUME NEW b \in Attempts, object'[b].state = "NEW", ~IsMarket(b)
        PROVE  InReg(registry', b)
    BY <1>0, <1>a, <2>6 DEF RegistryCoherent, Registered, InReg
  <2>7. \A b : Registered(b)' <=> InReg(registry', b)
    BY DEF Registered, InReg
  <2> QED BY <2>5, <2>6, <2>7 DEF RegistryCoherent, Then
<1> QED BY <1>1, <1>2, <1>3, <1>4, <1>5

(* A cancel ends one resting order of the id it names.                     *)
LEMMA CancelEnds ==
  ASSUME PaperInvariant, NEW id \in Ids, LandCancel(id)
  PROVE  \E b \in Attempts : /\ Id(b) = id /\ router' = Deregister(router, id)
                             /\ Ends({b}, [a \in {b} |-> Bare(a, "CANCELLED")])
<1>1. PICK b \in Cancellable(id) :
        object' = [object EXCEPT ![b] = ApplyExecutionReport(object[b], CancelReport(b))]
  BY DEF LandCancel
<1>2. b \in Attempts /\ Id(b) = id /\ InReg(registry, b) /\ ~IsTerminal(object[b])
  BY <1>1 DEF Cancellable, Registered, InReg
<1>3. object[b] = Bare(b, "NEW")
  BY <1>2, Resting
<1>4. CancelReport(b) =
        [clOrdId |-> Id(b), execType |-> "CANCELLED", cum |-> 0, quote |-> 0, fee |-> 0]
  BY <1>3, BareIs DEF CancelReport
<1>5. object' = [object EXCEPT ![b] = Bare(b, "CANCELLED")]
  BY <1>1, <1>2, <1>3, <1>4, CancelOf
<1>6. IsBare(Bare(b, "CANCELLED"), b) /\ IsTerminal(Bare(b, "CANCELLED"))
  BY BareIs DEF IsBare, IsTerminal, TerminalStates
<1>7. /\ router' = Deregister(router, id) /\ cancelling' = cancelling \ {id}
      /\ UNCHANGED <<link, submitting, registry, price, cash, position>>
  BY DEF LandCancel, paperAccount
<1>8. router' \in Routers /\ router'.active = router.active \ {id}
  BY <1>7, DeregisterTyped DEF PaperInvariant, PaperTyped
<1> DEFINE n == [a \in {b} |-> Bare(a, "CANCELLED")]
<1>9. n[b] = Bare(b, "CANCELLED")
  OBVIOUS
<1> HIDE DEF n
<1>10. object' = [a \in Attempts |-> IF a \in {b} THEN n[a] ELSE object[a]]
  BY <1>2, <1>5, <1>9 DEF PaperInvariant, PaperTyped
<1>11. {Id(a) : a \in {b}} = {id}
  BY <1>2
<1>12. Ends({b}, n)
  BY <1>2, <1>6, <1>7, <1>8, <1>9, <1>10, <1>11 DEF Ends, PaperInvariant, PaperTyped
<1> QED BY <1>2, <1>7, <1>12 DEF n

(* A tick ends the orders it matches, all of them at its price.            *)
LEMMA TickEnds ==
  ASSUME PaperInvariant, NEW s \in Symbols, NEW p \in PaperPrices, SetMarketPrice(s, p)
  PROVE  /\ Ends(TickMatched(s, p), [a \in Attempts |-> Done(a, p * Unit)])
         /\ router' = TickRouter(router, registry, TickMatched(s, p))
         /\ p * Unit \in Nat
<1> DEFINE m == TickMatched(s, p)
           tick == p * Unit
           n == [a \in Attempts |-> Done(a, tick)]
<1>1. /\ price' = [price EXCEPT ![s] = p]
      /\ object' = [a \in Attempts |->
            IF a \in m THEN ApplyExecutionReport(object[a], FillReport(a, tick)) ELSE object[a]]
      /\ cash' = cash + SumFunctionOnSet([a \in Attempts |-> CashFlow(a, tick)], m)
      /\ position' = [position EXCEPT ![s] =
            @ + SumFunctionOnSet([a \in Attempts |-> SignedQuantity(a)], m)]
      /\ router' = TickRouter(router, registry, m)
      /\ UNCHANGED <<link, submitting, cancelling, registry>>
  BY DEF SetMarketPrice, TickRouter
<1>2. /\ m \subseteq {a \in Attempts : InReg(registry, a) /\ ~IsTerminal(object[a])}
      /\ \A a \in m : ~IsMarket(a) /\ Crosses(a, p)
  BY DEF TickMatched, Registered, InReg, IsActive, ActiveStates, IsTerminal, TerminalStates
<1>3. tick \in Nat
  BY RatesAssumption
<1> HIDE DEF m, tick
<1>4. \A a \in m : WithinLimit(a, tick)
  BY <1>2, TickFits DEF tick
<1>5. \A a \in m : ApplyExecutionReport(object[a], FillReport(a, tick)) = Done(a, tick)
  BY <1>2, <1>3, Resting, FillOf
<1>6. \A a \in m : n[a] = Done(a, tick) /\ IsFilled(n[a], a) /\ IsTerminal(n[a])
  <2> SUFFICES ASSUME NEW a \in m
               PROVE  n[a] = Done(a, tick) /\ IsFilled(n[a], a) /\ IsTerminal(n[a])
    OBVIOUS
  <2>1. n[a] = Done(a, tick)
    BY <1>2
  <2>2. IsFilled(Done(a, tick), a)
    BY <1>3, <1>4 DEF IsFilled
  <2>3. IsTerminal(Done(a, tick))
    BY DoneIs DEF IsTerminal, TerminalStates
  <2> QED BY <2>1, <2>2, <2>3
<1> HIDE DEF n
<1>7. object' = [a \in Attempts |-> IF a \in m THEN n[a] ELSE object[a]]
  BY <1>1, <1>5, <1>6
<1>8. router' \in Routers /\ router'.active = router.active \ {Id(a) : a \in m}
  <2>1. router \in Routers /\ registry \in Seq(Attempts)
    BY DEF PaperInvariant, PaperTyped
  <2>2. Closed(registry, m, Len(registry)) = {Id(a) : a \in m}
    <3>1. DOMAIN registry = 1..Len(registry)
      BY <2>1
    <3> QED BY <1>2, <3>1 DEF Closed, InReg
  <2> QED BY <1>1, <2>1, <2>2, TickEffect
<1>9. cash' \in Int /\ position' \in [Symbols -> Int]
  <2>1. IsFiniteSet(m)
    BY <1>2, AttemptsAssumption, FS_Subset
  <2> DEFINE flow == [a \in Attempts |-> CashFlow(a, tick)]
             lots == [a \in Attempts |-> SignedQuantity(a)]
  <2>2. \A a \in m : flow[a] \in Int /\ lots[a] \in Int
    BY <1>2, <1>3, FlowTyped
  <2> HIDE DEF flow, lots
  <2>3. SumFunctionOnSet(flow, m) \in Int /\ SumFunctionOnSet(lots, m) \in Int
    BY <2>1, <2>2, SumInt, SumOnSet
  <2> QED BY <1>1, <2>3 DEF flow, lots, PaperInvariant, PaperTyped
<1>10. price' \in [Symbols -> PaperPrices \cup {None}]
  BY <1>1 DEF PaperInvariant, PaperTyped
<1>11. Ends(m, n)
  BY <1>1, <1>2, <1>6, <1>7, <1>8, <1>9, <1>10 DEF Ends
<1> QED BY <1>1, <1>3, <1>11 DEF m, n, tick

-----------------------------------------------------------------------------
(* The gateway starts in the invariant.                                    *)
LEMMA PaperStarts == PaperInit => PaperInvariant
<1> SUFFICES ASSUME PaperInit PROVE PaperInvariant
  OBVIOUS
<1>1. \A a \in Attempts : object[a] = Bare(a, "PENDING_NEW") /\ IsBare(object[a], a)
  BY DEF PaperInit, NewOrder, Bare, Made, IsBare
<1>2. \A a : ~InReg(registry, a) /\ ~Registered(a)
  BY DEF PaperInit, InReg, Registered
<1>3. PaperTyped
  <2>1. object \in [Attempts -> OrderRecords]
    BY <1>1, ShapedIsRecord DEF PaperInit
  <2>2. router \in Routers /\ registry \in Seq(Attempts)
    BY DEF PaperInit, EmptyRouter, Routers
  <2>3. cash \in Int /\ position \in [Symbols -> Int]
    BY RatesAssumption DEF PaperInit
  <2> QED BY <2>1, <2>2, <2>3 DEF PaperTyped, PaperInit
<1>4. Acknowledges
  BY <1>2 DEF Acknowledges, PaperInit
<1>5. OnePerId(registry)
  BY DEF PaperInit, OnePerId
<1>6. RegistryCoherent
  <2>1. \A a \in Attempts : object[a].state # "NEW"
    BY <1>1, BareIs
  <2>2. router.active = {}
    BY DEF PaperInit, EmptyRouter
  <2> QED BY <1>2, <2>1, <2>2 DEF RegistryCoherent
<1> QED BY <1>1, <1>3, <1>4, <1>5, <1>6 DEF PaperInvariant, PaperShape

(* Calls and connects touch none of the books.                             *)
LEMMA CallsSafely ==
  ASSUME PaperInvariant, UNCHANGED <<object, registry, router, price, cash, position>>,
         connected' \in BOOLEAN, linkOps' \subseteq {"connect", "disconnect"},
         cancelling' \subseteq Ids, submitting' \subseteq Attempts,
         \A a \in submitting' : object[a].state = "PENDING_NEW"
  PROVE  PaperInvariant'
<1>1. PaperTyped' /\ PaperShape' /\ OnePerId(registry')
  BY DEF PaperInvariant, PaperTyped, PaperShape
<1>2. Acknowledges'
  BY DEF PaperInvariant, Acknowledges
<1>3. RegistryCoherent'
  BY DEF PaperInvariant, RegistryCoherent, Registered
<1> QED BY <1>1, <1>2, <1>3 DEF PaperInvariant

(* Every step of the gateway preserves the invariant, action by action.    *)
LEMMA PaperMoves == PaperInvariant /\ [PaperNext]_paperVars => PaperInvariant'
<1> SUFFICES ASSUME PaperInvariant, [PaperNext]_paperVars PROVE PaperInvariant'
  OBVIOUS
<1>0. /\ connected \in BOOLEAN /\ linkOps \subseteq {"connect", "disconnect"}
      /\ cancelling \subseteq Ids /\ submitting \subseteq Attempts
      /\ \A a \in submitting : object[a].state = "PENDING_NEW"
  BY DEF PaperInvariant, PaperTyped, Acknowledges
<1>1. CASE UNCHANGED paperVars
  BY <1>0, <1>1, CallsSafely DEF paperVars, link, paperAccount
<1>2. CASE \E op \in {"connect", "disconnect"} : CallLink(op) \/ LandLink(op)
  BY <1>0, <1>2, CallsSafely DEF CallLink, LandLink, paperAccount
<1>3. ASSUME NEW a \in Attempts, CallSubmit(a) PROVE PaperInvariant'
  BY <1>0, <1>3, CallsSafely DEF CallSubmit, link, paperAccount
<1>4. ASSUME NEW a \in Attempts, SubmitDuplicate(a) PROVE PaperInvariant'
  BY <1>0, <1>4, CallsSafely DEF SubmitDuplicate, Landing, link, paperAccount
<1>5. ASSUME NEW a \in Attempts, SubmitMarginFailure(a) PROVE PaperInvariant'
  BY <1>5, FailureLands, LandsSafely
<1>6. ASSUME NEW a \in Attempts, SubmitUnpricedSell(a) PROVE PaperInvariant'
  BY <1>6, UnpricedLands, LandsSafely
<1>7. ASSUME NEW a \in Attempts, SubmitFill(a) PROVE PaperInvariant'
  BY <1>7, FillLands, LandsSafely
<1>8. ASSUME NEW a \in Attempts, SubmitRest(a) PROVE PaperInvariant'
  BY <1>8, RestLands, LandsSafely
<1>9. ASSUME NEW id \in Ids, CallCancel(id) \/ CancelTooLate(id) PROVE PaperInvariant'
  BY <1>0, <1>9, CallsSafely DEF CallCancel, CancelTooLate, link, paperAccount
<1>10. ASSUME NEW id \in Ids, LandCancel(id) PROVE PaperInvariant'
  BY <1>10, CancelEnds, EndsSafely
<1>11. ASSUME NEW s \in Symbols, NEW p \in PaperPrices, SetMarketPrice(s, p) PROVE PaperInvariant'
  BY <1>11, TickEnds, EndsSafely
<1> QED
  BY <1>1, <1>2, <1>3, <1>4, <1>5, <1>6, <1>7, <1>8, <1>9, <1>10, <1>11 DEF PaperNext

(* The inductive invariant of the paper gateway: an order is untouched or  *)
(* filled as a whole within its limit, the registry holds one order to an  *)
(* id, and the router's active ids are those of the registered orders that *)
(* are not terminal.                                                       *)
THEOREM PaperInvariantHolds == PaperSpec => []PaperInvariant
<1> QED BY PaperStarts, PaperMoves, PTL DEF PaperSpec

-----------------------------------------------------------------------------
ProceedsOf(o, a) == (IF IsBuy(a) THEN -o.quote ELSE o.quote) * Unit - o.fees
Flows(obj)   == [a \in Attempts |-> ProceedsOf(obj[a], a)]
Lots         == [a \in Attempts |-> SignedQuantity(a)]
Full(obj)    == {a \in Attempts : obj[a].state = "FILLED"}
Of(m, s)     == {a \in m : OrderOf[a].symbol = s}

BookedAs(obj, c, pos) ==
  /\ c = InitialBalance + SumOver(Flows(obj), Full(obj))
  /\ \A s \in Symbols : pos[s] = SumOver(Lots, Of(Full(obj), s))

(* BooksBalance in terms of the objects, the cash and the positions,       *)
(* before and after a step.                                                *)
LEMMA BalanceIs ==
  /\ BooksBalance <=> BookedAs(object, cash, position)
  /\ BooksBalance' <=> BookedAs(object', cash', position')
BY SumOnSet DEF BooksBalance, BookedAs, Flows, Full, Lots, Of, FilledAttempts, Proceeds, ProceedsOf

(* What a filled order brought in is the cash flow booked for it.          *)
LEMMA FilledIn ==
  ASSUME NEW a \in Attempts, NEW p \in Nat
  PROVE  ProceedsOf(Done(a, p), a) = CashFlow(a, p)
<1> DEFINE n == p * OrderOf[a].quantity
<1>1. n \in Nat /\ Unit \in Nat /\ FeeBps \in Nat
  BY QuantityPositive, RatesAssumption
<1>2. Done(a, p).quote = n /\ Done(a, p).fees = n * FeeBps
  BY DoneIs
<1>3. CashFlow(a, p) = IF IsBuy(a) THEN -(n * (Unit + FeeBps)) ELSE n * (Unit - FeeBps)
  BY DEF CashFlow
<1>4. ProceedsOf(Done(a, p), a) = IF IsBuy(a) THEN (-n) * Unit - n * FeeBps ELSE n * Unit - n * FeeBps
  BY <1>2 DEF ProceedsOf
<1> HIDE DEF n
<1>5. (-n) * Unit - n * FeeBps = -(n * (Unit + FeeBps))
  BY <1>1
<1>6. n * Unit - n * FeeBps = n * (Unit - FeeBps)
  BY <1>1
<1> QED BY <1>3, <1>4, <1>5, <1>6

(* The orders of m fill, for what they bring in, and nothing else does.    *)
Fill(m, obj, obj2, c, c2, pos, pos2) ==
  /\ m \subseteq Attempts /\ \A a \in m : obj[a].state # "FILLED"
  /\ Full(obj2) = Full(obj) \cup m
  /\ \A a \in Full(obj) : obj2[a] = obj[a]
  /\ c2 = c + SumOver(Flows(obj2), m)
  /\ \A s \in Symbols : pos2[s] = pos[s] + SumOver(Lots, Of(m, s))

(* Filling a set of orders and booking their flows keeps the books         *)
(* balanced: the sum over the filled orders grows by the sum over the new  *)
(* ones.                                                                   *)
LEMMA FillBooked ==
  ASSUME NEW m, NEW obj, NEW obj2 \in [Attempts -> OrderRecords], NEW c, NEW c2, NEW pos, NEW pos2,
         BookedAs(obj, c, pos), Fill(m, obj, obj2, c, c2, pos, pos2)
  PROVE  BookedAs(obj2, c2, pos2)
<1> DEFINE F == Full(obj)
           new == Flows(obj2)
<1>1. IsFiniteSet(Attempts) /\ F \subseteq Attempts /\ m \subseteq Attempts /\ F \cap m = {}
  BY AttemptsAssumption DEF Full, Fill
<1>2. IsFiniteSet(F) /\ IsFiniteSet(m)
  BY <1>1, FS_Subset
<1>3. \A a \in Attempts : new[a] \in Int /\ Lots[a] \in Int
  <2> SUFFICES ASSUME NEW a \in Attempts PROVE new[a] \in Int /\ Lots[a] \in Int
    OBVIOUS
  <2>1. obj2[a].quote \in Nat /\ obj2[a].fees \in Nat /\ Unit \in Nat /\ OrderOf[a].quantity \in Nat
    BY QuantityPositive, RatesAssumption DEF OrderRecords
  <2>2. ProceedsOf(obj2[a], a) \in Int /\ SignedQuantity(a) \in Int
    <3>1. obj2[a].quote * Unit \in Int /\ (-obj2[a].quote) * Unit \in Int
      BY <2>1
    <3> QED BY <2>1, <3>1 DEF ProceedsOf, SignedQuantity
  <2> QED BY <2>2 DEF Flows, Lots
<1>4. \A a \in F : Flows(obj)[a] = new[a]
  BY <1>1 DEF Flows, Fill
<1> HIDE DEF new, F
<1>5. SumOver(new, F) = SumOver(Flows(obj), F) /\ SumOver(new, F) \in Int
  BY <1>1, <1>2, <1>3, <1>4, SumAgrees, SumInt
<1>6. SumOver(new, F \cup m) = SumOver(new, F) + SumOver(new, m) /\ SumOver(new, m) \in Int
  BY <1>1, <1>2, <1>3, SumUnion, SumInt
<1>7. c2 = InitialBalance + SumOver(new, F \cup m)
  <2>1. c = InitialBalance + SumOver(Flows(obj), F) /\ c2 = c + SumOver(new, m)
    BY DEF BookedAs, Fill, new, F
  <2> QED BY <1>5, <1>6, <2>1, RatesAssumption
<1>8. ASSUME NEW s \in Symbols PROVE pos2[s] = SumOver(Lots, Of(F \cup m, s))
  <2>1. /\ Of(F \cup m, s) = Of(F, s) \cup Of(m, s) /\ Of(F, s) \cap Of(m, s) = {}
        /\ Of(F, s) \subseteq F /\ Of(m, s) \subseteq m
    BY <1>1 DEF Of
  <2>2. IsFiniteSet(Of(F, s)) /\ IsFiniteSet(Of(m, s))
    BY <1>2, <2>1, FS_Subset
  <2>3. SumOver(Lots, Of(F, s) \cup Of(m, s)) = SumOver(Lots, Of(F, s)) + SumOver(Lots, Of(m, s))
    BY <1>1, <1>3, <2>1, <2>2, SumUnion
  <2>4. pos[s] = SumOver(Lots, Of(F, s)) /\ pos2[s] = pos[s] + SumOver(Lots, Of(m, s))
    BY DEF BookedAs, Fill, F
  <2> QED BY <2>1, <2>3, <2>4
<1>9. Full(obj2) = F \cup m
  BY DEF Fill, F
<1> QED BY <1>7, <1>8, <1>9 DEF BookedAs, new

-----------------------------------------------------------------------------
(* A landing that fills nothing leaves the books alone, one that fills     *)
(* books the order.                                                        *)
LEMMA LandsBooked ==
  ASSUME PaperInvariant, BooksBalance, NEW a \in Attempts, NEW r, NEW kept \in BOOLEAN,
         Lands(a, r, kept), r.state # "FILLED", UNCHANGED <<cash, position>>
  PROVE  BooksBalance'
<1>1. object[a].state = "PENDING_NEW" /\ object \in [Attempts -> OrderRecords]
      /\ object' \in [Attempts -> OrderRecords]
  BY LandsSafely DEF PaperInvariant, PaperTyped, Acknowledges, Lands
<1>2. \A b \in Attempts : object'[b] = IF b = a THEN r ELSE object[b]
  BY <1>1 DEF Lands
<1>3. Full(object') = Full(object) \cup {}
  BY <1>1, <1>2 DEF Full
<1>4. \A s : Of({}, s) = {}
  BY DEF Of
<1>5. Fill({}, object, object', cash, cash', position, position')
  <2>1. cash \in Int /\ \A s \in Symbols : position[s] \in Int
    BY DEF PaperInvariant, PaperTyped
  <2>2. \A b \in Full(object) : object'[b] = object[b]
    BY <1>1, <1>2 DEF Full
  <2>3. SumOver(Flows(object'), {}) = 0 /\ SumOver(Lots, {}) = 0
    BY SumEmpty
  <2> QED BY <1>3, <1>4, <2>1, <2>2, <2>3 DEF Fill
<1> QED BY <1>1, <1>5, BalanceIs, FillBooked

(* An immediate fill books itself.                                         *)
LEMMA FillLandsBooked ==
  ASSUME PaperInvariant, BooksBalance, NEW a \in Attempts, SubmitFill(a)
  PROVE  BooksBalance'
<1> DEFINE p == FillPrice(a)
<1>1. Lands(a, Done(a, p), TRUE) /\ p \in Nat
  BY FillLands
<1>2. /\ cash' = cash + CashFlow(a, p)
      /\ position' = [position EXCEPT ![OrderOf[a].symbol] = @ + SignedQuantity(a)]
  BY DEF SubmitFill
<1> HIDE DEF p
<1>3. object[a].state = "PENDING_NEW" /\ object \in [Attempts -> OrderRecords]
      /\ object' \in [Attempts -> OrderRecords]
  BY <1>1, LandsSafely DEF PaperInvariant, PaperTyped, Acknowledges, Lands
<1>4. \A b \in Attempts : object'[b] = IF b = a THEN Done(a, p) ELSE object[b]
  BY <1>1, <1>3 DEF Lands
<1>5. Full(object') = Full(object) \cup {a}
  BY <1>3, <1>4, DoneIs DEF Full
<1>6. SumOver(Flows(object'), {a}) = CashFlow(a, p)
  <2>1. Flows(object')[a] = CashFlow(a, p)
    BY <1>1, <1>4, FilledIn DEF Flows
  <2>2. CashFlow(a, p) \in Int
    BY <1>1, FlowTyped
  <2> QED BY <2>1, <2>2, SumOne
<1>7. ASSUME NEW s \in Symbols PROVE position'[s] = position[s] + SumOver(Lots, Of({a}, s))
  <2>1. position \in [Symbols -> Int] /\ OrderOf[a].symbol \in Symbols /\ SignedQuantity(a) \in Int
    BY <1>1, FlowTyped, QuantityPositive DEF PaperInvariant, PaperTyped
  <2>2. CASE s = OrderOf[a].symbol
    <3>1. Of({a}, s) = {a} /\ Lots[a] = SignedQuantity(a)
      BY <2>2 DEF Of, Lots
    <3>2. SumOver(Lots, {a}) = SignedQuantity(a)
      BY <2>1, <3>1, SumOne
    <3>3. position'[s] = position[s] + SignedQuantity(a)
      BY <1>2, <2>1, <2>2
    <3>4. SumOver(Lots, Of({a}, s)) = SignedQuantity(a)
      BY <3>1, <3>2
    <3> QED BY <3>3, <3>4
  <2>3. CASE s # OrderOf[a].symbol
    <3>1. Of({a}, s) = {}
      BY <2>3 DEF Of
    <3>2. SumOver(Lots, Of({a}, s)) = 0
      BY <3>1, SumEmpty
    <3>3. position'[s] = position[s] /\ position[s] \in Int
      BY <1>2, <2>1, <2>3
    <3> QED BY <3>2, <3>3
  <2> QED BY <2>2, <2>3
<1>8. Fill({a}, object, object', cash, cash', position, position')
  <2>1. \A b \in Full(object) : object'[b] = object[b]
    BY <1>3, <1>4 DEF Full
  <2> QED BY <1>2, <1>3, <1>5, <1>6, <1>7, <2>1 DEF Fill
<1> QED BY <1>3, <1>8, BalanceIs, FillBooked

(* A cancel books nothing.                                                 *)
LEMMA CancelBooked ==
  ASSUME PaperInvariant, BooksBalance, NEW id \in Ids, LandCancel(id)
  PROVE  BooksBalance'
<1>1. PICK b \in Attempts : Ends({b}, [a \in {b} |-> Bare(a, "CANCELLED")])
  BY CancelEnds
<1>2. object \in [Attempts -> OrderRecords] /\ object' \in [Attempts -> OrderRecords]
  BY <1>1, EndsSafely DEF PaperInvariant, PaperTyped
<1>3. object'[b] = Bare(b, "CANCELLED") /\ \A a \in Attempts \ {b} : object'[a] = object[a]
  <2>1. [a \in {b} |-> Bare(a, "CANCELLED")][b] = Bare(b, "CANCELLED")
    OBVIOUS
  <2> QED BY <1>1, <2>1 DEF Ends
<1>4. object[b].state # "FILLED" /\ object'[b].state # "FILLED"
  BY <1>1, <1>3, BareIs DEF Ends, IsTerminal, TerminalStates
<1>5. Full(object') = Full(object) \cup {}
  BY <1>2, <1>3, <1>4 DEF Full
<1>6. cash' = cash /\ position' = position
  BY DEF LandCancel, paperAccount
<1>7. Fill({}, object, object', cash, cash', position, position')
  <2>1. cash \in Int /\ \A s \in Symbols : position[s] \in Int
    BY DEF PaperInvariant, PaperTyped
  <2>2. \A a \in Full(object) : object'[a] = object[a]
    BY <1>2, <1>3, <1>4 DEF Full
  <2>3. SumOver(Flows(object'), {}) = 0 /\ SumOver(Lots, {}) = 0
    BY SumEmpty
  <2>4. \A s : Of({}, s) = {}
    BY DEF Of
  <2> QED BY <1>5, <1>6, <2>1, <2>2, <2>3, <2>4 DEF Fill
<1> QED BY <1>2, <1>7, BalanceIs, FillBooked

(* A tick books every order it fills, at one price, in one symbol.         *)
LEMMA TickBooked ==
  ASSUME PaperInvariant, BooksBalance, NEW s \in Symbols, NEW p \in PaperPrices,
         SetMarketPrice(s, p)
  PROVE  BooksBalance'
<1> DEFINE m == TickMatched(s, p)
           tick == p * Unit
           n == [a \in Attempts |-> Done(a, tick)]
           flow == [a \in Attempts |-> CashFlow(a, tick)]
<1>1. Ends(m, n) /\ tick \in Nat
  BY TickEnds
<1>2. /\ cash' = cash + SumFunctionOnSet(flow, m)
      /\ position' = [position EXCEPT ![s] = @ + SumFunctionOnSet(Lots, m)]
  BY DEF SetMarketPrice, Lots
<1>3. \A a \in m : a \in Attempts /\ OrderOf[a].symbol = s
  BY DEF TickMatched
<1>4. \A a \in Attempts : n[a] = Done(a, tick) /\ flow[a] = CashFlow(a, tick)
  OBVIOUS
<1> HIDE DEF m, n, tick, flow
<1>5. object \in [Attempts -> OrderRecords] /\ object' \in [Attempts -> OrderRecords]
  BY <1>1, EndsSafely DEF PaperInvariant, PaperTyped
<1>6. \A a \in Attempts : object'[a] = IF a \in m THEN Done(a, tick) ELSE object[a]
  BY <1>1, <1>4 DEF Ends
<1>7. \A a \in m : object[a].state # "FILLED"
  BY <1>1 DEF Ends, IsTerminal, TerminalStates
<1>8. Full(object') = Full(object) \cup m
  BY <1>3, <1>5, <1>6, DoneIs DEF Full
<1>9. IsFiniteSet(m)
  BY <1>3, AttemptsAssumption, FS_Subset
<1>10. SumFunctionOnSet(flow, m) = SumOver(Flows(object'), m)
  <2>1. \A a \in m : flow[a] \in Int /\ Flows(object')[a] = flow[a]
    <3> SUFFICES ASSUME NEW a \in m PROVE flow[a] \in Int /\ Flows(object')[a] = flow[a]
      OBVIOUS
    <3>1. a \in Attempts /\ flow[a] = CashFlow(a, tick) /\ object'[a] = Done(a, tick)
      BY <1>3, <1>4, <1>6
    <3>2. Flows(object')[a] = ProceedsOf(Done(a, tick), a)
      BY <3>1 DEF Flows
    <3> QED BY <1>1, <3>1, <3>2, FilledIn, FlowTyped
  <2> QED BY <1>9, <2>1, SumAgrees, SumOnSet
<1>11. ASSUME NEW z \in Symbols PROVE position'[z] = position[z] + SumOver(Lots, Of(m, z))
  <2>1. position \in [Symbols -> Int]
    BY DEF PaperInvariant, PaperTyped
  <2>2. CASE z = s
    <3>1. Of(m, z) = m
      BY <1>3, <2>2 DEF Of
    <3> QED BY <1>2, <2>1, <2>2, <3>1, SumOnSet
  <2>3. CASE z # s
    <3>1. Of(m, z) = {} /\ SumOver(Lots, {}) = 0
      BY <1>3, <2>3, SumEmpty DEF Of
    <3>2. position'[z] = position[z] /\ position[z] \in Int
      BY <1>2, <2>1, <2>3
    <3> QED BY <3>1, <3>2
  <2> QED BY <2>2, <2>3
<1>12. Fill(m, object, object', cash, cash', position, position')
  <2>1. \A a \in Full(object) : object'[a] = object[a]
    BY <1>6, <1>7 DEF Full
  <2>2. m \subseteq Attempts
    BY <1>3
  <2> QED BY <1>2, <1>7, <1>8, <1>10, <1>11, <2>1, <2>2 DEF Fill
<1> QED BY <1>5, <1>12, BalanceIs, FillBooked

(* An empty book balances.                                                 *)
LEMMA PaperStartsBalanced == PaperInit => BooksBalance
<1> SUFFICES ASSUME PaperInit PROVE BooksBalance
  OBVIOUS
<1>1. Full(object) = {}
  <2>1. \A a \in Attempts : object[a].state = "PENDING_NEW"
    BY DEF PaperInit, NewOrder
  <2> QED BY <2>1 DEF Full
<1>2. \A s : Of({}, s) = {}
  BY DEF Of
<1>3. SumOver(Flows(object), {}) = 0 /\ SumOver(Lots, {}) = 0
  BY SumEmpty
<1>4. BookedAs(object, cash, position)
  <2>1. cash = InitialBalance /\ InitialBalance \in Nat /\ \A s \in Symbols : position[s] = 0
    BY RatesAssumption DEF PaperInit
  <2> QED BY <1>1, <1>2, <1>3, <2>1 DEF BookedAs
<1> QED BY <1>4, BalanceIs

(* Every step keeps cash and positions equal to what the filled orders     *)
(* brought in.                                                             *)
LEMMA PaperStaysBalanced ==
  PaperInvariant /\ BooksBalance /\ [PaperNext]_paperVars => BooksBalance'
<1> SUFFICES ASSUME PaperInvariant, BooksBalance, [PaperNext]_paperVars PROVE BooksBalance'
  OBVIOUS
<1>0. UNCHANGED <<object, cash, position>> => BooksBalance'
  BY BalanceIs
<1>1. CASE UNCHANGED paperVars
  BY <1>0, <1>1 DEF paperVars, paperAccount
<1>2. CASE \E op \in {"connect", "disconnect"} : CallLink(op) \/ LandLink(op)
  BY <1>0, <1>2 DEF CallLink, LandLink, paperAccount
<1>3. ASSUME NEW a \in Attempts, CallSubmit(a) \/ SubmitDuplicate(a) \/ SubmitMarginFailure(a)
      PROVE  BooksBalance'
  BY <1>0, <1>3 DEF CallSubmit, SubmitDuplicate, SubmitMarginFailure, Rollback, paperAccount
<1>4. ASSUME NEW a \in Attempts, SubmitUnpricedSell(a) PROVE BooksBalance'
  <2>1. Lands(a, Bare(a, "NEW"), FALSE)
    BY <1>4, UnpricedLands
  <2>2. cash' = cash /\ position' = position /\ Bare(a, "NEW").state # "FILLED"
    BY <1>4, BareIs DEF SubmitUnpricedSell, Rollback, paperAccount
  <2> QED BY <2>1, <2>2, LandsBooked
<1>5. ASSUME NEW a \in Attempts, SubmitFill(a) PROVE BooksBalance'
  BY <1>5, FillLandsBooked
<1>6. ASSUME NEW a \in Attempts, SubmitRest(a) PROVE BooksBalance'
  <2>1. Lands(a, Bare(a, "NEW"), TRUE)
    BY <1>6, RestLands
  <2>2. cash' = cash /\ position' = position /\ Bare(a, "NEW").state # "FILLED"
    BY <1>6, BareIs DEF SubmitRest, paperAccount
  <2> QED BY <2>1, <2>2, LandsBooked
<1>7. ASSUME NEW id \in Ids, CallCancel(id) \/ CancelTooLate(id) PROVE BooksBalance'
  BY <1>0, <1>7 DEF CallCancel, CancelTooLate, paperAccount
<1>8. ASSUME NEW id \in Ids, LandCancel(id) PROVE BooksBalance'
  BY <1>8, CancelBooked
<1>9. ASSUME NEW s \in Symbols, NEW p \in PaperPrices, SetMarketPrice(s, p) PROVE BooksBalance'
  BY <1>9, TickBooked
<1> QED
  BY <1>1, <1>2, <1>3, <1>4, <1>5, <1>6, <1>7, <1>8, <1>9 DEF PaperNext

(* Every filled order traded within its limit.                             *)
LEMMA LimitsKept == PaperInvariant => LimitsRespected
<1> SUFFICES ASSUME PaperInvariant, NEW a \in FilledAttempts, ~IsMarket(a)
             PROVE  IF IsBuy(a) THEN object[a].quote <= Limit(a) * OrderOf[a].quantity
                    ELSE object[a].quote >= Limit(a) * OrderOf[a].quantity
  BY DEF LimitsRespected
<1>1. a \in Attempts /\ object[a].state = "FILLED"
  BY DEF FilledAttempts
<1>2. PICK p \in Nat : WithinLimit(a, p) /\ object[a] = Done(a, p)
  <2>1. ~IsBare(object[a], a)
    BY <1>1, BareIs DEF IsBare
  <2> QED BY <1>1, <2>1 DEF PaperInvariant, PaperShape, IsFilled
<1> DEFINE q == OrderOf[a].quantity
           l == Limit(a)
<1>3. object[a].quote = p * q
  BY <1>2, DoneIs
<1>4. q \in Nat /\ l \in Nat
  <2>1. OrderOf[a].price \in Nat
    BY <1>1, AttemptsAssumption DEF IsMarket
  <2> QED BY <1>1, <2>1, QuantityPositive, RatesAssumption DEF Limit
<1>5. IF IsBuy(a) THEN p <= l ELSE p >= l
  BY <1>2 DEF WithinLimit
<1> HIDE DEF q, l
<1>6. (p <= l => p * q <= l * q) /\ (p >= l => p * q >= l * q)
  BY <1>4
<1> QED BY <1>3, <1>5, <1>6 DEF q, l

(* The invariant implies the type invariant of the runs.                   *)
LEMMA TypesKept == PaperInvariant => PaperTypeOK
<1> SUFFICES ASSUME PaperInvariant PROVE PaperTypeOK
  OBVIOUS
<1>1. \A a \in Attempts : object[a].state \in OrderStates /\ object[a].filled \in 0..OrderOf[a].quantity
  BY ShapedIsRecord DEF PaperInvariant, PaperShape, OrderStates
<1> QED BY <1>1 DEF PaperInvariant, PaperTyped, PaperTypeOK, Routers

(* A BUY that fills on submission costs what the margin check estimated.   *)
LEMMA FillFunded ==
  ASSUME PaperInvariant, NEW a \in Attempts, SubmitFill(a), cash' < cash
  PROVE  cash' >= 0
<1> DEFINE p == FillPrice(a)
           n == p * OrderOf[a].quantity
<1>1. p \in Nat
  BY FillLands
<1>2. cash' = cash + CashFlow(a, p) /\ ~MarginFails(a) /\ Marketable(a) /\ Market(a) # None
  BY DEF SubmitFill
<1>3. cash \in Int /\ OrderOf[a].quantity \in Nat
  BY QuantityPositive DEF PaperInvariant, PaperTyped
<1>4. IsBuy(a) => RequiredPower(a) <= cash
  <2>1. ~(IsMarket(a) /\ Market(a) = None)
    BY <1>2
  <2>2. RequiredPower(a) \in Int
    <3>1. RequiredPower(a) = n * (Unit + FeeBps)
      BY <1>2 DEF RequiredPower
    <3>2. n \in Nat
      BY <1>1, <1>3
    <3> HIDE DEF n
    <3> QED BY <3>1, <3>2, RatesAssumption
  <2> QED BY <1>2, <1>3, <2>1, <2>2 DEF MarginFails
<1>5. n \in Nat
  BY <1>1, <1>3
<1>6. CashFlow(a, p) = IF IsBuy(a) THEN -(n * (Unit + FeeBps)) ELSE n * (Unit - FeeBps)
  BY DEF CashFlow
<1>7. RequiredPower(a) = n * (Unit + FeeBps)
  BY <1>2 DEF RequiredPower
<1> HIDE DEF p, n
<1>8. n * (Unit + FeeBps) \in Nat /\ n * (Unit - FeeBps) \in Nat
  BY <1>5, RatesAssumption
<1>9. CASE IsBuy(a)
  BY <1>2, <1>3, <1>4, <1>6, <1>7, <1>8, <1>9
<1>10. CASE ~IsBuy(a)
  BY <1>2, <1>3, <1>6, <1>8, <1>10
<1> QED BY <1>9, <1>10

(* No step that ends a submission leaves a cash balance below zero by      *)
(* spending.                                                               *)
LEMMA StepFunded ==
  PaperInvariant /\ [PaperNext]_paperVars
    => [submitting' # submitting /\ cash' < cash => cash' >= 0]_paperVars
<1> SUFFICES ASSUME PaperInvariant, PaperNext, submitting' # submitting, cash' < cash
             PROVE  cash' >= 0
  BY DEF paperVars, link, paperAccount
<1>0. cash \in Int /\ (cash' = cash => FALSE)
  BY DEF PaperInvariant, PaperTyped
<1>1. ASSUME \E op \in {"connect", "disconnect"} : CallLink(op) \/ LandLink(op) PROVE FALSE
  BY <1>0, <1>1 DEF CallLink, LandLink, paperAccount
<1>2. ASSUME NEW a \in Attempts, \/ CallSubmit(a) \/ SubmitDuplicate(a) \/ SubmitMarginFailure(a)
                                 \/ SubmitUnpricedSell(a) \/ SubmitRest(a)
      PROVE  FALSE
  BY <1>0, <1>2
     DEF CallSubmit, SubmitDuplicate, SubmitMarginFailure, SubmitUnpricedSell, SubmitRest,
         Rollback, paperAccount
<1>3. ASSUME NEW id \in Ids, CallCancel(id) \/ LandCancel(id) \/ CancelTooLate(id) PROVE FALSE
  BY <1>0, <1>3 DEF CallCancel, LandCancel, CancelTooLate, paperAccount
<1>4. ASSUME NEW s \in Symbols, NEW p \in PaperPrices, SetMarketPrice(s, p) PROVE FALSE
  BY <1>4 DEF SetMarketPrice
<1>5. ASSUME NEW a \in Attempts, SubmitFill(a) PROVE cash' >= 0
  BY <1>5, FillFunded
<1> QED BY <1>1, <1>2, <1>3, <1>4, <1>5 DEF PaperNext

(* Cash and positions are what the filled orders brought in, every fill    *)
(* respects its limit, registry and router agree, and a BUY filled on      *)
(* submission was funded: for any attempts, ids, prices, fees and          *)
(* interleaving of submissions, cancels and ticks.                         *)
THEOREM PaperAccountSoundHolds == PaperSpec => PaperAccountSound
<1>1. PaperInit => PaperInvariant /\ BooksBalance
  BY PaperStarts, PaperStartsBalanced
<1>2. (PaperInvariant /\ BooksBalance) /\ [PaperNext]_paperVars => (PaperInvariant /\ BooksBalance)'
  BY PaperMoves, PaperStaysBalanced
<1>3. PaperInvariant => RegistryCoherent /\ PaperTypeOK /\ LimitsRespected
  BY TypesKept, LimitsKept DEF PaperInvariant
<1> QED BY <1>1, <1>2, <1>3, StepFunded, PTL
        DEF PaperSpec, PaperAccountSound, ImmediateFillsFunded

-----------------------------------------------------------------------------
(* The router remembers every id the gateway took on, while it has room    *)
(* for all of them.                                                        *)
Remembers ==
  /\ Keeps(router)
  /\ \A a \in Attempts : TakenOn(a) => Id(a) \in Remembered(router)

(* The ring of closed ids has room for every id.                           *)
Fits == Cardinality(Ids) <= Capacity

(* Opening and closing a new id remembers it.                              *)
LEMMA RegisteredKept ==
  ASSUME NEW rt \in Routers, NEW id \in Ids, Fits, Keeps(rt), ~IsDuplicate(rt, id)
  PROVE  /\ Keeps(Deregister(Register(rt, id), id))
         /\ Remembered(Deregister(Register(rt, id), id)) = Remembered(rt) \cup {id}
<1>1. /\ Register(rt, id) \in Routers /\ Keeps(Register(rt, id))
      /\ Remembered(Register(rt, id)) = Remembered(rt) \cup {id}
  BY RegisterTyped, RegisterKeeps
<1> QED BY <1>1, DeregisterKeeps DEF Fits

(* A landing that was no duplicate is the first of its id.                 *)
LEMMA FirstOfItsId ==
  ASSUME PaperInvariant, Remembers, NoDoubleExecution, NEW a \in Attempts, NEW r,
         NEW kept \in BOOLEAN, Lands(a, r, kept),
         Keeps(router'), Remembered(router') = Remembered(router) \cup {Id(a)}
  PROVE  Remembers' /\ NoDoubleExecution'
<1>1. Id(a) \notin Remembered(router)
  BY DEF Lands, IsRefused, IsDuplicate, Remembered
<1>2. \A b \in Attempts : object'[b] = IF b = a THEN r ELSE object[b]
  BY DEF PaperInvariant, PaperTyped, Lands
<1>3. \A b \in Attempts : b # a /\ InReg(registry', b) => InReg(registry, b)
  BY DEF Lands
<1>4. ASSUME NEW b \in Attempts, TakenOn(b)', b # a
      PROVE  TakenOn(b) /\ Id(b) \in Remembered(router) /\ Id(b) # Id(a)
  <2>1. TakenOn(b)
    BY <1>2, <1>3, <1>4 DEF TakenOn, Registered, InReg
  <2> QED BY <1>1, <2>1 DEF Remembers
<1>5. Remembers'
  <2>1. \A b \in Attempts : TakenOn(b)' => Id(b) \in Remembered(router')
    <3> SUFFICES ASSUME NEW b \in Attempts, TakenOn(b)' PROVE Id(b) \in Remembered(router')
      OBVIOUS
    <3>1. CASE b = a
      BY <3>1
    <3>2. CASE b # a
      BY <1>4, <3>2
    <3> QED BY <3>1, <3>2
  <2> QED BY <2>1 DEF Remembers
<1>6. NoDoubleExecution'
  <2>1. ASSUME NEW b \in Attempts, NEW c \in Attempts, TakenOn(b)', TakenOn(c)', Id(b) = Id(c)
        PROVE  b = c
    <3>1. CASE b = a \/ c = a
      BY <1>4, <2>1, <3>1
    <3>2. CASE b # a /\ c # a
      <4>1. TakenOn(b) /\ TakenOn(c)
        BY <1>4, <2>1, <3>2
      <4> QED BY <2>1, <4>1 DEF NoDoubleExecution
    <3> QED BY <3>1, <3>2
  <2> QED BY <2>1 DEF NoDoubleExecution
<1> QED BY <1>5, <1>6

(* What is taken on stays so, and nothing is added.                        *)
LEMMA NoneNew ==
  ASSUME Remembers, NoDoubleExecution, Keeps(router'), Remembered(router') = Remembered(router),
         \A a \in Attempts : TakenOn(a)' => TakenOn(a)
  PROVE  Remembers' /\ NoDoubleExecution'
BY DEF Remembers, NoDoubleExecution

(* Ending resting orders takes on no attempt.                              *)
LEMMA EndsRemembered ==
  ASSUME PaperInvariant, Remembers, NoDoubleExecution, NEW m, NEW n, Ends(m, n),
         Keeps(router'), Remembered(router') = Remembered(router)
  PROVE  Remembers' /\ NoDoubleExecution'
<1>1. ASSUME NEW a \in Attempts, TakenOn(a)' PROVE TakenOn(a)
  <2>1. CASE a \in m
    <3>1. InReg(registry, a) /\ ~IsTerminal(object[a])
      BY <2>1 DEF Ends
    <3>2. object[a].state = "NEW"
      BY <3>1, Resting, BareIs
    <3> QED BY <3>1, <3>2 DEF TakenOn, Registered, InReg
  <2>2. CASE a \notin m
    <3>1. object'[a] = object[a] /\ registry' = registry
      BY <2>2 DEF Ends
    <3> QED BY <1>1, <3>1 DEF TakenOn, Registered
  <2> QED BY <2>1, <2>2
<1> QED BY <1>1, NoneNew

NothingTwice == Remembers /\ NoDoubleExecution

(* Every step preserves that all ids taken on are remembered, and one      *)
(* attempt to an id.                                                       *)
LEMMA PaperRemembers ==
  ASSUME Fits, PaperInvariant, NothingTwice, [PaperNext]_paperVars
  PROVE  NothingTwice'
<1>0. UNCHANGED <<object, registry, router>> => NothingTwice'
  BY DEF NothingTwice, Remembers, NoDoubleExecution, TakenOn, Registered
<1>b. Remembers /\ NoDoubleExecution
  BY DEF NothingTwice
<1>a. router \in Routers /\ registry \in Seq(Attempts) /\ Keeps(router)
  BY DEF PaperInvariant, PaperTyped, Remembers, NothingTwice
<1>1. CASE UNCHANGED paperVars
  BY <1>0, <1>1 DEF paperVars
<1>2. CASE \E op \in {"connect", "disconnect"} : CallLink(op) \/ LandLink(op)
  BY <1>0, <1>2 DEF CallLink, LandLink
<1>3. ASSUME NEW a \in Attempts, CallSubmit(a) \/ SubmitDuplicate(a) PROVE NothingTwice'
  BY <1>0, <1>3 DEF CallSubmit, SubmitDuplicate
<1>4. ASSUME NEW a \in Attempts, ~IsRefused(a),
             router' = Deregister(Register(router, Id(a)), Id(a)) \/ router' = Register(router, Id(a))
      PROVE  Keeps(router') /\ Remembered(router') = Remembered(router) \cup {Id(a)}
  BY <1>4, <1>a, RegisteredKept, RegisterKeeps, QuantityPositive DEF IsRefused
<1>5. ASSUME NEW a \in Attempts, SubmitMarginFailure(a) PROVE NothingTwice'
  <2>1. Lands(a, Bare(a, "PENDING_NEW"), FALSE)
    BY <1>5, FailureLands
  <2>2. Keeps(router') /\ Remembered(router') = Remembered(router) \cup {Id(a)}
    BY <1>4, <1>5 DEF SubmitMarginFailure, Rollback
  <2> QED BY <1>b, <2>1, <2>2, FirstOfItsId DEF NothingTwice
<1>6. ASSUME NEW a \in Attempts, SubmitUnpricedSell(a) PROVE NothingTwice'
  <2>1. Lands(a, Bare(a, "NEW"), FALSE)
    BY <1>6, UnpricedLands
  <2>2. Keeps(router') /\ Remembered(router') = Remembered(router) \cup {Id(a)}
    BY <1>4, <1>6 DEF SubmitUnpricedSell, Rollback
  <2> QED BY <1>b, <2>1, <2>2, FirstOfItsId DEF NothingTwice
<1>7. ASSUME NEW a \in Attempts, SubmitFill(a) PROVE NothingTwice'
  <2>1. Lands(a, Done(a, FillPrice(a)), TRUE)
    BY <1>7, FillLands
  <2>2. Keeps(router') /\ Remembered(router') = Remembered(router) \cup {Id(a)}
    BY <1>4, <1>7 DEF SubmitFill
  <2> QED BY <1>b, <2>1, <2>2, FirstOfItsId DEF NothingTwice
<1>8. ASSUME NEW a \in Attempts, SubmitRest(a) PROVE NothingTwice'
  <2>1. Lands(a, Bare(a, "NEW"), TRUE)
    BY <1>8, RestLands
  <2>2. Keeps(router') /\ Remembered(router') = Remembered(router) \cup {Id(a)}
    BY <1>4, <1>8 DEF SubmitRest
  <2> QED BY <1>b, <2>1, <2>2, FirstOfItsId DEF NothingTwice
<1>9. ASSUME NEW id \in Ids, CallCancel(id) \/ CancelTooLate(id) PROVE NothingTwice'
  BY <1>0, <1>9 DEF CallCancel, CancelTooLate
<1>10. ASSUME NEW id \in Ids, LandCancel(id) PROVE NothingTwice'
  <2>1. PICK b \in Attempts : /\ router' = Deregister(router, id)
                              /\ Ends({b}, [a \in {b} |-> Bare(a, "CANCELLED")])
    BY <1>10, CancelEnds
  <2>2. Keeps(router') /\ Remembered(router') = Remembered(router)
    BY <1>a, <2>1, DeregisterKeeps DEF Fits
  <2> QED BY <1>b, <2>1, <2>2, EndsRemembered DEF NothingTwice
<1>11. ASSUME NEW s \in Symbols, NEW p \in PaperPrices, SetMarketPrice(s, p) PROVE NothingTwice'
  <2>1. /\ Ends(TickMatched(s, p), [a \in Attempts |-> Done(a, p * Unit)])
        /\ router' = TickRouter(router, registry, TickMatched(s, p))
    BY <1>11, TickEnds
  <2>2. Keeps(router') /\ Remembered(router') = Remembered(router)
    BY <1>a, <2>1, TickEffect DEF Fits
  <2> QED BY <1>b, <2>1, <2>2, EndsRemembered DEF NothingTwice
<1> QED
  BY <1>1, <1>2, <1>3, <1>5, <1>6, <1>7, <1>8, <1>9, <1>10, <1>11 DEF PaperNext

(* Nothing is taken on at the start.                                       *)
LEMMA PaperStartsRemembering == PaperInit => Remembers /\ NoDoubleExecution
<1> SUFFICES ASSUME PaperInit PROVE Remembers /\ NoDoubleExecution
  OBVIOUS
<1>1. \A a \in Attempts : ~TakenOn(a)
  BY DEF PaperInit, NewOrder, TakenOn, Registered
<1>2. Keeps(router)
  BY FS_EmptySet DEF PaperInit, EmptyRouter, Keeps
<1> QED BY <1>1, <1>2 DEF Remembers, NoDoubleExecution

(* However often an id is submitted, at most one attempt with it is taken  *)
(* on, as long as the ring of closed ids is large enough to forget none of *)
(* them (the code's 10000): beyond it the same id is accepted again, as    *)
(* the code says of its window.                                            *)
THEOREM NoDoubleExecutionHolds ==
  ASSUME Fits PROVE PaperSpec => []NoDoubleExecution
<1>1. PaperInit => PaperInvariant /\ NothingTwice
  BY PaperStarts, PaperStartsRemembering DEF NothingTwice
<1>2. (PaperInvariant /\ NothingTwice) /\ [PaperNext]_paperVars => (PaperInvariant /\ NothingTwice)'
  BY PaperMoves, PaperRemembers
<1>3. NothingTwice => NoDoubleExecution
  BY DEF NothingTwice
<1> QED BY <1>1, <1>2, <1>3, PTL DEF PaperSpec

-----------------------------------------------------------------------------
(* Lots.                                                                   *)
LotSet == [id : FillIds, side : {-1, 1}, opened : Nat, original : Nat \ {0},
           remaining : Nat, cost : Nat \ {0}]

Remaining(lots) == [i \in DOMAIN lots |-> lots[i].remaining]

(* The parts of a list of lots.                                            *)
LEMMA LotsTyped ==
  ASSUME NEW lots \in Seq(LotSet)
  PROVE  /\ DOMAIN lots = 1..Len(lots) /\ Len(lots) \in Nat /\ IsFiniteSet(DOMAIN lots)
         /\ \A i \in DOMAIN lots :
              /\ lots[i] \in LotSet /\ i \in Nat
              /\ lots[i].id \in FillIds /\ lots[i].side \in {-1, 1} /\ lots[i].opened \in Nat
              /\ lots[i].original \in Nat \ {0} /\ lots[i].remaining \in Nat /\ lots[i].cost \in Nat \ {0}
<1>1. DOMAIN lots = 1..Len(lots) /\ Len(lots) \in Nat /\ \A i \in DOMAIN lots : lots[i] \in LotSet
  BY LenProperties, ElementOfSeq
<1>2. \A i \in DOMAIN lots :
        /\ lots[i].id \in FillIds /\ lots[i].side \in {-1, 1} /\ lots[i].opened \in Nat
        /\ lots[i].original \in Nat \ {0} /\ lots[i].remaining \in Nat /\ lots[i].cost \in Nat \ {0}
  BY <1>1 DEF LotSet
<1>3. IsFiniteSet(DOMAIN lots)
  BY <1>1, FS_Interval
<1> QED BY <1>1, <1>2, <1>3

(* The open quantity of some lots is a sum, and grows with them.           *)
LEMMA QuantityIs ==
  ASSUME NEW lots \in Seq(LotSet), NEW I \in SUBSET DOMAIN lots
  PROVE  /\ QuantityOf(lots, I) = SumOver(Remaining(lots), I)
         /\ QuantityOf(lots, I) \in Nat /\ IsFiniteSet(I)
         /\ \A J \in SUBSET I : QuantityOf(lots, J) <= QuantityOf(lots, I)
<1>1. IsFiniteSet(I) /\ \A i \in I : Remaining(lots)[i] \in Nat
  BY LotsTyped, FS_Subset DEF Remaining
<1>2. ASSUME NEW J PROVE QuantityOf(lots, J) = SumOver(Remaining(lots), J)
  BY SumOnSet DEF QuantityOf, Remaining
<1>3. \A J \in SUBSET I : SumOver(Remaining(lots), J) <= SumOver(Remaining(lots), I)
  BY <1>1, SumOfPart
<1>4. SumOver(Remaining(lots), I) \in Nat
  BY <1>1, SumNat
<1> QED BY <1>1, <1>2, <1>3, <1>4

(* One more lot.                                                           *)
LEMMA QuantityAdd ==
  ASSUME NEW lots \in Seq(LotSet), NEW I \in SUBSET DOMAIN lots, NEW i \in I
  PROVE  QuantityOf(lots, I) = lots[i].remaining + QuantityOf(lots, I \ {i})
<1>1. IsFiniteSet(I) /\ \A j \in I : Remaining(lots)[j] \in Int
  <2>1. \A j \in DOMAIN lots : Remaining(lots)[j] \in Int
    BY LotsTyped DEF Remaining
  <2> QED BY <2>1, QuantityIs
<1>2. SumOver(Remaining(lots), I) = Remaining(lots)[i] + SumOver(Remaining(lots), I \ {i})
  BY <1>1, SumRemove
<1>3. Remaining(lots)[i] = lots[i].remaining
  BY DEF Remaining
<1> QED BY <1>2, <1>3, QuantityIs

(* The lots in the order in which a fill visits them.                      *)
Visited(lots, lifo) == {t \in (DOMAIN lots) \X (DOMAIN lots) : Before(lots, t[1], t[2], lifo)}
Ahead(lots, lifo, i) == {j \in DOMAIN lots : Before(lots, j, i, lifo)}

(* FIFO and LIFO are each a strict total order of the places in the list.  *)
LEMMA VisitOrder ==
  ASSUME NEW lots \in Seq(LotSet), NEW lifo \in BOOLEAN
  PROVE  StrictOrder(Visited(lots, lifo), DOMAIN lots)
<1>1. \A i \in DOMAIN lots : i \in Int /\ lots[i].opened \in Int
  BY LotsTyped
<1>2. \A i, j \in DOMAIN lots : <<i, j>> \in Visited(lots, lifo) <=> Before(lots, i, j, lifo)
  BY DEF Visited
<1>3. /\ \A i \in DOMAIN lots : ~Before(lots, i, i, lifo)
      /\ \A i, j \in DOMAIN lots : i # j => Before(lots, i, j, lifo) \/ Before(lots, j, i, lifo)
      /\ \A i, j, k \in DOMAIN lots :
           Before(lots, i, j, lifo) /\ Before(lots, j, k, lifo) => Before(lots, i, k, lifo)
  <2>1. CASE lifo
    <3>1. \A i, j \in DOMAIN lots : Before(lots, i, j, lifo) <=>
            \/ lots[i].opened = lots[j].opened /\ i < j
            \/ lots[i].opened > lots[j].opened
      BY <2>1 DEF Before
    <3> QED BY <1>1, <3>1
  <2>2. CASE ~lifo
    <3>1. \A i, j \in DOMAIN lots : Before(lots, i, j, lifo) <=>
            \/ lots[i].opened = lots[j].opened /\ i < j
            \/ lots[i].opened < lots[j].opened
      BY <2>2 DEF Before
    <3> QED BY <1>1, <3>1, SMTT(30)
  <2> QED BY <2>1, <2>2
<1> HIDE DEF Visited
<1> QED BY <1>2, <1>3 DEF StrictOrder

SmallerInt(a, b) == IF a <= b THEN a ELSE b

(* What the lots visited first give, together.                             *)
ClosedUnder(lots, lifo, s) == \A i \in s : Ahead(lots, lifo, i) \subseteq s
Given(lots, q, lifo) == [i \in DOMAIN lots |-> Matched(lots, q, lifo, i)]

(* What a closing fill takes of a lot, without the nested Min and Max.     *)
LEMMA MatchedIs ==
  ASSUME NEW lots \in Seq(LotSet), NEW q \in Nat, NEW lifo \in BOOLEAN, NEW i \in DOMAIN lots
  PROVE  /\ QuantityOf(lots, Ahead(lots, lifo, i)) \in Nat
         /\ Matched(lots, q, lifo, i) =
              IF q <= QuantityOf(lots, Ahead(lots, lifo, i)) THEN 0
              ELSE SmallerInt(lots[i].remaining, q - QuantityOf(lots, Ahead(lots, lifo, i)))
         /\ Matched(lots, q, lifo, i) \in 0..lots[i].remaining
<1> DEFINE a == QuantityOf(lots, Ahead(lots, lifo, i))
           r == lots[i].remaining
<1>1. a \in Nat
  <2>1. Ahead(lots, lifo, i) \in SUBSET DOMAIN lots
    BY DEF Ahead
  <2> QED BY <2>1, QuantityIs
<1>2. r \in Nat
  BY LotsTyped
<1>3. Matched(lots, q, lifo, i) = Min({r, Max({0, q - a})})
  BY DEF Matched, Ahead
<1> HIDE DEF a, r
<1>4. Max({0, q - a}) = IF 0 >= q - a THEN 0 ELSE q - a
  BY <1>1, LargerOfTwo
<1> DEFINE m == Max({0, q - a})
<1>5. m \in Nat /\ (q <= a => m = 0) /\ (~(q <= a) => m = q - a)
  BY <1>1, <1>4
<1> HIDE DEF m
<1>6. Min({r, m}) = IF r <= m THEN r ELSE m
  BY <1>2, <1>5, SmallerOfTwo
<1>7. Matched(lots, q, lifo, i) = IF r <= m THEN r ELSE m
  BY <1>3, <1>6 DEF m
<1> QED BY <1>1, <1>2, <1>5, <1>7 DEF SmallerInt, a, r

(* The lots visited before the last of a set closed under the order are    *)
(* the others of the set.                                                  *)
LEMMA LastOfClosed ==
  ASSUME NEW lots \in Seq(LotSet), NEW lifo \in BOOLEAN,
         NEW s \in SUBSET DOMAIN lots, s # {}, ClosedUnder(lots, lifo, s)
  PROVE  \E m \in s : Ahead(lots, lifo, m) = s \ {m} /\ ClosedUnder(lots, lifo, s \ {m})
<1> DEFINE R == Visited(lots, lifo)
<1>1. IsFiniteSet(s) /\ StrictOrder(R, DOMAIN lots)
  BY LotsTyped, VisitOrder, FS_Subset
<1>2. StrictOrder(R, s)
  <2> HIDE DEF R
  <2> QED BY <1>1 DEF StrictOrder
<1>3. PICK m \in s : \A a \in s : a # m => <<a, m>> \in R
  <2> HIDE DEF R
  <2> QED BY <1>1, <1>2, LastIn
<1>4. \A a \in DOMAIN lots, b \in DOMAIN lots :
        /\ <<a, b>> \in R <=> Before(lots, a, b, lifo)
        /\ a \in Ahead(lots, lifo, b) <=> <<a, b>> \in R
  BY DEF Visited, Ahead
<1>5. \A b \in s : Ahead(lots, lifo, b) \subseteq s
  BY DEF ClosedUnder
<1>6. \A b \in s : Ahead(lots, lifo, b) \subseteq DOMAIN lots
  BY DEF Ahead
<1> HIDE DEF R
<1>7. \A a \in s : <<a, a>> \notin R
  BY <1>2 DEF StrictOrder
<1>8. \A a \in s : ~(<<m, a>> \in R)
  BY <1>2, <1>3, <1>7 DEF StrictOrder
<1>9. Ahead(lots, lifo, m) = s \ {m}
  <2>1. \A a \in DOMAIN lots : a \in Ahead(lots, lifo, m) => a \in s \ {m}
    BY <1>4, <1>5, <1>7
  <2>2. \A a \in s \ {m} : a \in Ahead(lots, lifo, m)
    BY <1>3, <1>4
  <2> QED BY <1>6, <2>1, <2>2
<1>10. ClosedUnder(lots, lifo, s \ {m})
  <2>1. \A b \in s : m \notin Ahead(lots, lifo, b)
    BY <1>4, <1>8
  <2> QED BY <1>5, <2>1 DEF ClosedUnder
<1> QED BY <1>9, <1>10

(* A closing fill takes as much as it can.                                 *)
LEMMA Greedy ==
  ASSUME NEW lots \in Seq(LotSet), NEW q \in Nat, NEW lifo \in BOOLEAN
  PROVE  SumOver(Given(lots, q, lifo), DOMAIN lots) = SmallerInt(q, QuantityOf(lots, DOMAIN lots))
<1> DEFINE f == Given(lots, q, lifo)
           Takes(s) == SumOver(f, s) = SmallerInt(q, QuantityOf(lots, s))
           Good == {n \in Nat : \A s \in SUBSET DOMAIN lots :
                                  Cardinality(s) = n /\ ClosedUnder(lots, lifo, s) => Takes(s)}
<1>0. /\ IsFiniteSet(DOMAIN lots)
      /\ \A s \in SUBSET DOMAIN lots : IsFiniteSet(s) /\ Cardinality(s) \in Nat
  BY LotsTyped, FS_Subset, FS_CardinalityType
<1>1. 0 \in Good
  <2> SUFFICES ASSUME NEW s \in SUBSET DOMAIN lots, Cardinality(s) = 0 PROVE Takes(s)
    OBVIOUS
  <2>1. s = {}
    BY <1>0, FS_EmptySet
  <2>2. SumOver(f, {}) = 0 /\ SumOver(Remaining(lots), {}) = 0
    BY SumEmpty
  <2>3. QuantityOf(lots, {}) = 0
    BY <2>2, QuantityIs
  <2> HIDE DEF f
  <2> QED BY <2>1, <2>2, <2>3 DEF SmallerInt
<1>2. ASSUME NEW n \in Nat, n \in Good PROVE n + 1 \in Good
  <2> SUFFICES ASSUME NEW s \in SUBSET DOMAIN lots, Cardinality(s) = n + 1, ClosedUnder(lots, lifo, s)
               PROVE  Takes(s)
    OBVIOUS
  <2>1. s # {}
    <3>1. Cardinality({}) = 0
      BY FS_EmptySet
    <3> QED BY <3>1
  <2>2. PICK m \in s : Ahead(lots, lifo, m) = s \ {m} /\ ClosedUnder(lots, lifo, s \ {m})
    BY <2>1, LastOfClosed
  <2> DEFINE r == s \ {m}
             a == QuantityOf(lots, r)
             k == lots[m].remaining
  <2>3. r \in SUBSET DOMAIN lots /\ Cardinality(r) = n /\ m \in DOMAIN lots
    BY <1>0, SmallerBy
  <2>4. SumOver(f, r) = SmallerInt(q, a)
    BY <1>2, <2>2, <2>3
  <2>5. a \in Nat /\ k \in Nat
    BY <2>3, QuantityIs, LotsTyped
  <2>6. QuantityOf(lots, s) = k + a
    BY QuantityAdd
  <2>7. Matched(lots, q, lifo, m) = IF q <= a THEN 0 ELSE SmallerInt(k, q - a)
    <3>1. Ahead(lots, lifo, m) = r
      BY <2>2
    <3> HIDE DEF r
    <3>2. Matched(lots, q, lifo, m) =
            IF q <= QuantityOf(lots, Ahead(lots, lifo, m)) THEN 0
            ELSE SmallerInt(lots[m].remaining, q - QuantityOf(lots, Ahead(lots, lifo, m)))
      BY <2>3, MatchedIs
    <3> QED BY <3>1, <3>2
  <2>8. \A i \in DOMAIN lots : f[i] = Matched(lots, q, lifo, i) /\ f[i] \in Int
    <3>1. \A i \in DOMAIN lots : f[i] = Matched(lots, q, lifo, i)
      BY DEF Given
    <3>2. \A i \in DOMAIN lots : lots[i].remaining \in Nat
      BY LotsTyped
    <3>3. \A i \in DOMAIN lots : Matched(lots, q, lifo, i) \in 0..lots[i].remaining
      BY MatchedIs
    <3> HIDE DEF f
    <3> QED BY <3>1, <3>2, <3>3
  <2>9. SumOver(f, s) = f[m] + SumOver(f, r)
    <3> HIDE DEF f
    <3>1. IsFiniteSet(s) /\ \A x \in s : f[x] \in Int
      BY <1>0, <2>8
    <3> QED BY <3>1, SumRemove
  <2>10. f[m] = Matched(lots, q, lifo, m)
    BY <2>3, <2>8
  <2> HIDE DEF f, a, k, r
  <2> QED BY <2>4, <2>5, <2>6, <2>7, <2>9, <2>10 DEF SmallerInt
<1>3. Nat \subseteq Good
  <2> HIDE DEF Good
  <2> QED BY <1>1, <1>2, SetInduction
<1>4. ClosedUnder(lots, lifo, DOMAIN lots)
  BY DEF ClosedUnder, Ahead
<1>5. Cardinality(DOMAIN lots) \in Good
  BY <1>0, <1>3
<1> QED BY <1>0, <1>4, <1>5

(* A lot is used up before a later one is touched, and all of them are by  *)
(* a fill of their whole quantity.                                         *)
LEMMA InTurn ==
  ASSUME NEW lots \in Seq(LotSet), NEW q \in Nat, NEW lifo \in BOOLEAN
  PROVE  /\ \A i, j \in DOMAIN lots :
              Before(lots, i, j, lifo) /\ Matched(lots, q, lifo, j) > 0
                => Matched(lots, q, lifo, i) = lots[i].remaining
         /\ QuantityOf(lots, DOMAIN lots) <= q
              => \A i \in DOMAIN lots : Matched(lots, q, lifo, i) = lots[i].remaining
<1>0. StrictOrder(Visited(lots, lifo), DOMAIN lots)
  BY VisitOrder
<1>1. \A i, j \in DOMAIN lots : <<i, j>> \in Visited(lots, lifo) <=> Before(lots, i, j, lifo)
  BY DEF Visited
<1> DEFINE upTo(i) == Ahead(lots, lifo, i) \cup {i}
<1>2. ASSUME NEW i \in DOMAIN lots
      PROVE  /\ QuantityOf(lots, upTo(i)) = lots[i].remaining + QuantityOf(lots, Ahead(lots, lifo, i))
             /\ upTo(i) \in SUBSET DOMAIN lots /\ QuantityOf(lots, upTo(i)) \in Nat
  <2>1. i \notin Ahead(lots, lifo, i) /\ Ahead(lots, lifo, i) \subseteq DOMAIN lots
    BY <1>0, <1>1 DEF Ahead, StrictOrder
  <2>2. upTo(i) \in SUBSET DOMAIN lots /\ i \in upTo(i) /\ upTo(i) \ {i} = Ahead(lots, lifo, i)
    BY <2>1
  <2> HIDE DEF upTo
  <2>3. QuantityOf(lots, upTo(i)) = lots[i].remaining + QuantityOf(lots, upTo(i) \ {i})
    BY <2>2, QuantityAdd
  <2> QED BY <2>2, <2>3, QuantityIs
<1>3. ASSUME NEW i \in DOMAIN lots, QuantityOf(lots, upTo(i)) <= q
      PROVE  Matched(lots, q, lifo, i) = lots[i].remaining
  <2> DEFINE a == QuantityOf(lots, Ahead(lots, lifo, i))
             k == lots[i].remaining
  <2>1. a \in Nat /\ k \in Nat /\ Matched(lots, q, lifo, i) = IF q <= a THEN 0 ELSE SmallerInt(k, q - a)
    BY MatchedIs, LotsTyped
  <2>2. k + a <= q
    BY <1>2, <1>3
  <2> HIDE DEF a, k
  <2>3. Matched(lots, q, lifo, i) = k
    BY <2>1, <2>2 DEF SmallerInt
  <2> QED BY <2>3 DEF k
<1>4. ASSUME NEW i \in DOMAIN lots, NEW j \in DOMAIN lots, Before(lots, i, j, lifo),
             Matched(lots, q, lifo, j) > 0
      PROVE  Matched(lots, q, lifo, i) = lots[i].remaining
  <2>1. upTo(i) \subseteq Ahead(lots, lifo, j) /\ Ahead(lots, lifo, j) \in SUBSET DOMAIN lots
    <3>1. ASSUME NEW a \in Ahead(lots, lifo, i) PROVE a \in Ahead(lots, lifo, j)
      <4>1. a \in DOMAIN lots /\ Before(lots, a, i, lifo)
        BY DEF Ahead
      <4>2. <<a, i>> \in Visited(lots, lifo) /\ <<i, j>> \in Visited(lots, lifo)
        BY <1>1, <1>4, <4>1
      <4>3. <<a, j>> \in Visited(lots, lifo)
        BY <1>0, <4>1, <4>2 DEF StrictOrder
      <4> QED BY <1>1, <4>1, <4>3 DEF Ahead
    <3> QED BY <1>4, <3>1 DEF Ahead
  <2>2. QuantityOf(lots, upTo(i)) <= QuantityOf(lots, Ahead(lots, lifo, j))
    <3> HIDE DEF upTo
    <3> QED BY <2>1, QuantityIs
  <2>3. QuantityOf(lots, Ahead(lots, lifo, j)) \in Nat /\ QuantityOf(lots, Ahead(lots, lifo, j)) < q
    BY <1>4, MatchedIs, SMTT(30)
  <2>4. QuantityOf(lots, upTo(i)) <= q
    <3>1. QuantityOf(lots, upTo(i)) \in Nat
      BY <1>2
    <3> HIDE DEF upTo
    <3> QED BY <2>2, <2>3, <3>1
  <2> QED BY <1>3, <2>4
<1>5. ASSUME QuantityOf(lots, DOMAIN lots) <= q, NEW i \in DOMAIN lots
      PROVE  Matched(lots, q, lifo, i) = lots[i].remaining
  <2>1. QuantityOf(lots, upTo(i)) <= QuantityOf(lots, DOMAIN lots) /\ QuantityOf(lots, DOMAIN lots) \in Nat
    <3>1. upTo(i) \in SUBSET DOMAIN lots
      BY <1>2
    <3> HIDE DEF upTo
    <3> QED BY <3>1, QuantityIs
  <2>2. QuantityOf(lots, upTo(i)) <= q
    <3>1. QuantityOf(lots, upTo(i)) \in Nat
      BY <1>2
    <3> HIDE DEF upTo
    <3> QED BY <1>5, <2>1, <3>1
  <2> QED BY <1>3, <2>2
<1> QED BY <1>4, <1>5

(* The position, and which fills close.                                    *)
LEMMA PositionIs ==
  ASSUME NEW lots \in Seq(LotSet)
  PROVE  /\ Position(lots) \in Int
         /\ OneSided(lots) => \A side \in {-1, 1} :
              Increasing(lots, side) <=> \A i \in OpenLots(lots) : lots[i].side = side
<1> DEFINE open == OpenLots(lots)
           first == Min(open)
           q == QuantityOf(lots, open)
<1>1. open \in SUBSET DOMAIN lots /\ \A i \in open : lots[i].remaining \in Nat \ {0}
  BY LotsTyped DEF OpenLots
<1>2. CASE open = {}
  <2>1. Position(lots) = 0
    BY <1>2 DEF Position
  <2> QED BY <1>2, <2>1 DEF Increasing
<1>3. CASE open # {}
  <2>1. first \in open
    <3>1. open \subseteq Nat
      BY <1>1, LotsTyped
    <3>2. \E x \in open : \A y \in open : x <= y
      <4> HIDE DEF open
      <4> QED BY <1>3, <3>1, LeastOf
    <3> QED BY <3>2 DEF Min
  <2>2. q \in Nat \ {0}
    <3>1. q = lots[first].remaining + QuantityOf(lots, open \ {first})
      <4> HIDE DEF open, first
      <4> QED BY <1>1, <2>1, QuantityAdd DEF q
    <3>2. QuantityOf(lots, open \ {first}) \in Nat
      <4> HIDE DEF open, first
      <4> QED BY <1>1, <2>1, QuantityIs
    <3> QED BY <1>1, <2>1, <3>1, <3>2
  <2>3. Position(lots) = lots[first].side * q
    BY <1>3 DEF Position
  <2>4. lots[first].side \in {-1, 1}
    BY <1>1, <2>1, LotsTyped
  <2>5. OneSided(lots) => \A i \in open : lots[i].side = lots[first].side
    BY <2>1 DEF OneSided
  <2> DEFINE sd == lots[first].side
             p == Position(lots)
  <2> HIDE DEF open, first, q
  <2>6. p \in Int /\ \A side \in {-1, 1} : side * p >= 0 <=> side = sd
    <3>1. sd \in {-1, 1} /\ p = sd * q
      BY <2>3, <2>4
    <3> HIDE DEF sd, p
    <3> QED BY <2>2, <3>1
  <2>7. OneSided(lots) => \A side \in {-1, 1} : Increasing(lots, side) <=> \A i \in open : lots[i].side = side
    BY <2>1, <2>5, <2>6 DEF Increasing
  <2> QED BY <2>6, <2>7 DEF open
<1> QED BY <1>2, <1>3

-----------------------------------------------------------------------------
(* A fill.                                                                 *)

(* What it takes of each lot, and what is left of it.                      *)
LEMMA TakenIs ==
  ASSUME NEW lots \in Seq(LotSet), NEW side \in {-1, 1}, NEW q \in Nat \ {0}, NEW lifo \in BOOLEAN
  PROVE  /\ DOMAIN Taken(lots, side, q, lifo) = DOMAIN lots
         /\ \A i \in DOMAIN lots : Taken(lots, side, q, lifo)[i] \in 0..lots[i].remaining
         /\ Leftover(lots, side, q) \in 0..q
         /\ SumOver(Taken(lots, side, q, lifo), DOMAIN lots) + Leftover(lots, side, q) = q
<1> DEFINE all == QuantityOf(lots, DOMAIN lots)
<1>0. all \in Nat /\ IsFiniteSet(DOMAIN lots)
  BY QuantityIs
<1>1. CASE Increasing(lots, side)
  <2> DEFINE f == [i \in DOMAIN lots |-> 0]
  <2>1. Taken(lots, side, q, lifo) = f /\ Leftover(lots, side, q) = q
    BY <1>1 DEF Taken, Leftover
  <2>2. DOMAIN f = DOMAIN lots /\ \A i \in DOMAIN lots : f[i] = 0 /\ f[i] \in 0..lots[i].remaining
    BY LotsTyped
  <2> HIDE DEF f
  <2>3. SumOver(f, DOMAIN lots) = 0
    BY <1>0, <2>2, SumZero
  <2> QED BY <2>1, <2>2, <2>3
<1>2. CASE ~Increasing(lots, side)
  <2> DEFINE f == Given(lots, q, lifo)
  <2>1. Taken(lots, side, q, lifo) = f /\ Leftover(lots, side, q) = Max({0, q - all})
    BY <1>2 DEF Taken, Leftover, Given
  <2>2. DOMAIN f = DOMAIN lots /\ \A i \in DOMAIN lots : f[i] \in 0..lots[i].remaining
    BY MatchedIs DEF Given
  <2>3. SumOver(f, DOMAIN lots) = SmallerInt(q, all)
    BY Greedy
  <2> HIDE DEF f, all
  <2>4. Max({0, q - all}) = IF 0 >= q - all THEN 0 ELSE q - all
    BY <1>0, LargerOfTwo
  <2> QED BY <1>0, <2>1, <2>2, <2>3, <2>4 DEF SmallerInt
<1> QED BY <1>1, <1>2

(* The list after a fill: every lot less what was taken, and the lot that  *)
(* what is left of the fill opens, unless the engine refuses it.           *)
FillLeaves(lots, after, taken, fresh, lot) ==
  /\ after \in Seq(LotSet)
  /\ DOMAIN lots \subseteq DOMAIN after
  /\ \A i \in DOMAIN lots : after[i] = [lots[i] EXCEPT !.remaining = @ - taken[i]]
  /\ ~fresh => DOMAIN after = DOMAIN lots
  /\ fresh => /\ DOMAIN after = DOMAIN lots \cup {Len(lots) + 1}
              /\ Len(lots) + 1 \notin DOMAIN lots
              /\ after[Len(lots) + 1] = lot

Opens(lots, side, q, sh) == Leftover(lots, side, q) > 0 /\ ~Orphaned(lots, side, q, sh)

(* AfterFill leaves exactly that list.                                     *)
LEMMA FillIs ==
  ASSUME NEW lots \in Seq(LotSet), NEW c \in FillIds, NEW side \in {-1, 1}, NEW q \in Nat \ {0},
         NEW unitPrice \in Nat \ {0}, NEW time \in Nat, NEW lifo \in BOOLEAN, NEW sh \in BOOLEAN
  PROVE  FillLeaves(lots, AfterFill(lots, c, side, q, unitPrice, time, lifo, sh), Taken(lots, side, q, lifo),
              Opens(lots, side, q, sh), Lot(c, side, time, Leftover(lots, side, q), unitPrice))
<1> DEFINE taken == Taken(lots, side, q, lifo)
           left == Leftover(lots, side, q)
           lot == Lot(c, side, time, left, unitPrice)
           closed == [i \in DOMAIN lots |-> [lots[i] EXCEPT !.remaining = @ - taken[i]]]
<1>1. left \in Nat /\ \A i \in DOMAIN lots : taken[i] \in 0..lots[i].remaining
  BY TakenIs, SMTT(30)
<1>2. \A i \in DOMAIN lots : closed[i] \in LotSet
  <2> SUFFICES ASSUME NEW i \in DOMAIN lots PROVE closed[i] \in LotSet
    OBVIOUS
  <2>1. lots[i] \in LotSet /\ lots[i].remaining \in Nat
    BY LotsTyped
  <2>2. lots[i].remaining - taken[i] \in Nat
    BY <1>1, <2>1
  <2>3. closed[i] = [lots[i] EXCEPT !.remaining = lots[i].remaining - taken[i]]
    OBVIOUS
  <2> HIDE DEF closed, taken
  <2> QED BY <2>1, <2>2, <2>3 DEF LotSet
<1>3. closed \in Seq(LotSet) /\ Len(closed) = Len(lots) /\ DOMAIN closed = DOMAIN lots
  <2>1. DOMAIN lots = 1..Len(lots) /\ Len(lots) \in Nat
    BY LotsTyped
  <2>2. DOMAIN closed = 1..Len(lots)
    BY <2>1
  <2>3. closed = [i \in 1..Len(lots) |-> closed[i]]
    BY <2>2
  <2>4. closed \in [1..Len(lots) -> LotSet]
    <3> HIDE DEF closed
    <3> QED BY <1>2, <2>1, <2>3
  <2> HIDE DEF closed
  <2> QED BY <2>1, <2>2, <2>4, LenProperties, IsASeq
<1>4. AfterFill(lots, c, side, q, unitPrice, time, lifo, sh) =
        IF left = 0 \/ Orphaned(lots, side, q, sh) THEN closed ELSE Append(closed, lot)
  BY DEF AfterFill
<1>5. \A i \in DOMAIN lots : closed[i] = [lots[i] EXCEPT !.remaining = @ - taken[i]]
  OBVIOUS
<1>6. Opens(lots, side, q, sh) <=> ~(left = 0 \/ Orphaned(lots, side, q, sh))
  BY <1>1 DEF Opens
<1>7. lot = [id |-> c, side |-> side, opened |-> time, original |-> left, remaining |-> left, cost |-> unitPrice]
  BY DEF Lot
<1> HIDE DEF taken, closed
<1>8. CASE ~Opens(lots, side, q, sh)
  BY <1>3, <1>4, <1>5, <1>6, <1>8 DEF FillLeaves, taken
<1>9. CASE Opens(lots, side, q, sh)
  <2>1. left \in Nat \ {0}
    BY <1>1, <1>6, <1>9
  <2> HIDE DEF left
  <2>2. lot \in LotSet
    BY <1>7, <2>1 DEF LotSet
  <2> HIDE DEF lot
  <2> DEFINE after == Append(closed, lot)
  <2>3. Len(lots) \in Nat /\ DOMAIN lots = 1..Len(lots)
    BY LotsTyped
  <2>4. /\ after \in Seq(LotSet) /\ Len(after) = Len(lots) + 1
        /\ \A i \in 1..Len(lots) : after[i] = closed[i]
        /\ after[Len(lots) + 1] = lot
    BY <1>3, <2>2, AppendProperties
  <2> HIDE DEF after
  <2>5. DOMAIN after = 1..(Len(lots) + 1)
    BY <2>3, <2>4, LenProperties
  <2>6. /\ DOMAIN lots \subseteq DOMAIN after /\ DOMAIN after = DOMAIN lots \cup {Len(lots) + 1}
        /\ Len(lots) + 1 \notin DOMAIN lots
    BY <2>3, <2>5
  <2>7. \A i \in DOMAIN lots : after[i] = [lots[i] EXCEPT !.remaining = @ - taken[i]]
    BY <1>5, <2>3, <2>4
  <2>8. AfterFill(lots, c, side, q, unitPrice, time, lifo, sh) = after
    BY <1>4, <1>6, <1>9 DEF after
  <2>9. FillLeaves(lots, after, taken, TRUE, lot)
    BY <2>4, <2>6, <2>7 DEF FillLeaves
  <2>10. Opens(lots, side, q, sh) = TRUE
    BY <1>9 DEF Opens
  <2> QED BY <2>8, <2>9, <2>10 DEF taken, lot, left
<1> QED BY <1>8, <1>9

(* What the fill takes, it takes from lots of the other side; what it      *)
(* opens, it opens when there is none.                                     *)
LEMMA FillSides ==
  ASSUME NEW lots \in Seq(LotSet), NEW side \in {-1, 1}, NEW q \in Nat \ {0}, NEW lifo \in BOOLEAN,
         OneSided(lots)
  PROVE  /\ \A i \in DOMAIN lots : Taken(lots, side, q, lifo)[i] # 0 => lots[i].side = -side
         /\ Leftover(lots, side, q) > 0 =>
              \A i \in OpenLots(lots) : lots[i].side = side \/ Taken(lots, side, q, lifo)[i] = lots[i].remaining
<1>1. Increasing(lots, side) <=> \A i \in OpenLots(lots) : lots[i].side = side
  BY PositionIs
<1>2. CASE Increasing(lots, side)
  <2>1. \A i \in DOMAIN lots : Taken(lots, side, q, lifo)[i] = 0
    BY <1>2 DEF Taken
  <2> QED BY <1>1, <1>2, <2>1
<1>3. CASE ~Increasing(lots, side)
  <2>1. /\ Taken(lots, side, q, lifo) = [i \in DOMAIN lots |-> Matched(lots, q, lifo, i)]
        /\ Leftover(lots, side, q) = Max({0, q - QuantityOf(lots, DOMAIN lots)})
    BY <1>3 DEF Taken, Leftover
  <2>2. PICK k \in OpenLots(lots) : lots[k].side # side
    BY <1>1, <1>3
  <2>3. \A i \in OpenLots(lots) : i \in DOMAIN lots /\ lots[i].side = -side
    <3>1. \A i \in OpenLots(lots) : i \in DOMAIN lots /\ lots[i].side = lots[k].side
      BY <2>2 DEF OneSided, OpenLots
    <3>2. lots[k].side \in {-1, 1}
      BY <2>2, <3>1, LotsTyped
    <3> QED BY <2>2, <3>1, <3>2
  <2>4. ASSUME NEW i \in DOMAIN lots, Matched(lots, q, lifo, i) # 0 PROVE i \in OpenLots(lots)
    <3>1. Matched(lots, q, lifo, i) \in 0..lots[i].remaining /\ lots[i].remaining \in Nat
      BY MatchedIs, LotsTyped
    <3> QED BY <2>4, <3>1 DEF OpenLots
  <2>5. ASSUME Leftover(lots, side, q) > 0, NEW i \in DOMAIN lots
        PROVE  Matched(lots, q, lifo, i) = lots[i].remaining
    <3> DEFINE a == QuantityOf(lots, DOMAIN lots)
    <3>1. a \in Nat
      BY QuantityIs
    <3>2. Leftover(lots, side, q) = Max({0, q - a})
      BY <2>1
    <3>3. a <= q
      <4> HIDE DEF a
      <4>1. Max({0, q - a}) = IF 0 >= q - a THEN 0 ELSE q - a
        BY <3>1, LargerOfTwo
      <4> QED BY <2>5, <3>1, <3>2, <4>1
    <3> QED BY <3>3, InTurn
  <2> QED BY <2>1, <2>3, <2>4, <2>5
<1> QED BY <1>2, <1>3

(* The engine's own check passes: it only ever refuses a SELL beyond the   *)
(* inventory.                                                              *)
LEMMA StaysOneSided ==
  ASSUME NEW lots \in Seq(LotSet), NEW c \in FillIds, NEW side \in {-1, 1}, NEW q \in Nat \ {0},
         NEW unitPrice \in Nat \ {0}, NEW time \in Nat, NEW lifo \in BOOLEAN, NEW sh \in BOOLEAN,
         OneSided(lots)
  PROVE  OneSided(AfterFill(lots, c, side, q, unitPrice, time, lifo, sh))
<1> DEFINE after == AfterFill(lots, c, side, q, unitPrice, time, lifo, sh)
           taken == Taken(lots, side, q, lifo)
           left == Leftover(lots, side, q)
           n == Len(lots) + 1
           lot == Lot(c, side, time, left, unitPrice)
           fresh == Opens(lots, side, q, sh)
<1>1. FillLeaves(lots, after, taken, fresh, lot)
  BY FillIs
<1>2. /\ \A i \in DOMAIN lots : taken[i] # 0 => lots[i].side = -side
      /\ left > 0 => \A i \in OpenLots(lots) : lots[i].side = side \/ taken[i] = lots[i].remaining
  BY FillSides
<1>3. \A i \in DOMAIN lots : lots[i] \in LotSet /\ lots[i].remaining \in Nat /\ taken[i] \in 0..lots[i].remaining
  BY LotsTyped, TakenIs
<1>4. fresh => left > 0
  BY DEF Opens
<1>5. lot.side = side
  BY DEF Lot
<1> HIDE DEF after, taken, left, n, lot, fresh
<1>6. \A i \in DOMAIN lots : /\ after[i].side = lots[i].side
                             /\ after[i].remaining = lots[i].remaining - taken[i]
  <2> SUFFICES ASSUME NEW i \in DOMAIN lots
               PROVE  after[i].side = lots[i].side /\ after[i].remaining = lots[i].remaining - taken[i]
    OBVIOUS
  <2>1. after[i] = [lots[i] EXCEPT !.remaining = @ - taken[i]] /\ lots[i] \in LotSet
    BY <1>1, <1>3 DEF FillLeaves
  <2> QED BY <2>1 DEF LotSet
<1>7. \A i \in OpenLots(after) : i \in DOMAIN lots => i \in OpenLots(lots) /\ taken[i] # lots[i].remaining
  BY <1>3, <1>6 DEF OpenLots
<1>8. CASE ~fresh
  <2>1. \A i \in OpenLots(after) : i \in DOMAIN lots
    BY <1>1, <1>8 DEF FillLeaves, OpenLots
  <2> QED BY <1>6, <1>7, <2>1 DEF OneSided, after
<1>9. CASE fresh
  <2>1. \A i \in OpenLots(after) : i \in DOMAIN lots \/ i = n
    BY <1>1, <1>9 DEF FillLeaves, OpenLots, n
  <2>2. after[n].side = side
    BY <1>1, <1>5, <1>9 DEF FillLeaves, n
  <2>3. \A i \in OpenLots(after) : after[i].side = side
    BY <1>2, <1>4, <1>6, <1>7, <1>9, <2>1, <2>2
  <2> QED BY <2>3 DEF OneSided, after
<1> QED BY <1>8, <1>9

-----------------------------------------------------------------------------
(* What a fill books.                                                      *)

FlowSet == [cash : Int, inventory : Int, short : Int, result : Int]
Balanced(e) == e \in FlowSet /\ e.cash + e.inventory - e.short - e.result = 0

Terms(lots, s) ==
  [i \in DOMAIN lots |-> IF lots[i].side = s THEN lots[i].remaining * lots[i].cost ELSE 0]
Value(lots, s) == SumOver(Terms(lots, s), DOMAIN lots)

Costs(lots, taken) == [i \in DOMAIN lots |-> taken[i] * lots[i].cost]

CostClosed(lots, side, q, lifo) == SumOver(Costs(lots, Taken(lots, side, q, lifo)), DOMAIN lots)
CostOpened(lots, side, q, unitPrice) == Leftover(lots, side, q) * unitPrice

(* The entries, in terms of the lots closed and the lot opened.            *)
EntriesFit(e, side, closed, opened) ==
  /\ closed \in Int /\ opened \in Int
  /\ side = 1 => e.inventory = opened /\ e.short = -closed
  /\ side = -1 => e.inventory = -closed /\ e.short = opened

(* The entries balance (INV-LDG-001), their cash is the notional, and they *)
(* move the lots' cost between inventory and short liability.              *)
LEMMA EntriesAre ==
  ASSUME NEW lots \in Seq(LotSet), NEW side \in {-1, 1}, NEW q \in Nat \ {0}, NEW unitPrice \in Nat \ {0},
         NEW lifo \in BOOLEAN
  PROVE  /\ Balanced(FillEntries(lots, side, q, unitPrice, lifo))
         /\ FillEntries(lots, side, q, unitPrice, lifo).cash = -side * q * unitPrice
         /\ EntriesFit(FillEntries(lots, side, q, unitPrice, lifo), side,
                       CostClosed(lots, side, q, lifo), CostOpened(lots, side, q, unitPrice))
<1> DEFINE e == FillEntries(lots, side, q, unitPrice, lifo)
           cost == CostClosed(lots, side, q, lifo)
           opened == CostOpened(lots, side, q, unitPrice)
           taken == Taken(lots, side, q, lifo)
           left == Leftover(lots, side, q)
           D == DOMAIN lots
           paid == [i \in D |-> taken[i] * unitPrice]
           total == SumOver(taken, D)
           proceeds == SumOver(paid, D)
<1>1. /\ IsFiniteSet(D) /\ left \in Nat /\ total + left = q
      /\ \A i \in D : taken[i] \in Int /\ lots[i].cost \in Int
  <2>1. IsFiniteSet(D) /\ \A i \in D : lots[i].remaining \in Nat /\ lots[i].cost \in Int
    BY LotsTyped
  <2>2. left \in 0..q /\ total + left = q /\ \A i \in D : taken[i] \in 0..lots[i].remaining
    <3>1. left \in 0..q /\ total + left = q
      BY TakenIs
    <3>2. \A i \in DOMAIN lots : Taken(lots, side, q, lifo)[i] \in 0..lots[i].remaining
      BY TakenIs
    <3> QED BY <3>1, <3>2
  <2> HIDE DEF taken, left, total
  <2> QED BY <2>1, <2>2
<1>2. total \in Int
  <2> HIDE DEF taken, D
  <2> QED BY <1>1, SumInt
<1>3. proceeds = unitPrice * total
  <2>1. \A i \in D : paid[i] = taken[i] * unitPrice
    OBVIOUS
  <2> HIDE DEF taken, D, paid
  <2>2. Combines(paid, unitPrice, taken, 0, taken, D)
    <3>1. \A i \in D : taken[i] * unitPrice = unitPrice * taken[i] + 0 * taken[i]
      BY <1>1
    <3> QED BY <1>1, <2>1, <3>1 DEF Combines
  <2>3. SumOver(paid, D) = unitPrice * total + 0 * total
    <3>1. unitPrice \in Int /\ 0 \in Int
      OBVIOUS
    <3> QED BY <1>1, <2>2, <3>1, SumLinear
  <2> QED BY <1>2, <2>3
<1>4. cost \in Int
  <2> DEFINE h == Costs(lots, taken)
  <2>1. \A i \in D : h[i] \in Int
    BY <1>1 DEF Costs
  <2> HIDE DEF h, D
  <2>2. SumOver(h, D) \in Int
    BY <1>1, <2>1, SumInt
  <2> QED BY <2>2 DEF h, D, CostClosed
<1>5. e = [cash |-> IF side = 1 THEN -proceeds - opened ELSE proceeds + opened,
           inventory |-> IF side = 1 THEN opened ELSE -cost,
           short |-> IF side = 1 THEN -cost ELSE opened,
           result |-> IF side = 1 THEN cost - proceeds ELSE proceeds - cost]
  BY SumOnSet DEF FillEntries, EntriesOf, Costs, CostClosed, CostOpened
<1>6. opened = left * unitPrice
  BY DEF CostOpened
<1> HIDE DEF taken, left, D, paid, total, proceeds, e, cost, opened
<1>7. proceeds \in Int /\ opened \in Int
  BY <1>1, <1>2, <1>3, <1>6
<1>8. proceeds + opened = q * unitPrice
  <2>1. unitPrice * total + left * unitPrice = (total + left) * unitPrice
    BY <1>1, <1>2
  <2> QED BY <1>1, <1>3, <1>6, <2>1
<1>9. CASE side = 1
  <2>1. e = [cash |-> -proceeds - opened, inventory |-> opened, short |-> -cost, result |-> cost - proceeds]
    BY <1>5, <1>9
  <2>2. Balanced(e)
    <3>1. e \in FlowSet
      BY <1>4, <1>7, <2>1 DEF FlowSet
    <3>2. (-proceeds - opened) + opened - (-cost) - (cost - proceeds) = 0
      BY <1>4, <1>7
    <3>3. /\ e.cash = -proceeds - opened /\ e.inventory = opened /\ e.short = -cost
          /\ e.result = cost - proceeds
      BY <2>1
    <3> QED BY <3>1, <3>2, <3>3 DEF Balanced
  <2>3. -side * q * unitPrice = -(q * unitPrice)
    BY <1>9
  <2>4. e.cash = -(q * unitPrice)
    BY <1>7, <1>8, <2>1
  <2> QED BY <1>4, <1>7, <1>9, <2>1, <2>2, <2>3, <2>4 DEF EntriesFit, e, cost, opened
<1>10. CASE side = -1
  <2>1. e = [cash |-> proceeds + opened, inventory |-> -cost, short |-> opened, result |-> proceeds - cost]
    BY <1>5, <1>10
  <2>2. Balanced(e)
    <3>1. e \in FlowSet
      BY <1>4, <1>7, <2>1 DEF FlowSet
    <3>2. (proceeds + opened) + (-cost) - opened - (proceeds - cost) = 0
      BY <1>4, <1>7
    <3>3. /\ e.cash = proceeds + opened /\ e.inventory = -cost /\ e.short = opened
          /\ e.result = proceeds - cost
      BY <2>1
    <3> QED BY <3>1, <3>2, <3>3 DEF Balanced
  <2>3. -side * q * unitPrice = q * unitPrice
    BY <1>10
  <2>4. e.cash = q * unitPrice
    BY <1>7, <1>8, <2>1
  <2> QED BY <1>4, <1>7, <1>10, <2>1, <2>2, <2>3, <2>4 DEF EntriesFit, e, cost, opened
<1> QED BY <1>9, <1>10

(* The cost of the open lots of a side is a whole number.                  *)
LEMMA ValueInt ==
  ASSUME NEW lots \in Seq(LotSet), NEW s \in {-1, 1}
  PROVE  Value(lots, s) \in Int
<1> DEFINE f == Terms(lots, s)
<1>1. IsFiniteSet(DOMAIN lots) /\ \A i \in DOMAIN lots : f[i] \in Int
  BY LotsTyped DEF Terms
<1> HIDE DEF f
<1>2. SumOver(f, DOMAIN lots) \in Int
  BY <1>1, SumInt
<1> QED BY <1>2 DEF Value, f

(* A fill changes the cost of the lots by what it books.                   *)
LEMMA FillValue ==
  ASSUME NEW lots \in Seq(LotSet), NEW c \in FillIds, NEW side \in {-1, 1}, NEW q \in Nat \ {0},
         NEW unitPrice \in Nat \ {0}, NEW time \in Nat, NEW lifo \in BOOLEAN, NEW sh \in BOOLEAN,
         OneSided(lots), ~Orphaned(lots, side, q, sh),
         NEW after, after = AfterFill(lots, c, side, q, unitPrice, time, lifo, sh)
  PROVE  /\ Value(after, side) = Value(lots, side) + CostOpened(lots, side, q, unitPrice)
         /\ Value(after, -side) = Value(lots, -side) - CostClosed(lots, side, q, lifo)
<1> DEFINE taken == Taken(lots, side, q, lifo)
           left == Leftover(lots, side, q)
           n == Len(lots) + 1
           lot == Lot(c, side, time, left, unitPrice)
           fresh == Opens(lots, side, q, sh)
           D == DOMAIN lots
           h == Costs(lots, taken)
<1>1. FillLeaves(lots, after, taken, fresh, lot)
  BY FillIs
<1>2. \A i \in D : taken[i] # 0 => lots[i].side = -side
  BY FillSides
<1>3. /\ IsFiniteSet(D) /\ left \in Nat
      /\ \A i \in D : /\ lots[i] \in LotSet /\ lots[i].remaining \in Nat /\ taken[i] \in Int
                      /\ lots[i].side \in {-1, 1} /\ lots[i].cost \in Int
  <2>1. IsFiniteSet(D) /\ \A i \in D : /\ lots[i] \in LotSet /\ lots[i].remaining \in Nat
                                        /\ lots[i].side \in {-1, 1} /\ lots[i].cost \in Int
    BY LotsTyped
  <2>2. left \in 0..q /\ \A i \in D : taken[i] \in 0..lots[i].remaining
    BY TakenIs
  <2> HIDE DEF taken, left
  <2> QED BY <2>1, <2>2
<1>4. fresh <=> left # 0
  BY <1>3 DEF Opens
<1>5. lot.side = side /\ lot.remaining = left /\ lot.cost = unitPrice
  BY DEF Lot
<1>6. \A i \in D : h[i] = taken[i] * lots[i].cost /\ h[i] \in Int
  BY <1>3 DEF Costs
<1>7. after \in Seq(LotSet) /\ DOMAIN after = IF fresh THEN D \cup {n} ELSE D
  BY <1>1 DEF FillLeaves
<1>8. D \subseteq DOMAIN after /\ (fresh => n \notin D /\ after[n] = lot)
  BY <1>1 DEF FillLeaves
<1> HIDE DEF taken, left, n, lot, fresh, D, h
<1>9. \A i \in D : /\ after[i].side = lots[i].side /\ after[i].cost = lots[i].cost
                   /\ after[i].remaining = lots[i].remaining - taken[i]
  <2> SUFFICES ASSUME NEW i \in D
               PROVE  /\ after[i].side = lots[i].side /\ after[i].cost = lots[i].cost
                      /\ after[i].remaining = lots[i].remaining - taken[i]
    OBVIOUS
  <2>1. after[i] = [lots[i] EXCEPT !.remaining = @ - taken[i]] /\ lots[i] \in LotSet
    BY <1>1, <1>3 DEF FillLeaves, D
  <2> QED BY <2>1 DEF LotSet
<1>10. IsFiniteSet(DOMAIN after) /\ \A i \in DOMAIN after : after[i].remaining \in Int /\ after[i].cost \in Int
  BY <1>7, LotsTyped
<1>11. ASSUME NEW s \in {-1, 1}
       PROVE  /\ \A i \in D : Terms(lots, s)[i] \in Int
              /\ \A i \in DOMAIN after : Terms(after, s)[i] \in Int
              /\ Value(after, s) = SumOver(Terms(after, s), D) + IF s = side THEN left * unitPrice ELSE 0
  <2> DEFINE g == Terms(after, s)
  <2>1. \A i \in D : Terms(lots, s)[i] \in Int
    BY <1>3 DEF Terms, D
  <2>2. \A i \in DOMAIN after : g[i] \in Int
    BY <1>10 DEF Terms
  <2>3. CASE ~fresh
    <3>1. SumOver(g, D) \in Int
      <4> HIDE DEF g
      <4> QED BY <1>3, <1>8, <2>2, SumInt
    <3>2. left * unitPrice = 0
      BY <1>4, <2>3
    <3>3. DOMAIN after = D
      BY <1>7, <2>3
    <3> QED BY <2>1, <2>2, <3>1, <3>2, <3>3 DEF Value
  <2>4. CASE fresh
    <3>1. n \in DOMAIN after /\ DOMAIN after \ {n} = D
      BY <1>7, <1>8, <2>4
    <3>2. g[n] = IF s = side THEN left * unitPrice ELSE 0
      BY <1>5, <1>8, <2>4, <3>1 DEF Terms
    <3>3. SumOver(g, DOMAIN after) = g[n] + SumOver(g, D)
      <4> DEFINE all == DOMAIN after
      <4>1. IsFiniteSet(all) /\ n \in all /\ all \ {n} = D /\ \A i \in all : g[i] \in Int
        BY <1>10, <2>2, <3>1
      <4> HIDE DEF g, all
      <4>2. SumOver(g, all) = g[n] + SumOver(g, all \ {n})
        BY <4>1, SumRemove
      <4> QED BY <4>1, <4>2 DEF all
    <3>4. SumOver(g, D) \in Int
      <4> HIDE DEF g
      <4> QED BY <1>3, <1>8, <2>2, SumInt
    <3>5. g[n] \in Int
      BY <2>2, <3>1
    <3>6. Value(after, s) = SumOver(g, DOMAIN after)
      BY DEF Value
    <3> HIDE DEF g
    <3>7. Value(after, s) = SumOver(g, D) + g[n]
      BY <3>3, <3>4, <3>5, <3>6
    <3> QED BY <2>1, <2>2, <3>2, <3>7 DEF g
  <2> QED BY <2>3, <2>4
<1>12. SumOver(Terms(after, side), D) = Value(lots, side)
  <2> DEFINE f == Terms(lots, side)
             g == Terms(after, side)
  <2>1. \A i \in D : g[i] = f[i] /\ f[i] \in Int
    <3> SUFFICES ASSUME NEW i \in D PROVE g[i] = f[i]
      BY <1>11
    <3>1. /\ f[i] = IF lots[i].side = side THEN lots[i].remaining * lots[i].cost ELSE 0
          /\ g[i] = IF after[i].side = side THEN after[i].remaining * after[i].cost ELSE 0
      BY <1>8 DEF Terms, D
    <3>2. lots[i].side = side => taken[i] = 0
      BY <1>2
    <3>3. taken[i] = 0 => after[i].remaining = lots[i].remaining
      BY <1>3, <1>9
    <3> QED BY <1>9, <3>1, <3>2, <3>3
  <2> HIDE DEF f, g
  <2>2. SumOver(f, D) = SumOver(g, D)
    BY <1>3, <2>1, SumAgrees
  <2> QED BY <2>2 DEF f, g, Value, D
<1>13. SumOver(Terms(after, -side), D) = Value(lots, -side) - SumOver(h, D)
  <2> DEFINE f == Terms(lots, -side)
             g == Terms(after, -side)
  <2>0. -side \in {-1, 1}
    OBVIOUS
  <2>1. \A i \in D : f[i] \in Int /\ h[i] \in Int /\ g[i] = f[i] - h[i]
    <3> SUFFICES ASSUME NEW i \in D PROVE f[i] \in Int /\ h[i] \in Int /\ g[i] = f[i] - h[i]
      OBVIOUS
    <3>1. /\ f[i] = IF lots[i].side = -side THEN lots[i].remaining * lots[i].cost ELSE 0
          /\ g[i] = IF after[i].side = -side THEN after[i].remaining * after[i].cost ELSE 0
      BY <1>8 DEF Terms, D
    <3>2. f[i] \in Int /\ h[i] \in Int /\ h[i] = taken[i] * lots[i].cost
      BY <1>6, <1>11, <2>0
    <3>3. CASE lots[i].side = -side
      <4> DEFINE r == lots[i].remaining
                 k == lots[i].cost
                 t == taken[i]
      <4>1. r \in Int /\ k \in Int /\ t \in Int
        BY <1>3
      <4>2. f[i] = r * k /\ h[i] = t * k /\ g[i] = (r - t) * k
        BY <1>9, <3>1, <3>2, <3>3
      <4> HIDE DEF r, k, t
      <4>3. (r - t) * k = r * k - t * k
        BY <4>1
      <4> QED BY <3>2, <4>2, <4>3
    <3>4. CASE lots[i].side # -side
      <4>1. taken[i] = 0
        BY <1>2, <3>4
      <4>2. h[i] = 0
        BY <1>3, <3>2, <4>1
      <4> QED BY <1>9, <3>1, <3>2, <3>4, <4>2
    <3> QED BY <3>3, <3>4
  <2> HIDE DEF f, g
  <2>2. Combines(g, 1, f, -1, h, D)
    <3>1. \A i \in D : f[i] - h[i] = 1 * f[i] + (-1) * h[i]
      BY <2>1
    <3> QED BY <2>1, <3>1 DEF Combines
  <2>3. SumOver(g, D) = 1 * SumOver(f, D) + (-1) * SumOver(h, D)
    BY <1>3, <2>2, SumLinear
  <2>4. SumOver(f, D) \in Int /\ SumOver(h, D) \in Int
    BY <1>3, <2>1, SumInt
  <2> QED BY <2>3, <2>4 DEF f, g, Value, D
<1>14. -side \in {-1, 1} /\ -side # side
  OBVIOUS
<1>15. Value(lots, side) \in Int /\ Value(lots, -side) \in Int
  BY <1>14, ValueInt
<1>16. SumOver(h, D) \in Int
  BY <1>3, <1>6, SumInt
<1>17. Value(after, side) = Value(lots, side) + left * unitPrice
  BY <1>11, <1>12
<1>18. Value(after, -side) = Value(lots, -side) - SumOver(h, D)
  <2>1. Value(after, -side) = SumOver(Terms(after, -side), D) + 0
    BY <1>11, <1>14
  <2>2. Value(lots, -side) - SumOver(h, D) \in Int
    BY <1>15, <1>16
  <2> QED BY <1>13, <2>1, <2>2
<1> QED BY <1>17, <1>18 DEF left, h, taken, D, CostOpened, CostClosed

(* ... in the terms of the journal.                                        *)
LEMMA FillEntered ==
  ASSUME NEW lots \in Seq(LotSet), NEW c \in FillIds, NEW side \in {-1, 1}, NEW q \in Nat \ {0},
         NEW unitPrice \in Nat \ {0}, NEW time \in Nat, NEW lifo \in BOOLEAN, NEW sh \in BOOLEAN,
         OneSided(lots), ~Orphaned(lots, side, q, sh),
         NEW after, after = AfterFill(lots, c, side, q, unitPrice, time, lifo, sh),
         NEW e, e = FillEntries(lots, side, q, unitPrice, lifo)
  PROVE  /\ Value(after, 1) = Value(lots, 1) + e.inventory
         /\ Value(after, -1) = Value(lots, -1) + e.short
<1> DEFINE closed == CostClosed(lots, side, q, lifo)
           opened == CostOpened(lots, side, q, unitPrice)
<1>1. EntriesFit(e, side, closed, opened)
  BY EntriesAre
<1>2. Value(after, side) = Value(lots, side) + opened /\ Value(after, -side) = Value(lots, -side) - closed
  BY FillValue
<1>3. Value(lots, 1) \in Int /\ Value(lots, -1) \in Int
  BY ValueInt
<1> HIDE DEF closed, opened
<1>4. closed \in Int /\ opened \in Int
  BY <1>1 DEF EntriesFit
<1>5. CASE side = 1
  <2>1. Value(after, 1) = Value(lots, 1) + opened /\ Value(after, -1) = Value(lots, -1) - closed
    BY <1>2, <1>5
  <2>2. e.inventory = opened /\ e.short = -closed
    BY <1>1, <1>5 DEF EntriesFit
  <2> QED BY <1>3, <1>4, <2>1, <2>2
<1>6. CASE side = -1
  <2>0. -side = 1
    <3>1. -side \in {-1, 1} /\ -side # side
      OBVIOUS
    <3> QED BY <1>6, <3>1
  <2>1. Value(after, -1) = Value(lots, -1) + opened /\ Value(after, 1) = Value(lots, 1) - closed
    BY <1>2, <1>6, <2>0
  <2>2. e.inventory = -closed /\ e.short = opened
    BY <1>1, <1>6 DEF EntriesFit
  <2> QED BY <1>3, <1>4, <2>1, <2>2
<1> QED BY <1>5, <1>6

-----------------------------------------------------------------------------
(* Lots in memory and rows.                                                *)

Distinct(L) == \A a, b \in L : a.id = b.id => a = b
OwnIds(lots) == \A i, j \in DOMAIN lots : lots[i].id = lots[j].id => i = j

(* A reload puts each row in one place.                                    *)
Lists(lots, L) ==
  /\ lots \in Seq(LotSet) /\ OwnIds(lots)
  /\ \A i \in DOMAIN lots : lots[i] \in L
  /\ \A lot \in L : \E i \in DOMAIN lots : lots[i] = lot

(* Ids are numbers.                                                        *)
LEMMA FillIdsInt == \A c \in FillIds : c \in Int
<1>1. MaxFills \in Nat
  BY LedgerAssumption
<1> QED BY <1>1 DEF FillIds

(* Sorting rows by time puts each of them on one place (RanksFill).        *)
LEMMA ByTimeIs ==
  ASSUME NEW L \in SUBSET LotSet, IsFiniteSet(L), Distinct(L)
  PROVE  Lists(ByTime(L), L)
<1> DEFINE R == {t \in L \X L : OpenedBefore(t[1], t[2])}
           n == Cardinality(L)
           pick(k) == CHOOSE lot \in L : PlaceOf(lot, L) = k
<1>1. n \in Nat
  BY FS_CardinalityType
<1>2. \A a, b \in L : <<a, b>> \in R <=> OpenedBefore(a, b)
  OBVIOUS
<1>3. StrictOrder(R, L)
  <2>1. \A a \in L : a.opened \in Int /\ a.id \in Int
    <3>1. \A a \in L : a.opened \in Nat /\ a.id \in FillIds
      BY DEF LotSet
    <3>2. \A a \in L : a.id \in Int
      BY <3>1, FillIdsInt
    <3> QED BY <3>1, <3>2
  <2>2. \A a, b \in L : a # b => a.id # b.id
    BY DEF Distinct
  <2>3. /\ \A a \in L : ~OpenedBefore(a, a)
        /\ \A a, b \in L : a # b => OpenedBefore(a, b) \/ OpenedBefore(b, a)
        /\ \A a, b, c \in L : OpenedBefore(a, b) /\ OpenedBefore(b, c) => OpenedBefore(a, c)
    BY <2>1, <2>2 DEF OpenedBefore
  <2> HIDE DEF R
  <2> QED BY <1>2, <2>3 DEF StrictOrder
<1>4. \A a \in L : PlaceOf(a, L) = Rank(a, R, L)
  <2> SUFFICES ASSUME NEW a \in L PROVE PlaceOf(a, L) = Rank(a, R, L)
    OBVIOUS
  <2>1. {b \in L : OpenedBefore(b, a)} = {b \in L : <<b, a>> \in R}
    BY <1>2
  <2> QED BY <2>1 DEF PlaceOf, Rank
<1>5. /\ \A a \in L : PlaceOf(a, L) \in 1..n
      /\ \A k \in 1..n : \E a \in L : PlaceOf(a, L) = k
  <2> HIDE DEF R
  <2>1. /\ \A c \in L : Rank(c, R, L) \in 1..Cardinality(L)
        /\ \A i \in 1..Cardinality(L) : \E c \in L : Rank(c, R, L) = i
    BY <1>3, RanksFill
  <2> QED BY <1>4, <2>1
<1>6. \A a, b \in L : PlaceOf(a, L) = PlaceOf(b, L) => a = b
  <2> HIDE DEF R
  <2>1. \A b, c \in L : Rank(b, R, L) = Rank(c, R, L) => b = c
    BY <1>3, RanksFill
  <2> QED BY <1>4, <2>1
<1>7. \A k \in 1..n : pick(k) \in L /\ PlaceOf(pick(k), L) = k
  BY <1>5
<1>8. ByTime(L) = [k \in 1..n |-> pick(k)]
  BY DEF ByTime
<1> DEFINE lots == ByTime(L)
<1>9. DOMAIN lots = 1..n /\ \A k \in 1..n : lots[k] \in L /\ PlaceOf(lots[k], L) = k
  BY <1>7, <1>8
<1>10. lots \in [1..n -> LotSet]
  <2>1. lots = [k \in 1..n |-> lots[k]]
    BY <1>8
  <2> HIDE DEF lots
  <2> QED BY <1>9, <2>1
<1> HIDE DEF lots, R, pick
<1>11. lots \in Seq(LotSet)
  BY <1>1, <1>10, IsASeq
<1>12. OwnIds(lots)
  <2> SUFFICES ASSUME NEW i \in 1..n, NEW j \in 1..n, lots[i].id = lots[j].id PROVE i = j
    BY <1>9 DEF OwnIds
  <2>1. lots[i] = lots[j]
    BY <1>9 DEF Distinct
  <2> QED BY <1>9, <2>1
<1>13. \A lot \in L : \E i \in DOMAIN lots : lots[i] = lot
  <2> SUFFICES ASSUME NEW lot \in L PROVE \E i \in DOMAIN lots : lots[i] = lot
    OBVIOUS
  <2>1. PlaceOf(lot, L) \in 1..n
    BY <1>5
  <2>2. lots[PlaceOf(lot, L)] = lot
    BY <1>6, <1>9, <2>1
  <2> QED BY <1>9, <2>1, <2>2
<1>14. \A i \in DOMAIN lots : lots[i] \in L
  BY <1>9
<1> QED BY <1>11, <1>12, <1>13, <1>14 DEF Lists, lots

(* The cost of the open lots as a set is their cost as a list.             *)
OpenSet(lots) == {lots[i] : i \in OpenLots(lots)}

LEMMA CostOfOpen ==
  ASSUME NEW lots \in Seq(LotSet), OwnIds(lots), NEW s \in {-1, 1}
  PROVE  CostOf(OpenSet(lots), s) = Value(lots, s)
<1> DEFINE L == OpenSet(lots)
           D == DOMAIN lots
           S == {i \in OpenLots(lots) : lots[i].side = s}
           T == D \ S
           g == [lot \in L |-> lot.remaining * lot.cost]
           f == [i \in D |-> lots[i].remaining * lots[i].cost]
           h == Terms(lots, s)
<1>1. IsFiniteSet(D) /\ \A i \in D : lots[i].remaining \in Nat /\ lots[i].cost \in Nat
  BY LotsTyped
<1>2. S \subseteq D /\ IsFiniteSet(S) /\ IsFiniteSet(T) /\ S \cap T = {} /\ S \cup T = D
  <2>1. S \subseteq D
    BY DEF OpenLots
  <2> HIDE DEF S, D
  <2> QED BY <1>1, <2>1, FS_Subset
<1>3. {lot \in L : lot.side = s} = {lots[i] : i \in S}
  BY DEF OpenSet
<1>4. CostOf(L, s) = SumOver(g, {lots[i] : i \in S})
  <2>1. CostOf(L, s) = SumFunctionOnSet(g, {lot \in L : lot.side = s})
    BY DEF CostOf
  <2> HIDE DEF L, g, S
  <2>2. SumFunctionOnSet(g, {lot \in L : lot.side = s}) = SumOver(g, {lot \in L : lot.side = s})
    BY SumOnSet
  <2> QED BY <1>3, <2>1, <2>2
<1>5. \A i \in S : f[i] \in Int /\ g[lots[i]] = f[i]
  <2> SUFFICES ASSUME NEW i \in S PROVE f[i] \in Int /\ g[lots[i]] = f[i]
    OBVIOUS
  <2>1. i \in D /\ lots[i] \in L
    BY <1>2 DEF OpenSet
  <2>2. g[lots[i]] = lots[i].remaining * lots[i].cost /\ f[i] = lots[i].remaining * lots[i].cost
    BY <2>1
  <2> QED BY <1>1, <2>1, <2>2
<1>6. \A i, j \in S : lots[i] = lots[j] => i = j
  BY <1>2 DEF OwnIds
<1>7. SumOver(g, {lots[i] : i \in S}) = SumOver(f, S)
  <2> HIDE DEF g, f, S
  <2> QED BY <1>2, <1>5, <1>6, SumImage
<1>8. \A i \in D : h[i] \in Int
  BY <1>1 DEF Terms
<1>9. \A i \in S : f[i] \in Int /\ h[i] = f[i]
  <2>1. \A i \in S : i \in D /\ lots[i].side = s
    BY <1>2
  <2>2. \A i \in S : h[i] = lots[i].remaining * lots[i].cost /\ f[i] = lots[i].remaining * lots[i].cost
    BY <2>1 DEF Terms
  <2> QED BY <1>5, <2>2
<1>10. \A i \in T : h[i] = 0
  <2> SUFFICES ASSUME NEW i \in T PROVE h[i] = 0
    OBVIOUS
  <2>1. h[i] = IF lots[i].side = s THEN lots[i].remaining * lots[i].cost ELSE 0
    BY DEF Terms
  <2>2. lots[i].side = s => lots[i].remaining = 0
    BY <1>1 DEF OpenLots
  <2> QED BY <1>1, <2>1, <2>2
<1> HIDE DEF L, D, S, T, g, f, h
<1>11. SumOver(f, S) = SumOver(h, S)
  BY <1>2, <1>9, SumAgrees
<1>12. SumOver(h, T) = 0
  BY <1>2, <1>10, SumZero
<1>13. SumOver(h, D) = SumOver(h, S) + SumOver(h, T)
  <2>1. \A i \in S \cup T : h[i] \in Int
    BY <1>2, <1>8
  <2>2. SumOver(h, S \cup T) = SumOver(h, S) + SumOver(h, T)
    BY <1>2, <2>1, SumUnion
  <2> QED BY <1>2, <2>2
<1>14. SumOver(h, S) \in Int
  BY <1>2, <1>8, SumInt
<1>15. CostOf(L, s) = SumOver(h, D)
  BY <1>4, <1>7, <1>11, <1>12, <1>13, <1>14
<1> QED BY <1>15 DEF L, h, D, Value

(* Rows that say what the lots in memory say, each with its own id.        *)
Mirrored(lots, rs) ==
  /\ \A i \in DOMAIN lots : lots[i].id \in DOMAIN rs /\ rs[lots[i].id] = lots[i]
  /\ \A id \in DOMAIN rs : rs[id].remaining > 0 => \E i \in DOMAIN lots : lots[i].id = id

OpenOf(rs) == {rs[id] : id \in {i \in DOMAIN rs : rs[i].remaining > 0}}

(* Then the open lots and the open rows are the same.                      *)
LEMMA MirrorSet ==
  ASSUME NEW lots \in Seq(LotSet), NEW rs, Mirrored(lots, rs)
  PROVE  OpenSet(lots) = OpenOf(rs)
<1>1. \A lot \in OpenSet(lots) : lot \in OpenOf(rs)
  <2> SUFFICES ASSUME NEW i \in OpenLots(lots) PROVE lots[i] \in OpenOf(rs)
    BY DEF OpenSet
  <2>1. i \in DOMAIN lots /\ lots[i].remaining > 0
    BY DEF OpenLots
  <2>2. lots[i].id \in DOMAIN rs /\ rs[lots[i].id] = lots[i]
    BY <2>1 DEF Mirrored
  <2> QED BY <2>1, <2>2 DEF OpenOf
<1>2. \A lot \in OpenOf(rs) : lot \in OpenSet(lots)
  <2> SUFFICES ASSUME NEW id \in DOMAIN rs, rs[id].remaining > 0 PROVE rs[id] \in OpenSet(lots)
    BY DEF OpenOf
  <2>1. PICK i \in DOMAIN lots : lots[i].id = id
    BY DEF Mirrored
  <2>2. lots[i] = rs[id]
    BY <2>1 DEF Mirrored
  <2> QED BY <2>1, <2>2 DEF OpenSet, OpenLots
<1> QED BY <1>1, <1>2

(* What a reload lists mirrors the rows it read.                           *)
LEMMA ReloadMirrors ==
  ASSUME NEW rs, NEW lots, Lists(lots, OpenOf(rs)), \A id \in DOMAIN rs : rs[id].id = id
  PROVE  Mirrored(lots, rs)
<1>1. \A i \in DOMAIN lots : lots[i].id \in DOMAIN rs /\ rs[lots[i].id] = lots[i]
  BY DEF Lists, OpenOf
<1>2. ASSUME NEW id \in DOMAIN rs, rs[id].remaining > 0 PROVE \E i \in DOMAIN lots : lots[i].id = id
  <2>1. rs[id] \in OpenOf(rs) /\ rs[id].id = id
    BY <1>2 DEF OpenOf
  <2> QED BY <2>1 DEF Lists
<1> QED BY <1>1, <1>2 DEF Mirrored

SidesAgree(L) == \A a, b \in L : a.side = b.side

(* One-sided, said of the places and of the lots.                          *)
LEMMA SidesOfOpen == ASSUME NEW lots PROVE OneSided(lots) <=> SidesAgree(OpenSet(lots))
  BY DEF OneSided, SidesAgree, OpenSet

(* A reload of one-sided rows is a one-sided list.                         *)
LEMMA ListedSides ==
  ASSUME NEW L, NEW lots, Lists(lots, L), SidesAgree(L)
  PROVE  OneSided(lots)
  BY DEF OneSided, SidesAgree, Lists, OpenLots

-----------------------------------------------------------------------------
(* The invariant of the ledger service.                                    *)

Stages == {"idle", "lots", "account", "commit", "done", "failed"}
RowNotes == UNION {[I -> Nat] : I \in SUBSET FillIds}
WorkSet == [held : Seq(LotSet), todo : SUBSET FillIds, rows : RowNotes, opens : SUBSET LotSet,
            flows : FlowSet \cup {<<>>}, cashIn : Int, cash : Int, debt : Int,
            wrote : SUBSET {"cash", "debt"}, date : Dates \cup {0}, lifo : BOOLEAN]

RowsTyped(rs) == \A id \in DOMAIN rs : rs[id] \in LotSet /\ rs[id].id = id

LedgerTyped ==
  /\ memory \in Seq(LotSet)
  /\ call \in [Calls -> Stages]
  /\ work \in [Calls -> WorkSet]
  /\ RowsTyped(rows)
  /\ account \in [cash : Int, debt : Int]
  /\ journal \in FlowSet
  /\ reload \in [on : BOOLEAN, rows : SUBSET LotSet]
  /\ IsFiniteSet(reload.rows) /\ Distinct(reload.rows)
  /\ shorting \in BOOLEAN /\ ahead \in BOOLEAN /\ overlapped \in BOOLEAN
  /\ lostUpdate \in BOOLEAN /\ lag \in Int

(* A lot has the id of the fill that opened it, a row that of one that has *)
(* committed.                                                              *)
IdsKnown ==
  /\ OwnIds(memory)
  /\ \A i \in DOMAIN memory : call[memory[i].id] # "idle"
  /\ \A id \in DOMAIN rows : call[id] = "done"
  /\ \A lot \in reload.rows : call[lot.id] = "done"

(* What a call will write to the account, if nothing was written to it     *)
(* since the call read it.                                                 *)
Current(c, w) ==
  /\ w.cash = account.cash + w.flows.cash
  /\ "cash" \in w.wrote \/ w.flows.cash = 0
  /\ "debt" \in w.wrote \/ w.debt = account.debt
  /\ c \in FillIds => "cash" \in w.wrote /\ w.debt = Borrowed(w.cash)
  /\ c \in AccrualIds => w.debt = Borrowed(account.cash)

(* The lots a call looks at: those in memory, or those it was holding when *)
(* a reload replaced them.                                                 *)
LotsOf(w) == IF w.held = <<>> THEN memory ELSE w.held

CallKnown(c, w) ==
  /\ Balanced(w.flows) /\ w.cashIn = w.flows.cash
  /\ c \in FillIds => \A lot \in w.opens : lot.id = c
  /\ c \in AccrualIds => /\ call[c] = "commit" /\ w.opens = {} /\ DOMAIN w.rows = {}
                         /\ w.flows.inventory = 0 /\ w.flows.short = 0
  /\ call[c] = "lots" => \A id \in w.todo : \E i \in DOMAIN LotsOf(w) : LotsOf(w)[i].id = id
  /\ call[c] # "lots" => w.todo = {}
  /\ call[c] = "commit" /\ c \notin overtaken => Current(c, w)

CallsKnown == \A c \in Calls : call[c] \in InFlight => CallKnown(c, work[c])

Money == JournalBalanced /\ CashMatchesJournal /\ DebtLagsByDrag /\ AccruedOnce

(* A fill under way has changed the lots in memory and not yet the rows:   *)
(* what it will write makes them agree.                                    *)
Prospect(w, id) == IF id \in DOMAIN w.rows THEN w.rows[id] ELSE rows[id].remaining

Follows(c, w) ==
  /\ w.held = <<>>
  /\ w.opens = {memory[i] : i \in {j \in DOMAIN memory : memory[j].id = c}}
  /\ DOMAIN w.rows \cap w.todo = {}
  /\ \A id \in DOMAIN w.rows : id # c /\ \E i \in DOMAIN memory : memory[i].id = id
  /\ \A i \in DOMAIN memory :
       LET id == memory[i].id
       IN  id # c => /\ id \in DOMAIN rows
                     /\ memory[i] = [rows[id] EXCEPT !.remaining = memory[i].remaining]
                     /\ id \notin w.todo => memory[i].remaining = Prospect(w, id)
  /\ \A id \in DOMAIN rows : rows[id].remaining > 0 => \E i \in DOMAIN memory : memory[i].id = id
  /\ journal.inventory + w.flows.inventory = Value(memory, 1)
  /\ journal.short + w.flows.short = Value(memory, -1)

Filling == {c \in FillIds : call[c] \in InFlight}

BooksKept ==
  /\ OneSided(memory) /\ SidesAgree(OpenOf(rows))
  /\ journal.inventory = CostOf(OpenOf(rows), 1) /\ journal.short = CostOf(OpenOf(rows), -1)
  /\ reload.on => reload.rows = OpenOf(rows) /\ Filling = {}
  /\ \A c, d \in Filling : c = d
  /\ ~ahead /\ Filling = {} => Mirrored(memory, rows)
  /\ ~ahead => \A c \in Filling : Follows(c, work[c])

LedgerInvariant == LedgerTyped /\ IdsKnown /\ CallsKnown /\ Money /\ (~overlapped => BooksKept)

(* A call is a fill or an accrual, never both.                             *)
LEMMA CallSets ==
  /\ \A c \in FillIds : c \in Calls /\ c \notin AccrualIds /\ c \in Int
  /\ \A c \in AccrualIds : c \in Calls /\ c \notin FillIds
  /\ \A c \in Calls : c \in FillIds \/ c \in AccrualIds
  /\ IsFiniteSet(FillIds)
<1>1. MaxFills \in Nat /\ MaxAccruals \in Nat
  BY LedgerAssumption
<1>2. IsFiniteSet(FillIds)
  BY <1>1, FS_Interval DEF FillIds
<1> QED BY <1>1, <1>2 DEF FillIds, AccrualIds, Calls

(* What a call knows before it has read anything.                          *)
LEMMA NoCallFits ==
  /\ NoCall \in WorkSet /\ DOMAIN NoCall.rows = {} /\ NoCall.held = <<>>
  /\ NoCall.todo = {} /\ NoCall.opens = {}
<1>1. <<>> \in Seq(Nat) /\ DOMAIN <<>> = {} /\ <<>> \in Seq(LotSet)
  BY EmptySeq, LenProperties
<1>2. <<>> \in RowNotes
  <2>1. {} \in SUBSET FillIds
    OBVIOUS
  <2>2. <<>> \in [{} -> Nat]
    <3>1. <<>> \in [1..Len(<<>>) -> Nat] /\ Len(<<>>) = 0
      BY <1>1, LenProperties, EmptySeq
    <3>2. 1..0 = {}
      OBVIOUS
    <3> QED BY <3>1, <3>2
  <2> QED BY <2>1, <2>2 DEF RowNotes
<1>3. NoCall \in WorkSet
  BY <1>1, <1>2 DEF NoCall, WorkSet
<1> QED BY <1>1, <1>3 DEF NoCall

(* The open rows are lots with different ids, finitely many.               *)
LEMMA OpenRowsFit ==
  ASSUME NEW rs, RowsTyped(rs)
  PROVE  /\ OpenOf(rs) \in SUBSET LotSet /\ IsFiniteSet(OpenOf(rs)) /\ Distinct(OpenOf(rs))
         /\ \A lot \in OpenOf(rs) : lot.id \in DOMAIN rs
<1> DEFINE I == {i \in DOMAIN rs : rs[i].remaining > 0}
           f == [i \in I |-> rs[i]]
<1>1. \A i \in I : rs[i] \in LotSet /\ rs[i].id = i /\ i \in FillIds
  BY DEF RowsTyped, LotSet
<1>2. IsFiniteSet(I)
  <2>1. I \subseteq FillIds
    BY <1>1
  <2> HIDE DEF I
  <2> QED BY <2>1, CallSets, FS_Subset
<1>3. OpenOf(rs) = {rs[i] : i \in I}
  BY DEF OpenOf
<1>4. f \in Surjection(I, OpenOf(rs))
  <2>1. f \in [I -> OpenOf(rs)] /\ \A lot \in OpenOf(rs) : \E i \in I : f[i] = lot
    BY <1>3
  <2> QED BY <2>1 DEF Surjection
<1>5. IsFiniteSet(OpenOf(rs))
  <2> HIDE DEF I, f
  <2> QED BY <1>2, <1>4, FS_Surjection
<1> QED BY <1>1, <1>3, <1>5 DEF Distinct

(* The open rows of the model, as a function of the rows.                  *)
LEMMA OpenRowsAre == OpenRows = OpenOf(rows)
  BY DEF OpenRows, OpenOf

(* The stages in which a call is under way.                                *)
LEMMA InFlightIs == InFlight = {"lots", "account", "trades", "commit"}
  BY DEF InFlight

(* What is borrowed is never negative.                                     *)
LEMMA BorrowedIs == ASSUME NEW x \in Int PROVE Borrowed(x) \in Nat
<1>1. Max({0, -x}) = IF 0 >= -x THEN 0 ELSE -x
  BY LargerOfTwo
<1> QED BY <1>1 DEF Borrowed

(* It holds when a portfolio begins.                                       *)
LEMMA LedgerBegins == LedgerInit => LedgerInvariant
<1> SUFFICES ASSUME LedgerInit PROVE LedgerInvariant
  OBVIOUS
<1>1. /\ shorting \in BOOLEAN /\ memory = <<>> /\ call = [c \in Calls |-> "idle"]
      /\ work = [c \in Calls |-> NoCall] /\ rows = [i \in {} |-> 0]
      /\ account = [cash |-> Cash0, debt |-> 0]
      /\ journal = [cash |-> 0, inventory |-> 0, short |-> 0, result |-> 0]
      /\ accrued = {} /\ reload = [on |-> FALSE, rows |-> {}]
      /\ ahead = FALSE /\ overlapped = FALSE /\ overtaken = {} /\ lostUpdate = FALSE /\ lag = 0
  BY DEF LedgerInit
<1>2. memory \in Seq(LotSet) /\ DOMAIN memory = {} /\ DOMAIN rows = {} /\ Cash0 \in Nat
  <2>1. memory \in Seq(LotSet) /\ Len(memory) = 0
    BY <1>1, EmptySeq
  <2>2. DOMAIN memory = 1..0 /\ 1..0 = {}
    BY <2>1, LenProperties
  <2> QED BY <1>1, <2>1, <2>2, LedgerAssumption
<1>3. \A c \in Calls : call[c] = "idle" /\ work[c] = NoCall
  BY <1>1
<1>4. LedgerTyped
  <2>1. call \in [Calls -> Stages]
    BY <1>1 DEF Stages
  <2>2. work \in [Calls -> WorkSet]
    BY <1>1, NoCallFits
  <2>3. account \in [cash : Int, debt : Int] /\ journal \in FlowSet
    BY <1>1, <1>2 DEF FlowSet
  <2>4. RowsTyped(rows)
    BY <1>2 DEF RowsTyped
  <2>5. reload \in [on : BOOLEAN, rows : SUBSET LotSet] /\ reload.rows = {}
    BY <1>1
  <2>6. IsFiniteSet(reload.rows) /\ Distinct(reload.rows)
    BY <2>5, FS_EmptySet DEF Distinct
  <2> QED BY <1>1, <1>2, <2>1, <2>2, <2>3, <2>4, <2>5, <2>6 DEF LedgerTyped
<1>5. IdsKnown
  <2>1. reload.rows = {}
    BY <1>1
  <2> QED BY <1>2, <2>1 DEF IdsKnown, OwnIds
<1>6. CallsKnown
  <2>1. \A c \in Calls : call[c] \notin InFlight
    BY <1>3 DEF InFlight
  <2> QED BY <2>1 DEF CallsKnown
<1>7. Money
  <2>1. /\ journal.cash = 0 /\ journal.inventory = 0 /\ journal.short = 0 /\ journal.result = 0
        /\ account.cash = Cash0 /\ account.debt = 0
    BY <1>1
  <2>2. Borrowed(Cash0 + 0) = 0
    <3>1. Max({0, -(Cash0 + 0)}) = IF 0 >= -(Cash0 + 0) THEN 0 ELSE -(Cash0 + 0)
      BY <1>2, LargerOfTwo
    <3>2. 0 >= -(Cash0 + 0)
      BY <1>2
    <3> QED BY <3>1, <3>2 DEF Borrowed
  <2>3. JournalBalanced /\ CashMatchesJournal
    BY <1>2, <2>1 DEF JournalBalanced, CashMatchesJournal
  <2>4. DebtLagsByDrag
    BY <1>1, <2>1, <2>2 DEF DebtLagsByDrag
  <2>5. AccruedOnce
    BY <1>1 DEF AccruedOnce
  <2> QED BY <2>3, <2>4, <2>5 DEF Money
<1>8. BooksKept
  <2>1. OpenOf(rows) = {} /\ OpenLots(memory) = {} /\ OpenSet(memory) = {}
    BY <1>2 DEF OpenOf, OpenLots, OpenSet
  <2>2. Filling = {}
    <3>1. \A c \in FillIds : call[c] = "idle"
      BY <1>3, CallSets
    <3> QED BY <3>1 DEF Filling, InFlight
  <2>3. Mirrored(memory, rows) /\ OwnIds(memory)
    BY <1>2 DEF Mirrored, OwnIds
  <2>4. \A s \in {-1, 1} : CostOf(OpenOf(rows), s) = 0
    <3> SUFFICES ASSUME NEW s \in {-1, 1} PROVE CostOf({}, s) = 0
      BY <2>1
    <3> DEFINE g == [lot \in {} |-> lot.remaining * lot.cost]
               none == {lot \in {} : lot.side = s}
    <3>1. none = {}
      OBVIOUS
    <3> HIDE DEF g
    <3>2. SumFunctionOnSet(g, none) = 0
      BY <3>1, SumOnSet, SumEmpty
    <3> QED BY <3>2 DEF CostOf, g
  <2>5. journal.inventory = CostOf(OpenOf(rows), 1) /\ journal.short = CostOf(OpenOf(rows), -1)
    BY <1>1, <2>4
  <2>6. OneSided(memory) /\ SidesAgree(OpenOf(rows))
    BY <2>1 DEF OneSided, SidesAgree
  <2>7. ~reload.on
    BY <1>1
  <2> QED BY <2>2, <2>3, <2>5, <2>6, <2>7 DEF BooksKept
<1> QED BY <1>4, <1>5, <1>6, <1>7, <1>8 DEF LedgerInvariant

-----------------------------------------------------------------------------
(* What a step leaves alone.                                               *)

(* A call the step is not about.                                           *)
LEMMA OthersKnown ==
  ASSUME NEW d \in Calls, CallKnown(d, work[d]), work'[d] = work[d], call'[d] = call[d],
         call[d] = "lots" => \A id : (\E i \in DOMAIN memory : memory[i].id = id)
                                       => \E i \in DOMAIN memory' : memory'[i].id = id,
         d \notin overtaken' => d \notin overtaken /\ account' = account
  PROVE  CallKnown(d, work[d])'
<1> DEFINE w == work[d]
<1>1. CallKnown(d, w) /\ work'[d] = w
  OBVIOUS
<1> HIDE DEF w
<1>2. /\ Balanced(w.flows) /\ w.cashIn = w.flows.cash
      /\ d \in FillIds => \A lot \in w.opens : lot.id = d
      /\ d \in AccrualIds => /\ call[d] = "commit" /\ w.opens = {} /\ DOMAIN w.rows = {}
                             /\ w.flows.inventory = 0 /\ w.flows.short = 0
      /\ call[d] # "lots" => w.todo = {}
  BY <1>1 DEF CallKnown
<1>3. ASSUME call'[d] = "lots", NEW id \in w.todo
      PROVE  \E i \in DOMAIN LotsOf(w)' : LotsOf(w)'[i].id = id
  <2>1. \E i \in DOMAIN LotsOf(w) : LotsOf(w)[i].id = id
    BY <1>1, <1>3 DEF CallKnown
  <2>2. CASE w.held = <<>>
    BY <1>3, <2>1, <2>2 DEF LotsOf, w
  <2>3. CASE w.held # <<>>
    BY <1>3, <2>1, <2>3 DEF LotsOf, w
  <2> QED BY <2>2, <2>3
<1>4. ASSUME call'[d] = "commit", d \notin overtaken' PROVE Current(d, w)'
  <2>1. Current(d, w) /\ account' = account
    BY <1>1, <1>4 DEF CallKnown
  <2> QED BY <1>1, <2>1 DEF Current, w
<1>5. w' = w
  BY <1>1 DEF w
<1>6. CallKnown(d, w)'
  BY <1>2, <1>3, <1>4, <1>5 DEF CallKnown
<1> QED BY <1>6 DEF w

(* The fill under way, if the step changes none of its notes on the lots.  *)
LEMMA FollowsSame ==
  ASSUME NEW c, Follows(c, work[c]), memory' = memory, rows' = rows, journal' = journal,
         work'[c].held = work[c].held, work'[c].opens = work[c].opens,
         work'[c].rows = work[c].rows, work'[c].todo = work[c].todo,
         work'[c].flows.inventory = work[c].flows.inventory,
         work'[c].flows.short = work[c].flows.short
  PROVE  Follows(c, work[c])'
<1>1. \A id : Prospect(work[c], id)' = Prospect(work[c], id)
  BY DEF Prospect
<1>2. Value(memory, 1)' = Value(memory, 1) /\ Value(memory, -1)' = Value(memory, -1)
  BY DEF Value
<1> QED BY <1>1, <1>2 DEF Follows

(* Lots, rows and journal, when a step touches none of them.               *)
LEMMA BooksSame ==
  ASSUME ~overlapped => BooksKept, memory' = memory, rows' = rows, journal' = journal, reload' = reload,
         ahead' = ahead, overlapped' = overlapped, Filling' = Filling,
         \A c \in Filling : Follows(c, work[c]) => Follows(c, work[c])'
  PROVE  ~overlapped' => BooksKept'
  BY DEF BooksKept, OpenOf, Mirrored

(* Account and journal, when a step touches neither.                       *)
LEMMA MoneySame ==
  ASSUME Money, account' = account, journal' = journal, accrued' = accrued,
         lostUpdate' = lostUpdate, lag' = lag
  PROVE  Money'
  BY DEF Money, JournalBalanced, CashMatchesJournal, DebtLagsByDrag, AccruedOnce

(* Who has an id already, once a call has moved on.                        *)
LEMMA IdsSame ==
  ASSUME IdsKnown, memory' = memory, rows' = rows, reload' = reload,
         \A c : call[c] # "idle" => call'[c] # "idle",
         \A c : call[c] = "done" => call'[c] = "done"
  PROVE  IdsKnown'
  BY DEF IdsKnown

-----------------------------------------------------------------------------
(* The account of a fill.                                                  *)
LEMMA AccountKeeps ==
  ASSUME LedgerInvariant, NEW c \in Calls, AccountOfFill(c), shorting' = shorting
  PROVE  LedgerInvariant'
<1> USE DEF LedgerInvariant
<1> DEFINE w == work[c]
           newCash == account.cash + w.cashIn
           wrote == {"cash"} \cup (IF Borrowed(newCash) # account.debt THEN {"debt"} ELSE {})
           after == [w EXCEPT !.cash = newCash, !.debt = Borrowed(newCash), !.wrote = wrote]
<1>1. /\ c \in FillIds /\ call[c] = "account"
      /\ work' = [work EXCEPT ![c] = after] /\ call' = [call EXCEPT ![c] = "commit"]
      /\ overtaken' = overtaken \ {c}
      /\ memory' = memory /\ rows' = rows /\ account' = account /\ journal' = journal
      /\ accrued' = accrued /\ reload' = reload /\ ahead' = ahead /\ overlapped' = overlapped
      /\ lostUpdate' = lostUpdate /\ lag' = lag
  BY DEF AccountOfFill
<1>2. w \in WorkSet /\ account.cash \in Int /\ account.debt \in Int
  BY DEF LedgerTyped
<1>3. CallKnown(c, w)
  BY <1>1 DEF CallsKnown, InFlight
<1>4. newCash \in Int /\ Borrowed(newCash) \in Int /\ wrote \in SUBSET {"cash", "debt"}
  <2>1. newCash \in Int
    BY <1>2 DEF WorkSet
  <2> HIDE DEF newCash
  <2>2. Borrowed(newCash) \in Int
    BY <2>1, BorrowedIs
  <2> QED BY <2>1, <2>2
<1>5. "cash" \in wrote /\ ("debt" \in wrote \/ Borrowed(newCash) = account.debt)
  OBVIOUS
<1> HIDE DEF newCash, wrote
<1>v. PICK v : v = after
  OBVIOUS
<1>6. /\ v \in WorkSet /\ v.cash = newCash /\ v.debt = Borrowed(newCash) /\ v.wrote = wrote
      /\ v.held = w.held /\ v.todo = w.todo /\ v.rows = w.rows /\ v.opens = w.opens
      /\ v.flows = w.flows /\ v.cashIn = w.cashIn
  BY <1>2, <1>4, <1>v DEF WorkSet
<1> HIDE DEF after
<1>7. /\ work'[c] = v /\ call'[c] = "commit"
      /\ \A d \in Calls : d # c => work'[d] = work[d] /\ call'[d] = call[d]
      /\ \A d : call[d] # "idle" => call'[d] # "idle"
      /\ \A d : call[d] = "done" => call'[d] = "done"
      /\ work' \in [Calls -> WorkSet] /\ call' \in [Calls -> Stages]
  BY <1>1, <1>6, <1>v DEF LedgerTyped, Stages
<1>8. LedgerTyped'
  BY <1>1, <1>7 DEF LedgerTyped, RowsTyped, Distinct
<1>9. IdsKnown'
  BY <1>1, <1>7, IdsSame
<1>10. CallKnown(c, work[c])'
  <2>1. /\ Balanced(v.flows) /\ v.cashIn = v.flows.cash
        /\ \A lot \in v.opens : lot.id = c
        /\ v.todo = {}
    BY <1>1, <1>3, <1>6 DEF CallKnown
  <2>2. Current(c, v)'
    <3>1. c \notin AccrualIds
      BY <1>1, CallSets
    <3>2. v.cash = account.cash + v.flows.cash
      BY <1>3, <1>6 DEF CallKnown, newCash
    <3> QED BY <1>1, <1>5, <1>6, <1>7, <3>1, <3>2 DEF Current
  <2>3. c \notin AccrualIds
    BY <1>1, CallSets
  <2> QED BY <1>7, <2>1, <2>2, <2>3 DEF CallKnown
<1>11. CallsKnown'
  <2> SUFFICES ASSUME NEW d \in Calls, call'[d] \in InFlight PROVE CallKnown(d, work[d])'
    BY DEF CallsKnown, InFlight
  <2>1. CASE d = c
    BY <1>10, <2>1
  <2>2. CASE d # c
    <3>1. CallKnown(d, work[d])
      BY <1>7, <2>2 DEF CallsKnown
    <3> QED BY <1>1, <1>7, <2>2, <3>1, OthersKnown
  <2> QED BY <2>1, <2>2
<1>12. Money'
  BY <1>1, MoneySame
<1>13. ~overlapped' => BooksKept'
  <2>1. Filling' = Filling
    <3>1. \A d \in FillIds : call'[d] \in InFlight <=> call[d] \in InFlight
      BY <1>1, <1>7, CallSets DEF InFlight
    <3> QED BY <3>1 DEF Filling, InFlight
  <2>2. ASSUME NEW d \in Filling, Follows(d, work[d]) PROVE Follows(d, work[d])'
    <3>1. d \in Calls
      BY CallSets DEF Filling
    <3>2. /\ work'[d].held = work[d].held /\ work'[d].opens = work[d].opens
          /\ work'[d].rows = work[d].rows /\ work'[d].todo = work[d].todo
          /\ work'[d].flows = work[d].flows
      BY <1>6, <1>7, <3>1
    <3> QED BY <1>1, <2>2, <3>2, FollowsSame
  <2> QED BY <1>1, <2>1, <2>2, BooksSame
<1> QED BY <1>8, <1>9, <1>11, <1>12, <1>13

-----------------------------------------------------------------------------
(* A row a fill has looked up.                                             *)
LEMMA NotesAdd ==
  ASSUME NEW r \in RowNotes, NEW id \in FillIds, NEW left \in Nat,
         NEW f, f = Noted(r, id, left)
  PROVE  f \in RowNotes /\ DOMAIN f = DOMAIN r \cup {id} /\ f[id] = left
<1>1. PICK I \in SUBSET FillIds : r \in [I -> Nat]
  BY DEF RowNotes
<1>2. f = [x \in I \cup {id} |-> IF x = id THEN left ELSE r[x]]
  BY <1>1 DEF Noted
<1>3. DOMAIN f = I \cup {id} /\ f[id] = left
  BY <1>2
<1>4. f \in [I \cup {id} -> Nat]
  BY <1>1, <1>2
<1>5. I \cup {id} \in SUBSET FillIds
  OBVIOUS
<1>6. f \in RowNotes
  BY <1>4, <1>5 DEF RowNotes
<1> QED BY <1>1, <1>3, <1>6

(* The select of a depleted lot's row.                                     *)
LEMMA DepletedKeeps ==
  ASSUME LedgerInvariant, NEW c \in Calls, DepletedRow(c), shorting' = shorting
  PROVE  LedgerInvariant'
<1> USE DEF LedgerInvariant
<1> DEFINE w == work[c]
<1> DEFINE lots == LotsOf(w)
<1>1. PICK id \in w.todo :
        LET left == lots[CHOOSE i \in DOMAIN lots : lots[i].id = id].remaining
        IN  /\ call[c] = "lots"
            /\ work' = [work EXCEPT ![c] =
                 [w EXCEPT !.todo = @ \ {id},
                           !.rows = IF id \in DOMAIN rows /\ rows[id].remaining # left
                                    THEN Noted(@, id, left) ELSE @]]
            /\ call' = [call EXCEPT ![c] = IF w.todo = {id} THEN "account" ELSE "lots"]
            /\ UNCHANGED <<memory, rows, account, journal, accrued, reload, ledgerHistory>>
  BY Zenon DEF DepletedRow, LotsOf
<1> DEFINE at == CHOOSE i \in DOMAIN lots : lots[i].id = id
           left == lots[at].remaining
           wide == Noted(w.rows, id, left)
           notes == IF id \in DOMAIN rows /\ rows[id].remaining # left THEN wide ELSE w.rows
           after == [w EXCEPT !.todo = w.todo \ {id}, !.rows = notes]
<1>2. /\ call[c] = "lots"
      /\ work' = [work EXCEPT ![c] = after]
      /\ call' = [call EXCEPT ![c] = IF w.todo = {id} THEN "account" ELSE "lots"]
      /\ memory' = memory /\ rows' = rows /\ account' = account /\ journal' = journal
      /\ accrued' = accrued /\ reload' = reload /\ ahead' = ahead /\ overlapped' = overlapped
      /\ overtaken' = overtaken /\ lostUpdate' = lostUpdate /\ lag' = lag
  BY <1>1 DEF ledgerHistory
<1>3. w \in WorkSet /\ memory \in Seq(LotSet)
  BY DEF LedgerTyped
<1>4. CallKnown(c, w)
  BY <1>2 DEF CallsKnown, InFlight
<1>5. lots \in Seq(LotSet) /\ id \in FillIds /\ w.rows \in RowNotes
  BY <1>3 DEF LotsOf, WorkSet
<1>6. at \in DOMAIN lots /\ lots[at].id = id
  BY <1>2, <1>4 DEF CallKnown
<1>7. left \in Nat
  <2> HIDE DEF at, lots
  <2> QED BY <1>5, <1>6, LotsTyped DEF left
<1> HIDE DEF at, left, wide
<1>8. /\ wide \in RowNotes /\ DOMAIN wide = DOMAIN w.rows \cup {id} /\ wide[id] = left
      /\ \A x \in DOMAIN w.rows : x # id => wide[x] = w.rows[x]
  <2>r. PICK r, l, f : r = w.rows /\ l = left /\ f = wide
    OBVIOUS
  <2>1. r \in RowNotes /\ l \in Nat /\ f = Noted(r, id, l) /\ id \in FillIds
    BY <1>5, <1>7, <2>r DEF wide
  <2>2. f \in RowNotes /\ DOMAIN f = DOMAIN r \cup {id} /\ f[id] = l
    BY <2>1, NotesAdd
  <2>3. \A x \in DOMAIN r : x # id => f[x] = r[x]
    <3>1. \A x \in DOMAIN r : x # id => Noted(r, id, l)[x] = r[x]
      BY DEF Noted
    <3> QED BY <2>1, <3>1
  <2> QED BY <2>2, <2>3, <2>r
<1>9. notes \in RowNotes
  BY <1>5, <1>8
<1>v. PICK v : v = after
  OBVIOUS
<1> HIDE DEF notes
<1>10. /\ v \in WorkSet /\ v.todo = w.todo \ {id} /\ v.rows = notes /\ v.held = w.held
       /\ v.opens = w.opens /\ v.flows = w.flows /\ v.cashIn = w.cashIn
  BY <1>3, <1>9, <1>v DEF WorkSet
<1> HIDE DEF after
<1>11. /\ work'[c] = v /\ call'[c] = IF w.todo = {id} THEN "account" ELSE "lots"
       /\ \A d \in Calls : d # c => work'[d] = work[d] /\ call'[d] = call[d]
       /\ \A d : call[d] # "idle" => call'[d] # "idle"
       /\ \A d : call[d] = "done" => call'[d] = "done"
       /\ work' \in [Calls -> WorkSet] /\ call' \in [Calls -> Stages]
  BY <1>2, <1>10, <1>v DEF LedgerTyped, Stages
<1>12. c \in FillIds /\ c \notin AccrualIds
  BY <1>2, <1>4, CallSets DEF CallKnown
<1>13. LedgerTyped'
  BY <1>2, <1>11 DEF LedgerTyped, RowsTyped, Distinct
<1>14. IdsKnown'
  BY <1>2, <1>11, IdsSame
<1>15. CallKnown(c, work[c])'
  <2>1. /\ Balanced(v.flows) /\ v.cashIn = v.flows.cash
        /\ \A lot \in v.opens : lot.id = c
    BY <1>4, <1>10, <1>12 DEF CallKnown
  <2>2. ASSUME NEW x \in v.todo PROVE \E i \in DOMAIN LotsOf(v)' : LotsOf(v)'[i].id = x
    <3>1. LotsOf(v)' = lots
      BY <1>2, <1>10 DEF LotsOf
    <3>2. \E i \in DOMAIN LotsOf(w) : LotsOf(w)[i].id = x
      BY <1>2, <1>4, <1>10 DEF CallKnown
    <3> QED BY <3>1, <3>2
  <2>3. call'[c] # "lots" => v.todo = {}
    BY <1>10, <1>11
  <2>4. call'[c] # "commit"
    BY <1>11
  <2> QED BY <1>11, <1>12, <2>1, <2>2, <2>3, <2>4 DEF CallKnown
<1>16. CallsKnown'
  <2> SUFFICES ASSUME NEW d \in Calls, call'[d] \in InFlight PROVE CallKnown(d, work[d])'
    BY DEF CallsKnown, InFlight
  <2>1. CASE d = c
    BY <1>15, <2>1
  <2>2. CASE d # c
    <3>1. CallKnown(d, work[d])
      BY <1>11, <2>2 DEF CallsKnown
    <3> QED BY <1>2, <1>11, <2>2, <3>1, OthersKnown
  <2> QED BY <2>1, <2>2
<1>17. Money'
  BY <1>2, MoneySame
<1>18. ASSUME Follows(c, w) PROVE Follows(c, work[c])'
  <2>1. /\ w.held = <<>>
        /\ w.opens = {memory[i] : i \in {j \in DOMAIN memory : memory[j].id = c}}
        /\ DOMAIN w.rows \cap w.todo = {}
        /\ \A x \in DOMAIN w.rows : x # c /\ \E i \in DOMAIN memory : memory[i].id = x
        /\ \A i \in DOMAIN memory : memory[i].id # c =>
             /\ memory[i].id \in DOMAIN rows
             /\ memory[i] = [rows[memory[i].id] EXCEPT !.remaining = memory[i].remaining]
             /\ memory[i].id \notin w.todo => memory[i].remaining = Prospect(w, memory[i].id)
        /\ \A x \in DOMAIN rows : rows[x].remaining > 0 => \E i \in DOMAIN memory : memory[i].id = x
        /\ journal.inventory + w.flows.inventory = Value(memory, 1)
        /\ journal.short + w.flows.short = Value(memory, -1)
    BY <1>18 DEF Follows
  <2>2. lots = memory
    BY <2>1 DEF LotsOf
  <2>3. \A i \in DOMAIN memory : memory[i].id = id => memory[i].remaining = left
    <3>1. OwnIds(memory)
      BY DEF IdsKnown
    <3> QED BY <1>6, <2>2, <3>1 DEF OwnIds, left
  <2>4. id \in DOMAIN rows => id # c
    BY <1>2 DEF IdsKnown
  <2>5. DOMAIN notes \cap v.todo = {}
    BY <1>8, <1>10, <2>1 DEF notes
  <2>6. \A x \in DOMAIN notes : x # c /\ \E i \in DOMAIN memory : memory[i].id = x
    <3>1. \E i \in DOMAIN memory : memory[i].id = id
      BY <1>6, <2>2
    <3> QED BY <1>8, <2>1, <2>4, <3>1 DEF notes
  <2>7. ASSUME NEW i \in DOMAIN memory, memory[i].id # c, memory[i].id \notin v.todo
        PROVE  memory[i].remaining = Prospect(v, memory[i].id)
    <3>1. CASE memory[i].id = id
      <4>1. id \in DOMAIN rows /\ memory[i].remaining = left /\ id \notin DOMAIN w.rows
        BY <2>1, <2>3, <2>7, <3>1
      <4> QED BY <1>8, <1>10, <3>1, <4>1 DEF Prospect, notes
    <3>2. CASE memory[i].id # id
      <4>1. memory[i].remaining = Prospect(w, memory[i].id)
        BY <1>10, <2>1, <2>7, <3>2
      <4>2. Prospect(v, memory[i].id) = Prospect(w, memory[i].id)
        BY <1>8, <1>10, <3>2 DEF Prospect, notes
      <4> QED BY <4>1, <4>2
    <3> QED BY <3>1, <3>2
  <2>8. \A x : Prospect(v, x)' = Prospect(v, x)
    BY <1>2 DEF Prospect
  <2>9. Value(memory, 1)' = Value(memory, 1) /\ Value(memory, -1)' = Value(memory, -1)
    BY <1>2 DEF Value
  <2>10. Follows(c, v)'
    BY <1>2, <1>10, <2>1, <2>5, <2>6, <2>7, <2>8, <2>9 DEF Follows
  <2> QED BY <1>11, <2>10
<1>19. ~overlapped' => BooksKept'
  <2>1. Filling' = Filling
    <3>1. \A d \in FillIds : call'[d] \in InFlight <=> call[d] \in InFlight
      BY <1>2, <1>11, CallSets DEF InFlight
    <3> QED BY <3>1 DEF Filling, InFlight
  <2>2. ASSUME NEW d \in Filling, Follows(d, work[d]) PROVE Follows(d, work[d])'
    <3>1. d \in Calls
      BY CallSets DEF Filling
    <3>2. CASE d = c
      BY <1>18, <2>2, <3>2
    <3>3. CASE d # c
      <4>1. work'[d] = work[d]
        BY <1>11, <3>1, <3>3
      <4> QED BY <1>2, <2>2, <4>1, FollowsSame
    <3> QED BY <3>2, <3>3
  <2> QED BY <1>2, <2>1, <2>2, BooksSame
<1> QED BY <1>13, <1>14, <1>16, <1>17, <1>19, SMTT(30)

-----------------------------------------------------------------------------
(* A commit that fails.                                                    *)
LEMMA FailKeeps ==
  ASSUME LedgerInvariant, NEW c \in Calls, CommitFails(c), shorting' = shorting
  PROVE  LedgerInvariant'
<1> USE DEF LedgerInvariant
<1>1. /\ call[c] = "commit"
      /\ work' = [work EXCEPT ![c] = NoCall] /\ call' = [call EXCEPT ![c] = "failed"]
      /\ overtaken' = overtaken \ {c} /\ ahead' = (ahead \/ c \in FillIds)
      /\ memory' = memory /\ rows' = rows /\ account' = account /\ journal' = journal
      /\ accrued' = accrued /\ reload' = reload /\ overlapped' = overlapped
      /\ lostUpdate' = lostUpdate /\ lag' = lag
  BY DEF CommitFails
<1>2. /\ work'[c] = NoCall /\ call'[c] = "failed"
      /\ \A d \in Calls : d # c => work'[d] = work[d] /\ call'[d] = call[d]
      /\ \A d : call[d] # "idle" => call'[d] # "idle"
      /\ \A d : call[d] = "done" => call'[d] = "done"
      /\ work' \in [Calls -> WorkSet] /\ call' \in [Calls -> Stages]
  BY <1>1, NoCallFits DEF LedgerTyped, Stages
<1>3. ahead' \in BOOLEAN
  BY <1>1
<1>4. LedgerTyped'
  BY <1>1, <1>2, <1>3 DEF LedgerTyped, RowsTyped, Distinct
<1>5. IdsKnown'
  BY <1>1, <1>2, IdsSame
<1>6. CallsKnown'
  <2> SUFFICES ASSUME NEW d \in Calls, call'[d] \in InFlight PROVE CallKnown(d, work[d])'
    BY DEF CallsKnown, InFlight
  <2>1. d # c
    BY <1>2 DEF InFlight
  <2>2. CallKnown(d, work[d])
    BY <1>2, <2>1 DEF CallsKnown
  <2> QED BY <1>1, <1>2, <2>1, <2>2, OthersKnown
<1>7. Money'
  BY <1>1, MoneySame
<1>8. ASSUME ~overlapped' PROVE BooksKept'
  <2>1. BooksKept
    BY <1>1, <1>8
  <2>2. CASE c \in FillIds
    <3>1. Filling' \subseteq Filling
      <4>1. \A d \in FillIds : call'[d] \in InFlight => call[d] \in InFlight
        BY <1>1, <1>2, CallSets DEF InFlight
      <4> QED BY <4>1 DEF Filling, InFlight
    <3>2. ahead' = TRUE
      BY <1>1, <2>2
    <3> QED BY <1>1, <2>1, <3>1, <3>2 DEF BooksKept, OpenOf
  <2>3. CASE c \notin FillIds
    <3>1. Filling' = Filling
      <4>1. \A d \in FillIds : call'[d] = call[d]
        BY <1>2, <2>3, CallSets
      <4> QED BY <4>1 DEF Filling, InFlight
    <3>2. ahead' = ahead
      <4>1. ahead \in BOOLEAN
        BY DEF LedgerTyped
      <4> QED BY <1>1, <2>3, <4>1, Zenon
    <3>3. ASSUME NEW d \in Filling, Follows(d, work[d]) PROVE Follows(d, work[d])'
      <4>1. work'[d] = work[d]
        BY <1>2, <2>3, CallSets DEF Filling
      <4> QED BY <1>1, <3>3, <4>1, FollowsSame
    <3> QED BY <1>1, <1>8, <3>1, <3>2, <3>3, BooksSame
  <2> QED BY <2>2, <2>3
<1> QED BY <1>4, <1>5, <1>6, <1>7, <1>8

-----------------------------------------------------------------------------
(* Reloads and restarts.                                                   *)
LEMMA ReadsKeep ==
  ASSUME LedgerInvariant, RehydrateReads, shorting' = shorting
  PROVE  LedgerInvariant'
<1> USE DEF LedgerInvariant
<1>1. /\ reload' = [on |-> TRUE, rows |-> OpenOf(rows)]
      /\ overlapped' = (overlapped \/ Busy # {})
      /\ work' = work /\ call' = call /\ overtaken' = overtaken /\ ahead' = ahead
      /\ memory' = memory /\ rows' = rows /\ account' = account /\ journal' = journal
      /\ accrued' = accrued /\ lostUpdate' = lostUpdate /\ lag' = lag
  BY OpenRowsAre DEF RehydrateReads
<1>2. RowsTyped(rows)
  BY DEF LedgerTyped
<1>3. /\ OpenOf(rows) \in SUBSET LotSet /\ IsFiniteSet(OpenOf(rows)) /\ Distinct(OpenOf(rows))
      /\ \A lot \in OpenOf(rows) : lot.id \in DOMAIN rows
  BY <1>2, OpenRowsFit
<1>4. LedgerTyped'
  <2>1. overlapped' \in BOOLEAN
    BY <1>1
  <2>2. reload' \in [on : BOOLEAN, rows : SUBSET LotSet] /\ reload'.rows = OpenOf(rows)
    <3> HIDE DEF OpenOf
    <3> QED BY <1>1, <1>3
  <2> QED BY <1>1, <1>3, <2>1, <2>2 DEF LedgerTyped, RowsTyped, Distinct
<1>5. IdsKnown'
  BY <1>1, <1>3 DEF IdsKnown
<1>6. CallsKnown'
  <2> SUFFICES ASSUME NEW d \in Calls, call'[d] \in InFlight PROVE CallKnown(d, work[d])'
    BY DEF CallsKnown, InFlight
  <2>1. CallKnown(d, work[d])
    BY <1>1 DEF CallsKnown
  <2> QED BY <1>1, <2>1, OthersKnown
<1>7. Money'
  BY <1>1, MoneySame
<1>8. ASSUME ~overlapped' PROVE BooksKept'
  <2>1. BooksKept /\ Busy = {}
    BY <1>1, <1>8
  <2>2. Filling = {} /\ Filling' = {}
    <3>1. \A d \in FillIds : call[d] \notin InFlight
      BY <2>1, CallSets DEF Busy
    <3> QED BY <1>1, <3>1 DEF Filling, InFlight
  <2> QED BY <1>1, <2>1, <2>2 DEF BooksKept, OpenOf, Mirrored
<1> QED BY <1>4, <1>5, <1>6, <1>7, <1>8

(* The lots that a reload leaves, if no fill is under way.                 *)
LEMMA ReloadedBooks ==
  ASSUME BooksKept, RowsTyped(rows), RowsTyped(rows)', rows' = rows, journal' = journal, reload'.on = FALSE,
         Filling' = {}, Lists(memory', OpenOf(rows))
  PROVE  BooksKept'
<1>1. OneSided(memory') /\ SidesAgree(OpenOf(rows))
  BY ListedSides DEF BooksKept
<1>2. Mirrored(memory', rows)
  BY ReloadMirrors DEF RowsTyped
<1> QED BY <1>1, <1>2 DEF BooksKept, OpenOf, Mirrored, OneSided, OpenLots

(* The lots are replaced; a call under way keeps the old ones.             *)
LEMMA LoadsKeep ==
  ASSUME LedgerInvariant, RehydrateLoads, shorting' = shorting
  PROVE  LedgerInvariant'
<1> USE DEF LedgerInvariant
<1>1. /\ reload.on /\ memory' = ByTime(reload.rows) /\ work' = HeldLots
      /\ reload' = [on |-> FALSE, rows |-> {}] /\ ahead' = FALSE
      /\ call' = call /\ overtaken' = overtaken /\ overlapped' = overlapped
      /\ rows' = rows /\ account' = account /\ journal' = journal
      /\ accrued' = accrued /\ lostUpdate' = lostUpdate /\ lag' = lag
  BY DEF RehydrateLoads
<1>2. /\ reload.rows \in SUBSET LotSet /\ IsFiniteSet(reload.rows) /\ Distinct(reload.rows)
      /\ memory \in Seq(LotSet) /\ RowsTyped(rows) /\ \A d \in Calls : work[d] \in WorkSet
  BY DEF LedgerTyped
<1>3. Lists(memory', reload.rows)
  BY <1>1, <1>2, ByTimeIs
<1> DEFINE holds(d) == call[d] = "lots" /\ work[d].held = <<>>
<1>4. \A d \in Calls : work'[d] = IF holds(d) THEN [work[d] EXCEPT !.held = memory] ELSE work[d]
  BY <1>1 DEF HeldLots
<1>5. ASSUME NEW d \in Calls, holds(d)
      PROVE  /\ work'[d] \in WorkSet /\ work'[d].held = memory
             /\ work'[d].todo = work[d].todo /\ work'[d].rows = work[d].rows
             /\ work'[d].opens = work[d].opens /\ work'[d].flows = work[d].flows
             /\ work'[d].cashIn = work[d].cashIn
  <2>1. work'[d] = [work[d] EXCEPT !.held = memory] /\ work[d] \in WorkSet
    BY <1>2, <1>4, <1>5
  <2> QED BY <1>2, <2>1, Zenon DEF WorkSet
<1>6. work' \in [Calls -> WorkSet]
  <2>1. work' = [d \in Calls |-> work'[d]]
    BY <1>1 DEF HeldLots
  <2>2. \A d \in Calls : work'[d] \in WorkSet
    BY <1>2, <1>4, <1>5
  <2> QED BY <2>1, <2>2
<1>7. LedgerTyped'
  <2>1. reload' \in [on : BOOLEAN, rows : SUBSET LotSet] /\ reload'.rows = {}
    BY <1>1
  <2>2. IsFiniteSet(reload'.rows) /\ Distinct(reload'.rows)
    BY <2>1, FS_EmptySet DEF Distinct
  <2>3. memory' \in Seq(LotSet) /\ ahead' \in BOOLEAN
    BY <1>1, <1>3 DEF Lists
  <2> QED BY <1>1, <1>6, <2>1, <2>2, <2>3 DEF LedgerTyped, RowsTyped, Distinct
<1>8. IdsKnown'
  <2>1. OwnIds(memory') /\ \A i \in DOMAIN memory' : memory'[i] \in reload.rows
    BY <1>3 DEF Lists
  <2>2. reload'.rows = {}
    BY <1>1
  <2> QED BY <1>1, <2>1, <2>2 DEF IdsKnown, OwnIds
<1>9. CallsKnown'
  <2> SUFFICES ASSUME NEW d \in Calls, call'[d] \in InFlight PROVE CallKnown(d, work[d])'
    BY DEF CallsKnown, InFlight
  <2>1. CallKnown(d, work[d]) /\ call'[d] = call[d]
    BY <1>1 DEF CallsKnown
  <2>2. CASE holds(d)
    <3>v. PICK v : v = work'[d]
      OBVIOUS
    <3>1. /\ v.held = memory /\ v.todo = work[d].todo /\ v.rows = work[d].rows
          /\ v.opens = work[d].opens /\ v.flows = work[d].flows /\ v.cashIn = work[d].cashIn
      BY <1>5, <2>2, <3>v
    <3>2. ASSUME NEW id \in v.todo PROVE \E i \in DOMAIN LotsOf(v)' : LotsOf(v)'[i].id = id
      <4>1. PICK i \in DOMAIN memory : memory[i].id = id
        BY <2>1, <2>2, <3>1 DEF CallKnown, LotsOf
      <4>2. memory # <<>>
        <5>1. DOMAIN <<>> = {}
          <6>1. <<>> \in Seq(Nat) /\ Len(<<>>) = 0
            BY EmptySeq
          <6>2. 1..0 = {}
            OBVIOUS
          <6> QED BY <6>1, <6>2, LenProperties
        <5> QED BY <4>1, <5>1
      <4>3. LotsOf(v)' = memory
        BY <3>1, <4>2 DEF LotsOf
      <4> QED BY <4>1, <4>3
    <3>3. call'[d] = "lots"
      BY <2>1, <2>2
    <3>4. CallKnown(d, v)'
      BY <2>1, <2>2, <3>1, <3>2, <3>3 DEF CallKnown
    <3> QED BY <3>4, <3>v
  <2>3. CASE ~holds(d)
    <3>v. PICK v : v = work[d]
      OBVIOUS
    <3>1. work'[d] = v
      BY <1>4, <2>3, <3>v
    <3>2. call'[d] = "lots" => LotsOf(v)' = LotsOf(v)
      BY <2>1, <2>3, <3>v DEF LotsOf
    <3>3. Current(d, v) => Current(d, v)'
      BY <1>1 DEF Current
    <3>4. CallKnown(d, v)
      BY <2>1, <3>v
    <3>5. CallKnown(d, v)'
      BY <1>1, <2>1, <3>2, <3>3, <3>4 DEF CallKnown
    <3> QED BY <3>1, <3>5
  <2> QED BY <2>2, <2>3
<1>10. Money'
  BY <1>1, MoneySame
<1>11. ASSUME ~overlapped' PROVE BooksKept'
  <2>1. BooksKept /\ reload.rows = OpenOf(rows) /\ Filling = {}
    BY <1>1, <1>11 DEF BooksKept
  <2>2. Filling' = {}
    BY <1>1, <2>1 DEF Filling, InFlight
  <2>3. RowsTyped(rows)' /\ reload'.on = FALSE
    BY <1>1, <1>7 DEF LedgerTyped
  <2> QED BY <1>1, <1>2, <1>3, <2>1, <2>2, <2>3, ReloadedBooks
<1> QED BY <1>7, <1>8, <1>9, <1>10, <1>11

(* A new process has the committed rows and no call.                       *)
LEMMA RestartKeeps ==
  ASSUME LedgerInvariant, LedgerRestart, shorting' = shorting
  PROVE  LedgerInvariant'
<1> USE DEF LedgerInvariant
<1>1. /\ memory' = ByTime(OpenOf(rows)) /\ work' = [c \in Calls |-> NoCall]
      /\ call' = [c \in Calls |-> IF c \in Busy THEN "failed" ELSE call[c]]
      /\ reload' = [on |-> FALSE, rows |-> {}] /\ ahead' = FALSE
      /\ overtaken' = {} /\ overlapped' = overlapped
      /\ rows' = rows /\ account' = account /\ journal' = journal
      /\ accrued' = accrued /\ lostUpdate' = lostUpdate /\ lag' = lag
  BY OpenRowsAre DEF LedgerRestart
<1>2. RowsTyped(rows) /\ \A d \in Calls : call[d] \in Stages
  BY DEF LedgerTyped
<1>3. /\ OpenOf(rows) \in SUBSET LotSet /\ IsFiniteSet(OpenOf(rows)) /\ Distinct(OpenOf(rows))
      /\ \A lot \in OpenOf(rows) : lot.id \in DOMAIN rows /\ lot.id \in Calls
  <2>1. \A lot \in OpenOf(rows) : lot.id \in DOMAIN rows
    BY <1>2, OpenRowsFit
  <2>2. \A id \in DOMAIN rows : id \in Calls
    <3>1. \A id \in DOMAIN rows : id \in FillIds
      BY <1>2 DEF RowsTyped, LotSet
    <3> QED BY <3>1, CallSets
  <2> QED BY <1>2, <2>1, <2>2, OpenRowsFit
<1>4. Lists(memory', OpenOf(rows))
  <2> HIDE DEF OpenOf
  <2> QED BY <1>1, <1>3, ByTimeIs
<1>5. /\ call' \in [Calls -> Stages]
      /\ \A d \in Calls : /\ call'[d] \notin InFlight
                          /\ call[d] = "done" => call'[d] = "done"
  BY <1>1, <1>2 DEF Stages, Busy, InFlight
<1>6. LedgerTyped'
  <2>1. reload' \in [on : BOOLEAN, rows : SUBSET LotSet] /\ reload'.rows = {}
    BY <1>1
  <2>2. IsFiniteSet(reload'.rows) /\ Distinct(reload'.rows)
    BY <2>1, FS_EmptySet DEF Distinct
  <2>3. memory' \in Seq(LotSet) /\ ahead' \in BOOLEAN /\ work' \in [Calls -> WorkSet]
    BY <1>1, <1>4, NoCallFits DEF Lists
  <2> QED BY <1>1, <1>5, <2>1, <2>2, <2>3 DEF LedgerTyped, RowsTyped, Distinct
<1>7. IdsKnown'
  <2>1. OwnIds(memory') /\ \A i \in DOMAIN memory' : memory'[i] \in OpenOf(rows)
    BY <1>4 DEF Lists
  <2>2. reload'.rows = {}
    BY <1>1
  <2>3. \A id \in DOMAIN rows : call'[id] = "done"
    <3>1. \A id \in DOMAIN rows : id \in Calls
      <4>1. \A id \in DOMAIN rows : id \in FillIds
        BY <1>2 DEF RowsTyped, LotSet
      <4> QED BY <4>1, CallSets
    <3> QED BY <1>5, <3>1 DEF IdsKnown
  <2>4. \A i \in DOMAIN memory' : call'[memory'[i].id] # "idle"
    BY <1>3, <2>1, <2>3
  <2> QED BY <1>1, <2>1, <2>2, <2>3, <2>4 DEF IdsKnown, OwnIds
<1>8. CallsKnown'
  BY <1>5 DEF CallsKnown, InFlight
<1>9. Money'
  BY <1>1, MoneySame
<1>10. ASSUME ~overlapped' PROVE BooksKept'
  <2>1. BooksKept
    BY <1>1, <1>10
  <2>2. Filling' = {}
    BY <1>5, CallSets DEF Filling, InFlight
  <2>3. RowsTyped(rows)' /\ reload'.on = FALSE
    BY <1>1, <1>6 DEF LedgerTyped
  <2> QED BY <1>1, <1>2, <1>4, <2>1, <2>2, <2>3, ReloadedBooks
<1> QED BY <1>6, <1>7, <1>8, <1>9, <1>10

-----------------------------------------------------------------------------
(* The end of a day.                                                       *)

(* An accrual writes no row, and leaves inventory and short liability.     *)
LEMMA AccrueKeeps ==
  ASSUME LedgerInvariant, NEW c \in AccrualIds, NEW date \in Dates, NEW unitPrice \in Prices,
         AccrueEod(c, date, unitPrice), shorting' = shorting
  PROVE  LedgerInvariant'
<1> USE DEF LedgerInvariant
<1> DEFINE drag == MarginInterest(account.cash) + BorrowFees(Position(memory), unitPrice)
           newCash == account.cash - drag
           debt == Borrowed(account.cash)
           wrote == {a \in {"cash", "debt"} : IF a = "cash" THEN drag # 0 ELSE debt # account.debt}
           flows == [cash |-> -drag, inventory |-> 0, short |-> 0, result |-> -drag]
           after == [NoCall EXCEPT !.date = date, !.cash = newCash, !.debt = debt,
                       !.wrote = wrote, !.flows = flows, !.cashIn = -drag]
<1>1. /\ call[c] = "idle"
      /\ work' = [work EXCEPT ![c] = after] /\ call' = [call EXCEPT ![c] = "commit"]
      /\ memory' = memory /\ rows' = rows /\ account' = account /\ journal' = journal
      /\ accrued' = accrued /\ reload' = reload /\ ahead' = ahead /\ overlapped' = overlapped
      /\ overtaken' = overtaken /\ lostUpdate' = lostUpdate /\ lag' = lag
  BY DEF AccrueEod, ledgerHistory
<1>2. /\ account.cash \in Int /\ account.debt \in Int /\ memory \in Seq(LotSet)
      /\ c \in Calls /\ c \notin FillIds
  BY CallSets DEF LedgerTyped
<1>3. drag \in Int /\ debt \in Int
  <2>1. MarginRate \in Nat /\ BorrowRate \in Nat /\ unitPrice \in Int
    BY LedgerAssumption
  <2>2. Position(memory) \in Int
    BY <1>2, PositionIs
  <2>p. PICK p : p = Position(memory)
    OBVIOUS
  <2>3. Max({0, -p}) \in Int
    <3>1. p \in Int /\ -p \in Int
      BY <2>2, <2>p
    <3>2. Max({0, -p}) = IF 0 >= -p THEN 0 ELSE -p
      BY <3>1, LargerOfTwo
    <3> QED BY <3>1, <3>2
  <2>4. debt \in Nat
    BY <1>2, BorrowedIs
  <2>5. MarginInterest(account.cash) = MarginRate * debt
    BY DEF MarginInterest
  <2>6. BorrowFees(Position(memory), unitPrice) = BorrowRate * unitPrice * Max({0, -p})
    BY <2>p DEF BorrowFees
  <2> HIDE DEF debt
  <2>7. MarginRate * debt \in Int
    BY <2>1, <2>4
  <2>m. PICK m : m = Max({0, -p})
    OBVIOUS
  <2>8. BorrowRate * unitPrice * m \in Int
    BY <2>1, <2>3, <2>m
  <2> QED BY <2>4, <2>5, <2>6, <2>7, <2>8, <2>m
<1> HIDE DEF drag
<1>d. PICK d, b : d = drag /\ b = debt
  OBVIOUS
<1>4. newCash = account.cash - d /\ flows = [cash |-> -d, inventory |-> 0, short |-> 0, result |-> -d]
  BY <1>d
<1>5. /\ "cash" \in wrote <=> d # 0
      /\ "debt" \in wrote <=> b # account.debt
      /\ wrote \in SUBSET {"cash", "debt"}
  BY <1>d
<1>6. d \in Int /\ b \in Int /\ newCash \in Int /\ flows \in FlowSet /\ Balanced(flows)
  <2>1. d \in Int /\ b \in Int
    BY <1>3, <1>d
  <2>2. newCash \in Int /\ -d \in Int
    BY <1>2, <1>4, <2>1
  <2>3. flows \in FlowSet
    BY <1>4, <2>2 DEF FlowSet
  <2>4. flows.cash = -d /\ flows.inventory = 0 /\ flows.short = 0 /\ flows.result = -d
    BY <1>4
  <2>5. Balanced(flows)
    BY <2>1, <2>3, <2>4 DEF Balanced
  <2> QED BY <2>1, <2>2, <2>3, <2>5
<1>7. flows.cash = -d /\ flows.inventory = 0 /\ flows.short = 0
  BY <1>4
<1>v. PICK v, k, f, wr : v = after /\ k = newCash /\ f = flows /\ wr = wrote
  OBVIOUS
<1>8. v = [NoCall EXCEPT !.date = date, !.cash = k, !.debt = b, !.wrote = wr, !.flows = f, !.cashIn = -d]
  BY <1>d, <1>v
<1>9. /\ v \in WorkSet /\ v.cash = k /\ v.debt = b /\ v.wrote = wr /\ v.flows = f
      /\ v.cashIn = -d /\ v.opens = {} /\ v.todo = {} /\ DOMAIN v.rows = {}
  <2>1. k \in Int /\ b \in Int /\ wr \in SUBSET {"cash", "debt"} /\ f \in FlowSet /\ -d \in Int
    BY <1>5, <1>6, <1>v
  <2>2. v.rows = NoCall.rows /\ v.opens = NoCall.opens /\ v.todo = NoCall.todo
    BY <1>8 DEF NoCall
  <2>3. /\ v.cash = k /\ v.debt = b /\ v.wrote = wr /\ v.flows = f /\ v.cashIn = -d
    BY <1>8 DEF NoCall
  <2>4. v \in WorkSet
    <3> HIDE DEF after
    <3> QED BY <1>8, <2>1, NoCallFits DEF WorkSet
  <2> QED BY <2>2, <2>3, <2>4, NoCallFits
<1> HIDE DEF after
<1>10. /\ work'[c] = v /\ call'[c] = "commit"
       /\ \A e \in Calls : e # c => work'[e] = work[e] /\ call'[e] = call[e]
       /\ \A e : call[e] # "idle" => call'[e] # "idle"
       /\ \A e : call[e] = "done" => call'[e] = "done"
       /\ work' \in [Calls -> WorkSet] /\ call' \in [Calls -> Stages]
  BY <1>1, <1>2, <1>9, <1>v DEF LedgerTyped, Stages
<1>11. LedgerTyped'
  BY <1>1, <1>10 DEF LedgerTyped, RowsTyped, Distinct
<1>12. IdsKnown'
  BY <1>1, <1>10, IdsSame
<1>13. CallKnown(c, work[c])'
  <2>1. Current(c, v)'
    <3>1. v.cash = account.cash + v.flows.cash
      BY <1>2, <1>4, <1>6, <1>7, <1>9, <1>v
    <3>2. "cash" \in v.wrote \/ v.flows.cash = 0
      BY <1>5, <1>6, <1>7, <1>9, <1>v
    <3>3. "debt" \in v.wrote \/ v.debt = account.debt
      BY <1>5, <1>9, <1>v
    <3>4. v.debt = Borrowed(account.cash)
      BY <1>9, <1>d
    <3> QED BY <1>1, <1>2, <3>1, <3>2, <3>3, <3>4 DEF Current
  <2>2. Balanced(v.flows) /\ v.cashIn = v.flows.cash /\ v.flows.inventory = 0 /\ v.flows.short = 0
    BY <1>6, <1>7, <1>9, <1>v
  <2>3. CallKnown(c, v)'
    BY <1>2, <1>9, <1>10, <2>1, <2>2 DEF CallKnown
  <2> QED BY <1>10, <2>3
<1>14. CallsKnown'
  <2> SUFFICES ASSUME NEW e \in Calls, call'[e] \in InFlight PROVE CallKnown(e, work[e])'
    BY DEF CallsKnown, InFlight
  <2>1. CASE e = c
    BY <1>13, <2>1
  <2>2. CASE e # c
    <3>1. CallKnown(e, work[e])
      BY <1>10, <2>2 DEF CallsKnown
    <3> QED BY <1>1, <1>10, <2>2, <3>1, OthersKnown
  <2> QED BY <2>1, <2>2
<1>15. Money'
  BY <1>1, MoneySame
<1>16. ~overlapped' => BooksKept'
  <2>1. Filling' = Filling
    <3>1. \A e \in FillIds : call'[e] = call[e]
      BY <1>2, <1>10, CallSets
    <3> QED BY <3>1 DEF Filling, InFlight
  <2>2. ASSUME NEW e \in Filling, Follows(e, work[e]) PROVE Follows(e, work[e])'
    <3>1. work'[e] = work[e]
      BY <1>2, <1>10, CallSets DEF Filling
    <3> QED BY <1>1, <2>2, <3>1, FollowsSame
  <2> QED BY <1>1, <2>1, <2>2, BooksSame
<1> QED BY <1>11, <1>12, <1>14, <1>15, <1>16

-----------------------------------------------------------------------------
(* A fill.                                                                 *)

LotsTaken(lots, taken) == {lots[i].id : i \in {j \in DOMAIN lots : taken[j] > 0}}
LotsOpened(lots, c) == {lots[i] : i \in {j \in DOMAIN lots : lots[j].id = c}}

(* The ids after a fill: those there were, and its own.                    *)
NewId(lots, lot) == \A i \in DOMAIN lots : lots[i].id # lot.id
KeepsIds(lots, after, lot) ==
  /\ OwnIds(after)
  /\ \A i \in DOMAIN lots : i \in DOMAIN after /\ after[i].id = lots[i].id
  /\ \A i \in DOMAIN after : i \in DOMAIN lots \/ after[i].id = lot.id

(* A fill keeps the ids and adds at most its own.                          *)
LEMMA FillIdsOf ==
  ASSUME NEW lots \in Seq(LotSet), OwnIds(lots), NEW after, NEW taken, NEW fresh \in BOOLEAN, NEW lot,
         FillLeaves(lots, after, taken, fresh, lot), NewId(lots, lot)
  PROVE  KeepsIds(lots, after, lot)
<1> USE DEF NewId, KeepsIds
<1>1. \A i \in DOMAIN lots : i \in DOMAIN after /\ after[i].id = lots[i].id
  <2> SUFFICES ASSUME NEW i \in DOMAIN lots PROVE i \in DOMAIN after /\ after[i].id = lots[i].id
    OBVIOUS
  <2>1. i \in DOMAIN after /\ after[i] = [lots[i] EXCEPT !.remaining = @ - taken[i]]
    BY DEF FillLeaves
  <2>2. lots[i] \in LotSet
    BY LotsTyped
  <2> QED BY <2>1, <2>2 DEF LotSet
<1>2. \A i \in DOMAIN after : i \in DOMAIN lots \/ (fresh /\ i = Len(lots) + 1 /\ after[i].id = lot.id)
  <2>1. CASE fresh
    BY <2>1 DEF FillLeaves
  <2>2. CASE ~fresh
    BY <2>2 DEF FillLeaves
  <2> QED BY <2>1, <2>2
<1>3. OwnIds(after)
  <2> SUFFICES ASSUME NEW i \in DOMAIN after, NEW j \in DOMAIN after, after[i].id = after[j].id
               PROVE  i = j
    BY DEF OwnIds
  <2>1. CASE i \in DOMAIN lots /\ j \in DOMAIN lots
    BY <1>1, <2>1 DEF OwnIds
  <2>2. CASE i \notin DOMAIN lots \/ j \notin DOMAIN lots
    BY <1>1, <1>2, <2>2
  <2> QED BY <2>1, <2>2
<1> QED BY <1>1, <1>2, <1>3

(* A fill on lots that mirror the rows.                                    *)
Shrinks(lots, after, taken, c) ==
  /\ \A i \in DOMAIN lots : /\ i \in DOMAIN after /\ after[i].id = lots[i].id
                            /\ after[i] = [lots[i] EXCEPT !.remaining = @ - taken[i]]
                            /\ taken[i] \in 0..lots[i].remaining
  /\ \A i \in DOMAIN after : after[i].id # c => i \in DOMAIN lots

(* The rows that are to be shrunk like the lots.                           *)
NotBooked(after, c, rs, todo) ==
  /\ \A i \in DOMAIN after : after[i].id # c =>
       /\ after[i].id \in DOMAIN rs
       /\ after[i] = [rs[after[i].id] EXCEPT !.remaining = after[i].remaining]
       /\ after[i].id \notin todo => after[i].remaining = rs[after[i].id].remaining
  /\ \A id \in DOMAIN rs : rs[id].remaining > 0 => \E i \in DOMAIN after : after[i].id = id

(* Lots that mirrored the rows now differ from them by what was taken.     *)
LEMMA FillFollows ==
  ASSUME NEW lots \in Seq(LotSet), NEW c, NEW after, NEW taken, Shrinks(lots, after, taken, c),
         NEW rs, Mirrored(lots, rs)
  PROVE  NotBooked(after, c, rs, LotsTaken(lots, taken))
<1> USE DEF Shrinks
<1>2. ASSUME NEW i \in DOMAIN after, after[i].id # c
      PROVE  /\ after[i].id \in DOMAIN rs
             /\ after[i] = [rs[after[i].id] EXCEPT !.remaining = after[i].remaining]
             /\ after[i].id \notin LotsTaken(lots, taken) => after[i].remaining = rs[after[i].id].remaining
  <2>1. i \in DOMAIN lots /\ after[i].id = lots[i].id
    BY <1>2
  <2>2. lots[i] \in LotSet /\ lots[i].remaining \in Nat
    BY <2>1, LotsTyped
  <2>3. lots[i].id \in DOMAIN rs /\ rs[lots[i].id] = lots[i]
    BY <2>1 DEF Mirrored
  <2>4. after[i] = [lots[i] EXCEPT !.remaining = lots[i].remaining - taken[i]] /\ taken[i] \in 0..lots[i].remaining
    BY <2>1
  <2>5. after[i].remaining = lots[i].remaining - taken[i]
    BY <2>2, <2>4 DEF LotSet
  <2>6. after[i] = [lots[i] EXCEPT !.remaining = after[i].remaining]
    BY <2>4, <2>5
  <2>7. ASSUME lots[i].id \notin LotsTaken(lots, taken) PROVE taken[i] = 0
    <3>1. ~(taken[i] > 0)
      BY <2>1, <2>7 DEF LotsTaken
    <3> QED BY <2>2, <2>4, <3>1
  <2> QED BY <2>1, <2>2, <2>3, <2>5, <2>6, <2>7
<1>3. ASSUME NEW id \in DOMAIN rs, rs[id].remaining > 0
      PROVE  \E i \in DOMAIN after : after[i].id = id
  <2>1. PICK i \in DOMAIN lots : lots[i].id = id
    BY <1>3 DEF Mirrored
  <2> QED BY <2>1
<1> QED BY <1>2, <1>3 DEF NotBooked

(* The cash of the entries (EntriesAre), for the call's own notional.      *)
LEMMA EntriesCash ==
  ASSUME NEW lots \in Seq(LotSet), NEW side \in {-1, 1}, NEW q \in Nat \ {0}, NEW unitPrice \in Nat \ {0},
         NEW lifo \in BOOLEAN, NEW e, e = FillEntries(lots, side, q, unitPrice, lifo),
         NEW m, m = -side * q * unitPrice
  PROVE  e.cash = m
  BY EntriesAre, ZenonT(30)

(* A fill: refused, or with lots to look up, or with none.                 *)
LEMMA FillKeeps ==
  ASSUME LedgerInvariant, NEW c \in FillIds, NEW request \in FillRequests,
         RecordFill(c, request), shorting' = shorting
  PROVE  LedgerInvariant'
<1> USE DEF LedgerInvariant
<1>p. PICK side, q, unitPrice, time, lifo :
        side = request.side /\ q = request.quantity /\ unitPrice = request.price
        /\ time = request.time /\ lifo = request.lifo
  OBVIOUS
<1>t. /\ side \in {-1, 1} /\ q \in Nat \ {0} /\ unitPrice \in Nat \ {0} /\ time \in Nat /\ lifo \in BOOLEAN
      /\ memory \in Seq(LotSet) /\ shorting \in BOOLEAN
      /\ c \in Calls /\ c \notin AccrualIds
  BY <1>p, LedgerAssumption, CallSets DEF LedgerTyped
<1> DEFINE raises == Orphaned(memory, side, q, shorting) \/ ~Verified(memory')
<1>q. PICK after, taken, e, todo, opens, v :
        /\ after = AfterFill(memory, c, side, q, unitPrice, time, lifo, shorting)
        /\ taken = Taken(memory, side, q, lifo)
        /\ e = FillEntries(memory, side, q, unitPrice, lifo)
        /\ todo = LotsTaken(memory, taken) /\ opens = LotsOpened(after, c)
        /\ v = [NoCall EXCEPT !.todo = todo, !.lifo = lifo, !.opens = opens, !.flows = e,
                              !.cashIn = -side * q * unitPrice]
  OBVIOUS
<1>1. /\ call[c] = "idle" /\ memory' = after
      /\ call' = [call EXCEPT ![c] = IF raises THEN "failed"
                                     ELSE IF todo = {} THEN "account" ELSE "lots"]
      /\ work' = IF raises THEN work ELSE [work EXCEPT ![c] = v]
      /\ ahead' = (ahead \/ (raises /\ after # memory))
      /\ overlapped' = (overlapped \/ Busy # {} \/ reload.on)
      /\ rows' = rows /\ account' = account /\ journal' = journal /\ accrued' = accrued
      /\ reload' = reload /\ overtaken' = overtaken /\ lostUpdate' = lostUpdate /\ lag' = lag
  BY <1>p, <1>q DEF RecordFill, LotsTaken, LotsOpened
<1> HIDE DEF raises
<1>f. PICK fresh, lot : /\ fresh = Opens(memory, side, q, shorting)
                        /\ lot = Lot(c, side, time, Leftover(memory, side, q), unitPrice)
  OBVIOUS
<1>2. fresh \in BOOLEAN /\ lot.id = c
  BY <1>f DEF Opens, Lot
<1>3. FillLeaves(memory, after, taken, fresh, lot)
  BY <1>t, <1>q, <1>f, FillIs
<1>4. \A i \in DOMAIN memory : taken[i] \in 0..memory[i].remaining
  BY <1>t, <1>q, TakenIs
<1>5. OwnIds(memory) /\ \A i \in DOMAIN memory : memory[i].id # c /\ call[memory[i].id] # "idle"
  BY <1>1 DEF IdsKnown
<1>6. /\ OwnIds(after) /\ after \in Seq(LotSet)
      /\ \A i \in DOMAIN memory : i \in DOMAIN after /\ after[i].id = memory[i].id
      /\ \A i \in DOMAIN after : after[i].id # c => i \in DOMAIN memory
  <2>1. after \in Seq(LotSet)
    BY <1>3 DEF FillLeaves
  <2>2. memory \in Seq(LotSet) /\ fresh \in BOOLEAN /\ OwnIds(memory) /\ NewId(memory, lot)
    BY <1>t, <1>2, <1>5 DEF NewId
  <2>3. KeepsIds(memory, after, lot)
    BY <1>3, <2>2, FillIdsOf
  <2> QED BY <1>2, <2>1, <2>3 DEF KeepsIds
<1>7. e \in FlowSet /\ Balanced(e) /\ e.cash = -side * q * unitPrice
  <2>1. Balanced(e) /\ e.cash = -side * q * unitPrice
    <3>1. Balanced(FillEntries(memory, side, q, unitPrice, lifo))
      BY <1>t, EntriesAre
    <3>m. PICK m : m = -side * q * unitPrice
      OBVIOUS
    <3>2. e.cash = m
      BY <1>t, <1>q, <3>m, EntriesCash
    <3> QED BY <1>q, <3>1, <3>2, <3>m
  <2> QED BY <2>1 DEF Balanced
<1>8. todo \in SUBSET FillIds /\ opens \in SUBSET LotSet /\ \A l \in opens : l.id = c
  <2>1. todo \in SUBSET FillIds
    <3>1. \A i \in DOMAIN memory : memory[i].id \in FillIds
      BY <1>t, LotsTyped
    <3> QED BY <1>q, <3>1 DEF LotsTaken
  <2>2. \A i \in DOMAIN after : after[i] \in LotSet
    BY <1>6, LotsTyped
  <2> QED BY <1>q, <2>1, <2>2 DEF LotsOpened
<1>9. /\ v \in WorkSet /\ v.todo = todo /\ v.opens = opens /\ v.flows = e /\ v.cashIn = e.cash
      /\ v.held = <<>> /\ DOMAIN v.rows = {}
  <2>m. PICK m : m = -side * q * unitPrice
    OBVIOUS
  <2>1. v = [NoCall EXCEPT !.todo = todo, !.lifo = lifo, !.opens = opens, !.flows = e, !.cashIn = m]
    BY <1>q, <2>m
  <2>2. v.rows = NoCall.rows /\ v.held = NoCall.held
    BY <2>1 DEF NoCall
  <2>3. v.todo = todo /\ v.opens = opens /\ v.flows = e /\ v.cashIn = m
    BY <2>1 DEF NoCall
  <2>4. m \in Int
    BY <1>t, <2>m
  <2>5. v \in WorkSet
    BY <1>t, <1>7, <1>8, <2>1, <2>4, NoCallFits DEF WorkSet
  <2> QED BY <1>7, <2>m, <2>2, <2>3, <2>5, NoCallFits
<1>10. /\ \A d \in Calls : d # c => work'[d] = work[d] /\ call'[d] = call[d]
       /\ \A d : call[d] # "idle" => call'[d] = call[d]
       /\ work' \in [Calls -> WorkSet] /\ call' \in [Calls -> Stages]
  <2>1. \A d \in Calls : d # c => call'[d] = call[d]
    BY <1>1
  <2>2. \A d : call[d] # "idle" => call'[d] = call[d]
    BY <1>1
  <2>3. call' \in [Calls -> Stages]
    BY <1>1 DEF LedgerTyped, Stages
  <2>4. work' \in [Calls -> WorkSet] /\ \A d \in Calls : d # c => work'[d] = work[d]
    <3>1. CASE raises
      BY <1>1, <3>1 DEF LedgerTyped
    <3>2. CASE ~raises
      BY <1>1, <1>9, <3>2 DEF LedgerTyped
    <3> QED BY <3>1, <3>2
  <2> QED BY <2>1, <2>2, <2>3, <2>4
<1>11. /\ raises => call'[c] = "failed"
       /\ ~raises => work'[c] = v /\ call'[c] = IF todo = {} THEN "account" ELSE "lots"
  <2>1. call \in [Calls -> Stages] /\ work \in [Calls -> WorkSet]
    BY DEF LedgerTyped
  <2> QED BY <1>t, <1>1, <2>1
<1>12. LedgerTyped'
  <2>1. ahead' \in BOOLEAN /\ overlapped' \in BOOLEAN
    BY <1>1
  <2> QED BY <1>1, <1>6, <1>10, <2>1 DEF LedgerTyped, RowsTyped, Distinct
<1>13. IdsKnown'
  <2>1. \A i \in DOMAIN after : call'[after[i].id] # "idle"
    <3>1. call'[c] # "idle"
      BY <1>11
    <3> QED BY <1>5, <1>6, <1>10, <3>1
  <2>2. /\ \A id \in DOMAIN rows : call'[id] = "done"
        /\ \A l \in reload.rows : call'[l.id] = "done"
    BY <1>10 DEF IdsKnown
  <2> QED BY <1>1, <1>6, <2>1, <2>2 DEF IdsKnown, OwnIds
<1>14. ASSUME call'[c] \in InFlight PROVE ~raises /\ work'[c] = v
  BY <1>11, <1>14 DEF InFlight
<1>15. ASSUME call'[c] \in InFlight PROVE CallKnown(c, work[c])'
  <2>1. work'[c] = v /\ call'[c] = IF todo = {} THEN "account" ELSE "lots"
    BY <1>11, <1>14, <1>15
  <2>2. ASSUME NEW id \in v.todo PROVE \E i \in DOMAIN LotsOf(v)' : LotsOf(v)'[i].id = id
    <3>1. LotsOf(v)' = after
      BY <1>1, <1>9 DEF LotsOf
    <3>2. PICK i \in DOMAIN memory : memory[i].id = id
      BY <1>q, <1>9 DEF LotsTaken
    <3> QED BY <1>6, <3>1, <3>2
  <2>3. CallKnown(c, v)'
    BY <1>t, <1>7, <1>8, <1>9, <2>1, <2>2 DEF CallKnown
  <2> QED BY <2>1, <2>3
<1>16. CallsKnown'
  <2> SUFFICES ASSUME NEW d \in Calls, call'[d] \in InFlight PROVE CallKnown(d, work[d])'
    BY DEF CallsKnown, InFlight
  <2>1. CASE d = c
    BY <1>15, <2>1
  <2>2. CASE d # c
    <3>1. CallKnown(d, work[d])
      BY <1>10, <2>2 DEF CallsKnown
    <3>2. \A id : (\E i \in DOMAIN memory : memory[i].id = id) => \E i \in DOMAIN memory' : memory'[i].id = id
      BY <1>1, <1>6
    <3>3. work'[d] = work[d] /\ call'[d] = call[d]
      BY <1>10, <2>2
    <3> QED BY <1>1, <3>1, <3>2, <3>3, OthersKnown
  <2> QED BY <2>1, <2>2
<1>17. Money'
  BY <1>1, MoneySame
<1>18. ASSUME ~overlapped' PROVE BooksKept'
  <2>1. BooksKept /\ Busy = {} /\ ~reload.on
    BY <1>1, <1>18
  <2>2. /\ OneSided(memory) /\ SidesAgree(OpenOf(rows))
        /\ journal.inventory = CostOf(OpenOf(rows), 1) /\ journal.short = CostOf(OpenOf(rows), -1)
    BY <2>1 DEF BooksKept
  <2>3. \A d \in FillIds : d # c => call'[d] \notin InFlight
    <3>1. \A d \in FillIds : d \in Calls /\ call[d] \notin InFlight
      BY <2>1, CallSets DEF Busy
    <3> QED BY <1>10, <3>1
  <2>4. Filling = {} /\ \A d \in Filling' : d = c /\ call'[c] \in InFlight
    <3>1. \A d \in FillIds : d \in Calls /\ call[d] \notin InFlight
      BY <2>1, CallSets DEF Busy
    <3> QED BY <2>3, <3>1 DEF Filling, InFlight
  <2>5. OneSided(after)
    BY <1>t, <1>q, <2>2, StaysOneSided
  <2>6. ~ahead => Mirrored(memory, rows)
    BY <2>1, <2>4 DEF BooksKept
  <2>7. ASSUME ~ahead', Filling' = {} PROVE Mirrored(memory, rows)'
    <3>1. raises
      <4>1. call'[c] \notin InFlight
        BY <2>7 DEF Filling, InFlight
      <4> QED BY <1>11, <4>1 DEF InFlight
    <3>2. ~ahead /\ after = memory
      BY <1>1, <2>7, <3>1
    <3> QED BY <1>1, <2>6, <3>2 DEF Mirrored
  <2>8. ASSUME ~ahead', call'[c] \in InFlight PROVE Follows(c, work[c])'
    <3>1. ~raises /\ work'[c] = v
      BY <1>14, <2>8
    <3>2. Mirrored(memory, rows)
      BY <1>1, <2>6, <2>8
    <3>3. ~Orphaned(memory, side, q, shorting)
      BY <3>1 DEF raises
    <3>4. NotBooked(after, c, rows, LotsTaken(memory, taken))
      <4>1. \A i \in DOMAIN memory : after[i] = [memory[i] EXCEPT !.remaining = @ - taken[i]]
        BY <1>3 DEF FillLeaves
      <4>2. Shrinks(memory, after, taken, c)
        BY <1>4, <1>6, <4>1 DEF Shrinks
      <4> QED BY <1>t, <3>2, <4>2, FillFollows
    <3>5. /\ journal.inventory + e.inventory = Value(after, 1)
          /\ journal.short + e.short = Value(after, -1)
      <4>1. /\ Value(after, 1) = Value(memory, 1) + e.inventory
            /\ Value(after, -1) = Value(memory, -1) + e.short
        BY <1>t, <1>q, <2>2, <3>3, FillEntered
      <4>2. OpenSet(memory) = OpenOf(rows)
        BY <1>t, <3>2, MirrorSet
      <4>3. CostOf(OpenSet(memory), 1) = Value(memory, 1) /\ CostOf(OpenSet(memory), -1) = Value(memory, -1)
        BY <1>t, <1>5, CostOfOpen
      <4> QED BY <2>2, <4>1, <4>2, <4>3
    <3>6. \A id : Prospect(v, id)' = rows[id].remaining
      BY <1>1, <1>9 DEF Prospect
    <3>7. Value(memory, 1)' = Value(after, 1) /\ Value(memory, -1)' = Value(after, -1)
      BY <1>1 DEF Value
    <3>8. v.opens = {after[i] : i \in {j \in DOMAIN after : after[j].id = c}}
      BY <1>q, <1>9 DEF LotsOpened
    <3>9. v.todo = LotsTaken(memory, taken)
      BY <1>q, <1>9
    <3>10. Follows(c, v)'
      BY <1>1, <1>9, <3>4, <3>5, <3>6, <3>7, <3>8, <3>9 DEF Follows, NotBooked
    <3> QED BY <3>1, <3>10
  <2>9. ~ahead' => \A d \in Filling' : Follows(d, work[d])'
    BY <2>4, <2>8
  <2> QED BY <1>1, <2>1, <2>2, <2>4, <2>5, <2>7, <2>9 DEF BooksKept, OpenOf
<1> QED BY <1>12, <1>13, <1>16, <1>17, <1>18

-----------------------------------------------------------------------------
(* A commit.                                                               *)

(* The rows a commit of call c leaves.                                     *)
Booked(rs, w) ==
  LET opened == {lot.id : lot \in w.opens}
  IN  [id \in DOMAIN rs \cup opened |->
         IF id \in opened THEN CHOOSE lot \in w.opens : lot.id = id
         ELSE IF id \in DOMAIN w.rows THEN [rs[id] EXCEPT !.remaining = w.rows[id]] ELSE rs[id]]

BookedFrom(b, rs, w) ==
  LET opened == {lot.id : lot \in w.opens}
  IN  /\ DOMAIN b = DOMAIN rs \cup opened
      /\ \A id \in opened : b[id] \in w.opens /\ b[id].id = id
      /\ \A id \in DOMAIN rs \ opened :
           /\ id \in DOMAIN w.rows => b[id] = [rs[id] EXCEPT !.remaining = w.rows[id]]
           /\ id \notin DOMAIN w.rows => b[id] = rs[id]

(* The rows a commit leaves, row by row.                                   *)
LEMMA BookedIs ==
  ASSUME NEW rs, NEW w, NEW b, b = Booked(rs, w)
  PROVE  BookedFrom(b, rs, w)
<1> DEFINE opened == {lot.id : lot \in w.opens}
           pick(id) == CHOOSE lot \in w.opens : lot.id = id
<1>1. \A id \in opened : pick(id) \in w.opens /\ pick(id).id = id
  OBVIOUS
<1> HIDE DEF pick
<1>2. Booked(rs, w) = [id \in DOMAIN rs \cup opened |->
         IF id \in opened THEN pick(id)
         ELSE IF id \in DOMAIN w.rows THEN [rs[id] EXCEPT !.remaining = w.rows[id]] ELSE rs[id]]
  BY DEF Booked, pick
<1> HIDE DEF opened
<1>3. /\ DOMAIN Booked(rs, w) = DOMAIN rs \cup opened
      /\ \A id \in opened : Booked(rs, w)[id] = pick(id)
      /\ \A id \in DOMAIN rs \ opened :
           /\ id \in DOMAIN w.rows => Booked(rs, w)[id] = [rs[id] EXCEPT !.remaining = w.rows[id]]
           /\ id \notin DOMAIN w.rows => Booked(rs, w)[id] = rs[id]
  BY <1>2
<1>4. \A id \in opened : Booked(rs, w)[id] \in w.opens /\ Booked(rs, w)[id].id = id
  BY <1>1, <1>3
<1> QED BY <1>3, <1>4 DEF opened, BookedFrom

(* They are lots under their own ids.                                      *)
LEMMA BookedTyped ==
  ASSUME NEW rs, RowsTyped(rs), NEW w \in WorkSet
  PROVE  RowsTyped(Booked(rs, w))
<1>b. PICK b : b = Booked(rs, w)
  OBVIOUS
<1>1. /\ DOMAIN b = DOMAIN rs \cup {lot.id : lot \in w.opens}
      /\ \A id \in {lot.id : lot \in w.opens} : b[id] \in w.opens /\ b[id].id = id
      /\ \A id \in DOMAIN rs \ {lot.id : lot \in w.opens} :
           /\ id \in DOMAIN w.rows => b[id] = [rs[id] EXCEPT !.remaining = w.rows[id]]
           /\ id \notin DOMAIN w.rows => b[id] = rs[id]
  <2>1. BookedFrom(b, rs, w)
    BY <1>b, BookedIs
  <2> QED BY <2>1 DEF BookedFrom
<1>2. w.opens \in SUBSET LotSet /\ \A id \in DOMAIN w.rows : w.rows[id] \in Nat
  <2>1. w.rows \in RowNotes /\ w.opens \in SUBSET LotSet
    BY DEF WorkSet
  <2>2. PICK I \in SUBSET FillIds : w.rows \in [I -> Nat]
    BY <2>1 DEF RowNotes
  <2> QED BY <2>1, <2>2
<1>3. ASSUME NEW id \in DOMAIN b PROVE b[id] \in LotSet /\ b[id].id = id
  <2>1. CASE id \in {lot.id : lot \in w.opens}
    BY <1>1, <1>2, <2>1
  <2>2. CASE id \notin {lot.id : lot \in w.opens}
    <3>1. id \in DOMAIN rs /\ rs[id] \in LotSet /\ rs[id].id = id
      BY <1>1, <2>2 DEF RowsTyped
    <3>2. CASE id \in DOMAIN w.rows
      <4>1. b[id] = [rs[id] EXCEPT !.remaining = w.rows[id]] /\ w.rows[id] \in Nat
        BY <1>1, <1>2, <2>2, <3>1, <3>2
      <4> QED BY <3>1, <4>1 DEF LotSet
    <3>3. CASE id \notin DOMAIN w.rows
      BY <1>1, <2>2, <3>1, <3>3
    <3> QED BY <3>2, <3>3
  <2> QED BY <2>1, <2>2
<1> QED BY <1>b, <1>3 DEF RowsTyped

(* A fill that commits makes the rows mirror the lots again.               *)
LEMMA BookedMirrors ==
  ASSUME LedgerTyped, IdsKnown, NEW c, NEW w, Follows(c, w), w.todo = {}
  PROVE  Mirrored(memory, Booked(rows, w))
<1>b. PICK b, rs, lots : b = Booked(rows, w) /\ rs = rows /\ lots = memory
  OBVIOUS
<1> DEFINE opened == {lot.id : lot \in w.opens}
<1>1. /\ DOMAIN b = DOMAIN rs \cup opened
      /\ \A id \in opened : b[id] \in w.opens /\ b[id].id = id
      /\ \A id \in DOMAIN rs \ opened :
           /\ id \in DOMAIN w.rows => b[id] = [rs[id] EXCEPT !.remaining = w.rows[id]]
           /\ id \notin DOMAIN w.rows => b[id] = rs[id]
  <2>1. BookedFrom(b, rs, w)
    BY <1>b, BookedIs
  <2> QED BY <2>1 DEF BookedFrom
<1>2. /\ w.opens = {lots[i] : i \in {j \in DOMAIN lots : lots[j].id = c}}
      /\ \A id \in DOMAIN w.rows : \E i \in DOMAIN lots : lots[i].id = id
      /\ \A i \in DOMAIN lots : lots[i].id # c =>
           /\ lots[i].id \in DOMAIN rs
           /\ lots[i] = [rs[lots[i].id] EXCEPT !.remaining = lots[i].remaining]
           /\ lots[i].remaining = Prospect(w, lots[i].id)
      /\ \A id \in DOMAIN rs : rs[id].remaining > 0 => \E i \in DOMAIN lots : lots[i].id = id
  BY <1>b DEF Follows
<1>3. OwnIds(lots) /\ \A id \in DOMAIN rs : rs[id] \in LotSet
  BY <1>b DEF IdsKnown, LedgerTyped, RowsTyped
<1>4. \A id \in opened : id = c /\ \E i \in DOMAIN lots : lots[i].id = id
  BY <1>2
<1>5. \A i \in DOMAIN lots : lots[i].id = c => c \in opened /\ lots[i] \in w.opens
  BY <1>2
<1> HIDE DEF opened
<1>6. ASSUME NEW i \in DOMAIN lots PROVE lots[i].id \in DOMAIN b /\ b[lots[i].id] = lots[i]
  <2>1. CASE lots[i].id = c
    <3>1. c \in opened /\ b[c] \in w.opens /\ b[c].id = c
      BY <1>1, <1>5, <2>1
    <3>2. PICK j \in DOMAIN lots : b[c] = lots[j] /\ lots[j].id = c
      BY <1>2, <3>1
    <3>3. j = i
      BY <1>3, <2>1, <3>2 DEF OwnIds
    <3> QED BY <1>1, <2>1, <3>1, <3>2, <3>3
  <2>2. CASE lots[i].id # c
    <3>i. PICK id : id = lots[i].id
      OBVIOUS
    <3>1. /\ id \in DOMAIN rs /\ lots[i] = [rs[id] EXCEPT !.remaining = lots[i].remaining]
          /\ lots[i].remaining = Prospect(w, id) /\ id \notin opened
      BY <1>2, <1>4, <2>2, <3>i
    <3>2. CASE id \in DOMAIN w.rows
      <4>1. lots[i].remaining = w.rows[id]
        BY <3>1, <3>2 DEF Prospect
      <4> QED BY <1>1, <3>1, <3>2, <3>i, <4>1
    <3>3. CASE id \notin DOMAIN w.rows
      <4>1. lots[i].remaining = rs[id].remaining
        BY <1>b, <3>1, <3>3 DEF Prospect
      <4>2. [rs[id] EXCEPT !.remaining = rs[id].remaining] = rs[id]
        BY <1>3, <3>1 DEF LotSet
      <4> QED BY <1>1, <3>1, <3>3, <3>i, <4>1, <4>2
    <3> QED BY <3>2, <3>3
  <2> QED BY <2>1, <2>2
<1>7. ASSUME NEW id \in DOMAIN b, b[id].remaining > 0 PROVE \E i \in DOMAIN lots : lots[i].id = id
  <2>1. CASE id \in opened
    BY <1>4, <2>1
  <2>2. CASE id \notin opened
    <3>1. CASE id \in DOMAIN w.rows
      BY <1>2, <3>1
    <3>2. CASE id \notin DOMAIN w.rows
      BY <1>1, <1>2, <1>7, <2>2, <3>2
    <3> QED BY <3>1, <3>2
  <2> QED BY <2>1, <2>2
<1> QED BY <1>b, <1>6, <1>7 DEF Mirrored

(* Rows that no call wrote to.                                             *)
SameRows(rs, other) == DOMAIN rs = DOMAIN other /\ \A id \in DOMAIN rs : rs[id] = other[id]

(* A commit without a row or a lot leaves these books as they are.         *)
LEMMA BooksThrough ==
  ASSUME BooksKept, memory' = memory, SameRows(rows, rows'), journal'.inventory = journal.inventory,
         journal'.short = journal.short, reload' = reload, ahead' = ahead, Filling' = Filling,
         \A c \in Filling : work'[c] = work[c]
  PROVE  BooksKept'
<1>r. PICK rs, r2 : rs = rows /\ r2 = rows'
  OBVIOUS
<1>1. DOMAIN r2 = DOMAIN rs /\ \A id \in DOMAIN rs : r2[id] = rs[id]
  BY <1>r DEF SameRows
<1>2. OpenOf(r2) = OpenOf(rs)
  <2>1. {i \in DOMAIN r2 : r2[i].remaining > 0} = {i \in DOMAIN rs : rs[i].remaining > 0}
    BY <1>1
  <2> QED BY <1>1, <2>1 DEF OpenOf
<1>3. Mirrored(memory, rs) => Mirrored(memory, r2)
  BY <1>1 DEF Mirrored
<1>4. ASSUME NEW c \in Filling, Follows(c, work[c]) PROVE Follows(c, work[c])'
  <2>w. PICK w : w = work[c]
    OBVIOUS
  <2>1. work'[c] = w /\ Follows(c, w)
    BY <1>4, <2>w
  <2>2. \A id \in DOMAIN rs : Prospect(w, id)' = Prospect(w, id)
    BY <1>1, <1>r DEF Prospect
  <2>3. Value(memory, 1)' = Value(memory, 1) /\ Value(memory, -1)' = Value(memory, -1)
    BY DEF Value
  <2>4. /\ w.held = <<>>
        /\ w.opens = {memory[i] : i \in {j \in DOMAIN memory : memory[j].id = c}}
        /\ DOMAIN w.rows \cap w.todo = {}
        /\ \A id \in DOMAIN w.rows : id # c /\ \E i \in DOMAIN memory : memory[i].id = id
        /\ \A i \in DOMAIN memory : memory[i].id # c =>
             /\ memory[i].id \in DOMAIN rs
             /\ memory[i] = [rs[memory[i].id] EXCEPT !.remaining = memory[i].remaining]
             /\ memory[i].id \notin w.todo => memory[i].remaining = Prospect(w, memory[i].id)
        /\ \A id \in DOMAIN rs : rs[id].remaining > 0 => \E i \in DOMAIN memory : memory[i].id = id
        /\ journal.inventory + w.flows.inventory = Value(memory, 1)
        /\ journal.short + w.flows.short = Value(memory, -1)
    BY <1>r, <2>1 DEF Follows
  <2>5. \A i \in DOMAIN memory : memory[i].id # c =>
             /\ memory[i].id \in DOMAIN r2
             /\ memory[i] = [r2[memory[i].id] EXCEPT !.remaining = memory[i].remaining]
             /\ memory[i].id \notin w.todo => memory[i].remaining = Prospect(w, memory[i].id)'
    BY <1>1, <2>2, <2>4
  <2>6. \A id \in DOMAIN r2 : r2[id].remaining > 0 => \E i \in DOMAIN memory : memory[i].id = id
    BY <1>1, <2>4
  <2>7. Follows(c, w)'
    BY <1>r, <2>3, <2>4, <2>5, <2>6 DEF Follows
  <2> QED BY <2>1, <2>7
<1>5. /\ OneSided(memory) /\ SidesAgree(OpenOf(rs))
      /\ journal.inventory = CostOf(OpenOf(rs), 1) /\ journal.short = CostOf(OpenOf(rs), -1)
      /\ reload.on => reload.rows = OpenOf(rs) /\ Filling = {}
      /\ \A c, d \in Filling : c = d
      /\ ~ahead /\ Filling = {} => Mirrored(memory, rs)
      /\ ~ahead => \A c \in Filling : Follows(c, work[c])
  BY <1>r DEF BooksKept
<1>6. /\ OneSided(memory)' /\ SidesAgree(OpenOf(r2))
      /\ journal'.inventory = CostOf(OpenOf(r2), 1) /\ journal'.short = CostOf(OpenOf(r2), -1)
      /\ reload'.on => reload'.rows = OpenOf(r2) /\ Filling' = {}
      /\ \A c, d \in Filling' : c = d
  BY <1>2, <1>5 DEF OneSided, OpenLots
<1>7. ~ahead' /\ Filling' = {} => Mirrored(memory, r2)
  BY <1>3, <1>5
<1>8. ~ahead' => \A c \in Filling' : Follows(c, work[c])'
  BY <1>4, <1>5
<1> QED BY <1>r, <1>6, <1>7, <1>8 DEF BooksKept, OpenOf, Mirrored

(* A commit: the account as the call read it unless it was overtaken, the  *)
(* journal by balanced entries, the rows by what the lots became.          *)
LEMMA CommitKeeps ==
  ASSUME LedgerInvariant, NEW c \in Calls, Commit(c), shorting' = shorting
  PROVE  LedgerInvariant'
<1> USE DEF LedgerInvariant
<1>w. PICK w : w = work[c]
  OBVIOUS
<1>1. /\ call[c] = "commit" /\ ~Refused(c)
      /\ rows' = Booked(rows, w)
      /\ account' = [k \in DOMAIN account |-> IF k \in w.wrote THEN w[k] ELSE account[k]]
      /\ journal' = [k \in DOMAIN journal |-> journal[k] + w.flows[k]]
      /\ accrued' = IF c \in AccrualIds THEN accrued \cup {[by |-> c, date |-> w.date]} ELSE accrued
      /\ call' = [call EXCEPT ![c] = "done"]
      /\ work' = [work EXCEPT ![c] = NoCall]
      /\ overtaken' = (overtaken \cup Busy) \ {c}
      /\ lostUpdate' = (lostUpdate \/ c \in overtaken)
      /\ lag' = IF c \in AccrualIds THEN -w.cashIn ELSE 0
      /\ overlapped' = (overlapped \/ (ahead /\ c \in FillIds))
      /\ memory' = memory /\ reload' = reload /\ ahead' = ahead
  BY <1>w DEF Commit, Booked
<1>2. /\ w \in WorkSet /\ account \in [cash : Int, debt : Int] /\ journal \in FlowSet
      /\ memory \in Seq(LotSet) /\ RowsTyped(rows)
  BY <1>w DEF LedgerTyped
<1>3. CallKnown(c, w)
  BY <1>1, <1>w DEF CallsKnown, InFlight
<1>4. /\ w.flows \in FlowSet /\ w.flows.cash + w.flows.inventory - w.flows.short - w.flows.result = 0
      /\ w.cashIn = w.flows.cash /\ w.todo = {}
      /\ c \notin overtaken => Current(c, w)
  BY <1>1, <1>3 DEF CallKnown, Balanced
<1>5. /\ \A d \in Calls : d # c => work'[d] = work[d] /\ call'[d] = call[d]
      /\ call'[c] = "done"
      /\ \A d : call[d] # "idle" => call'[d] # "idle"
      /\ \A d : call[d] = "done" => call'[d] = "done"
      /\ work' \in [Calls -> WorkSet] /\ call' \in [Calls -> Stages]
  BY <1>1, NoCallFits DEF LedgerTyped, Stages
<1>6. /\ journal' \in FlowSet
      /\ journal'.cash = journal.cash + w.flows.cash
      /\ journal'.inventory = journal.inventory + w.flows.inventory
      /\ journal'.short = journal.short + w.flows.short
      /\ journal'.result = journal.result + w.flows.result
  <2>1. DOMAIN journal = {"cash", "inventory", "short", "result"}
    BY <1>2 DEF FlowSet
  <2>2. journal' = [k \in {"cash", "inventory", "short", "result"} |-> journal[k] + w.flows[k]]
    BY <1>1, <2>1
  <2>3. /\ journal'.cash = journal.cash + w.flows.cash
        /\ journal'.inventory = journal.inventory + w.flows.inventory
        /\ journal'.short = journal.short + w.flows.short
        /\ journal'.result = journal.result + w.flows.result
    BY <2>2
  <2>4. /\ journal.cash \in Int /\ journal.inventory \in Int /\ journal.short \in Int /\ journal.result \in Int
        /\ w.flows.cash \in Int /\ w.flows.inventory \in Int /\ w.flows.short \in Int /\ w.flows.result \in Int
    BY <1>2, <1>4 DEF FlowSet
  <2>5. \A k \in {"cash", "inventory", "short", "result"} : journal[k] + w.flows[k] \in Int
    BY <2>4
  <2>6. journal' \in FlowSet
    BY <2>2, <2>5 DEF FlowSet
  <2> QED BY <2>3, <2>6
<1>7. /\ account' \in [cash : Int, debt : Int]
      /\ account'.cash = IF "cash" \in w.wrote THEN w.cash ELSE account.cash
      /\ account'.debt = IF "debt" \in w.wrote THEN w.debt ELSE account.debt
  <2>1. DOMAIN account = {"cash", "debt"}
    BY <1>2
  <2>2. account' = [k \in {"cash", "debt"} |-> IF k \in w.wrote THEN w[k] ELSE account[k]]
    BY <1>1, <2>1
  <2>3. w.cash \in Int /\ w.debt \in Int /\ account.cash \in Int /\ account.debt \in Int
    BY <1>2 DEF WorkSet
  <2>4. \A k \in {"cash", "debt"} : (IF k \in w.wrote THEN w[k] ELSE account[k]) \in Int
    BY <2>3
  <2>5. account' \in [cash : Int, debt : Int]
    BY <2>2, <2>4
  <2> QED BY <2>2, <2>5
<1>8. RowsTyped(rows')
  BY <1>1, <1>2, BookedTyped
<1>b. PICK b : b = rows'
  OBVIOUS
<1>9. BookedFrom(b, rows, w)
  BY <1>1, <1>b, BookedIs
<1>10. LedgerTyped'
  <2>1. lostUpdate' \in BOOLEAN /\ overlapped' \in BOOLEAN
    BY <1>1
  <2>2. lag' \in Int
    BY <1>1, <1>4 DEF FlowSet
  <2> QED BY <1>1, <1>5, <1>6, <1>7, <1>8, <2>1, <2>2 DEF LedgerTyped, RowsTyped, Distinct
<1>11. \A lot \in w.opens : lot.id = c
  <2>1. CASE c \in FillIds
    BY <1>3, <2>1 DEF CallKnown
  <2>2. CASE c \in AccrualIds
    BY <1>3, <2>2 DEF CallKnown
  <2> QED BY <2>1, <2>2, CallSets
<1>12. IdsKnown'
  <2>1. \A id \in DOMAIN b : call'[id] = "done"
    <3>1. \A id \in DOMAIN rows : call'[id] = "done"
      BY <1>5 DEF IdsKnown
    <3>2. \A id \in DOMAIN b : id \in DOMAIN rows \/ id = c
      BY <1>9, <1>11 DEF BookedFrom
    <3> QED BY <1>5, <3>1, <3>2
  <2>2. /\ OwnIds(memory) /\ \A i \in DOMAIN memory : call'[memory[i].id] # "idle"
        /\ \A l \in reload.rows : call'[l.id] = "done"
    BY <1>5 DEF IdsKnown
  <2> QED BY <1>1, <1>b, <2>1, <2>2 DEF IdsKnown, OwnIds
<1>13. CallsKnown'
  <2> SUFFICES ASSUME NEW d \in Calls, call'[d] \in InFlight PROVE CallKnown(d, work[d])'
    BY DEF CallsKnown, InFlight
  <2>1. d # c
    BY <1>5 DEF InFlight
  <2>2. CallKnown(d, work[d]) /\ call[d] \in InFlight /\ call'[d] = call[d] /\ work'[d] = work[d]
    BY <1>5, <2>1 DEF CallsKnown
  <2>3. d \in overtaken'
    BY <1>1, <2>1, <2>2 DEF Busy
  <2> QED BY <1>1, <2>2, <2>3, OthersKnown
<1>14. Money'
  <2>1. JournalBalanced'
    <3>1. journal.cash + journal.inventory - journal.short - journal.result = 0
      BY DEF Money, JournalBalanced
    <3>2. /\ journal.cash \in Int /\ journal.inventory \in Int /\ journal.short \in Int /\ journal.result \in Int
          /\ w.flows.cash \in Int /\ w.flows.inventory \in Int /\ w.flows.short \in Int /\ w.flows.result \in Int
      BY <1>2, <1>4 DEF FlowSet
    <3>3. journal'.cash + journal'.inventory - journal'.short - journal'.result = 0
      BY <1>4, <1>6, <3>1, <3>2
    <3> QED BY <3>3 DEF JournalBalanced
  <2>2. ASSUME ~lostUpdate' PROVE Current(c, w) /\ account'.cash = account.cash + w.flows.cash
    <3>1. Current(c, w)
      BY <1>1, <1>4, <2>2
    <3>2. account.cash \in Int
      BY <1>2
    <3> QED BY <1>7, <3>1, <3>2 DEF Current
  <2>3. CashMatchesJournal'
    <3> SUFFICES ASSUME ~lostUpdate' PROVE account'.cash = Cash0 + journal'.cash
      BY DEF CashMatchesJournal
    <3>1. account.cash = Cash0 + journal.cash
      BY <1>1 DEF Money, CashMatchesJournal
    <3>2. Cash0 \in Int /\ journal.cash \in Int /\ w.flows.cash \in Int
      BY <1>2, <1>4, LedgerAssumption, SMTT(30) DEF FlowSet
    <3> QED BY <1>6, <2>2, <3>1, <3>2
  <2>4. DebtLagsByDrag'
    <3> SUFFICES ASSUME ~lostUpdate' PROVE account'.debt = Borrowed(account'.cash + lag')
      BY DEF DebtLagsByDrag, Borrowed
    <3>1. Current(c, w) /\ account'.cash = account.cash + w.flows.cash
      BY <2>2
    <3>2. account'.debt = w.debt
      BY <1>7, <3>1 DEF Current
    <3>3. account.cash \in Int /\ w.flows.cash \in Int
      BY <1>2, <1>4 DEF FlowSet
    <3>4. CASE c \in FillIds
      <4>1. w.debt = Borrowed(w.cash) /\ w.cash = account.cash + w.flows.cash
        BY <3>1, <3>4 DEF Current
      <4>2. lag' = 0
        BY <1>1, <3>4, CallSets
      <4>3. account'.cash + lag' = w.cash
        BY <3>1, <3>3, <4>1, <4>2
      <4> QED BY <3>2, <4>1, <4>3
    <3>5. CASE c \in AccrualIds
      <4>1. w.debt = Borrowed(account.cash)
        BY <3>1, <3>5 DEF Current
      <4>2. lag' = -w.flows.cash
        BY <1>1, <1>4, <3>5
      <4>3. account'.cash + lag' = account.cash
        BY <3>1, <3>3, <4>2
      <4> QED BY <3>2, <4>1, <4>3
    <3> QED BY <3>4, <3>5, CallSets
  <2>5. AccruedOnce'
    <3>1. AccruedOnce
      BY DEF Money
    <3>2. CASE c \in AccrualIds
      <4>1. \A s \in accrued : s.date # w.date
        BY <1>1, <1>w, <3>2 DEF Refused
      <4>n. PICK n : n = [by |-> c, date |-> w.date]
        OBVIOUS
      <4>2. n.date = w.date /\ accrued' = accrued \cup {n}
        BY <1>1, <3>2, <4>n
      <4> QED BY <3>1, <4>1, <4>2 DEF AccruedOnce
    <3>3. CASE c \notin AccrualIds
      BY <1>1, <3>1, <3>3 DEF AccruedOnce
    <3> QED BY <3>2, <3>3
  <2> QED BY <2>1, <2>3, <2>4, <2>5 DEF Money
<1>15. ASSUME ~overlapped' PROVE BooksKept'
  <2>1. BooksKept /\ ~(ahead /\ c \in FillIds)
    BY <1>1, <1>15
  <2>2. CASE c \in AccrualIds
    <3>1. w.opens = {} /\ DOMAIN w.rows = {} /\ w.flows.inventory = 0 /\ w.flows.short = 0
      BY <1>3, <2>2 DEF CallKnown
    <3>2. SameRows(rows, rows')
      <4>1. DOMAIN b = DOMAIN rows /\ \A id \in DOMAIN rows : b[id] = rows[id]
        BY <1>9, <3>1 DEF BookedFrom
      <4> QED BY <1>b, <4>1 DEF SameRows
    <3>3. journal'.inventory = journal.inventory /\ journal'.short = journal.short
      BY <1>2, <1>6, <3>1 DEF FlowSet
    <3>4. \A d \in FillIds : d \in Calls /\ d # c
      BY <2>2, CallSets
    <3>5. Filling' = Filling
      BY <1>5, <3>4 DEF Filling, InFlight
    <3>6. \A d \in Filling : work'[d] = work[d]
      BY <1>5, <3>4 DEF Filling
    <3> QED BY <1>1, <2>1, <3>2, <3>3, <3>5, <3>6, BooksThrough
  <2>3. CASE c \in FillIds
    <3>1. ~ahead /\ c \in Filling
      BY <1>1, <2>1, <2>3 DEF Filling, InFlight
    <3>2. Follows(c, w) /\ Filling = {c} /\ ~reload.on /\ OneSided(memory)
      BY <1>w, <2>1, <3>1 DEF BooksKept
    <3>3. Filling' = {}
      <4>1. \A d \in FillIds : d \in Calls /\ (d # c => call[d] \notin InFlight)
        BY <3>2, CallSets DEF Filling
      <4>2. \A d \in FillIds : call'[d] \notin InFlight
        BY <1>5, <4>1 DEF InFlight
      <4> QED BY <4>2 DEF Filling, InFlight
    <3>4. Mirrored(memory, b)
      BY <1>1, <1>4, <1>b, <3>2, BookedMirrors
    <3>5. OpenSet(memory) = OpenOf(b)
      BY <1>2, <3>4, MirrorSet
    <3>6. SidesAgree(OpenOf(b))
      BY <3>2, <3>5, SidesOfOpen
    <3>7. OwnIds(memory)
      BY DEF IdsKnown
    <3>8. CostOf(OpenSet(memory), 1) = Value(memory, 1) /\ CostOf(OpenSet(memory), -1) = Value(memory, -1)
      BY <1>2, <3>7, CostOfOpen
    <3>9. journal'.inventory = Value(memory, 1) /\ journal'.short = Value(memory, -1)
      BY <1>6, <3>2 DEF Follows
    <3>10. journal'.inventory = CostOf(OpenOf(b), 1) /\ journal'.short = CostOf(OpenOf(b), -1)
      BY <3>5, <3>8, <3>9
    <3>11. Mirrored(memory, b)' /\ OneSided(memory)' /\ reload'.on = FALSE
      <4>1. OneSided(memory)'
        BY <1>1, <3>2 DEF OneSided, OpenLots
      <4>2. Mirrored(memory, b)'
        BY <1>1, <3>4 DEF Mirrored
      <4>3. reload.on \in BOOLEAN
        BY DEF LedgerTyped
      <4> QED BY <1>1, <3>2, <4>1, <4>2, <4>3
    <3> QED BY <1>b, <3>3, <3>6, <3>10, <3>11 DEF BooksKept, OpenOf, Mirrored
  <2> QED BY <2>2, <2>3, CallSets
<1> QED BY <1>10, <1>12, <1>13, <1>14, <1>15

(* A step that changes nothing.                                            *)
LEMMA LedgerStutters ==
  ASSUME LedgerInvariant, UNCHANGED ledgerVars PROVE LedgerInvariant'
<1>1. /\ memory' = memory /\ call' = call /\ work' = work /\ rows' = rows /\ account' = account
      /\ journal' = journal /\ accrued' = accrued /\ reload' = reload /\ ahead' = ahead
      /\ overlapped' = overlapped /\ overtaken' = overtaken /\ lostUpdate' = lostUpdate
      /\ lag' = lag /\ shorting' = shorting
  BY DEF ledgerVars, ledgerHistory
<1>2. LedgerTyped'
  BY <1>1 DEF LedgerInvariant, LedgerTyped, RowsTyped, Distinct
<1>3. IdsKnown'
  BY <1>1, IdsSame DEF LedgerInvariant
<1>4. CallsKnown'
  <2> SUFFICES ASSUME NEW d \in Calls, call'[d] \in InFlight PROVE CallKnown(d, work[d])'
    BY DEF CallsKnown, InFlight
  <2>1. CallKnown(d, work[d])
    BY <1>1 DEF LedgerInvariant, CallsKnown
  <2> QED BY <1>1, <2>1, OthersKnown
<1>5. Money'
  BY <1>1, MoneySame DEF LedgerInvariant
<1>6. ~overlapped' => BooksKept'
  <2>1. Filling' = Filling
    BY <1>1 DEF Filling, InFlight
  <2>2. ASSUME NEW d \in Filling, Follows(d, work[d]) PROVE Follows(d, work[d])'
    BY <1>1, <2>2, FollowsSame
  <2> QED BY <1>1, <2>1, <2>2, BooksSame DEF LedgerInvariant
<1> QED BY <1>2, <1>3, <1>4, <1>5, <1>6 DEF LedgerInvariant

(* Every step keeps the invariant.                                         *)
LEMMA LedgerSteps ==
  ASSUME LedgerInvariant, [LedgerNext]_ledgerVars PROVE LedgerInvariant'
<1>1. ASSUME NEW c \in FillIds, NEW request \in FillRequests, RecordFill(c, request), shorting' = shorting
      PROVE  LedgerInvariant'
  BY <1>1, FillKeeps
<1>2. ASSUME NEW c \in AccrualIds, NEW date \in Dates, NEW p \in Prices, AccrueEod(c, date, p),
             shorting' = shorting
      PROVE  LedgerInvariant'
  BY <1>2, AccrueKeeps
<1>3. ASSUME NEW c \in Calls, DepletedRow(c), shorting' = shorting PROVE LedgerInvariant'
  BY <1>3, DepletedKeeps
<1>4. ASSUME NEW c \in Calls, AccountOfFill(c), shorting' = shorting PROVE LedgerInvariant'
  BY <1>4, AccountKeeps
<1>5. ASSUME NEW c \in Calls, Commit(c), shorting' = shorting PROVE LedgerInvariant'
  BY <1>5, CommitKeeps
<1>6. ASSUME NEW c \in Calls, CommitFails(c), shorting' = shorting PROVE LedgerInvariant'
  BY <1>6, FailKeeps
<1>7. ASSUME RehydrateReads, shorting' = shorting PROVE LedgerInvariant'
  BY <1>7, ReadsKeep
<1>8. ASSUME RehydrateLoads, shorting' = shorting PROVE LedgerInvariant'
  BY <1>8, LoadsKeep
<1>9. ASSUME LedgerRestart, shorting' = shorting PROVE LedgerInvariant'
  BY <1>9, RestartKeeps
<1>10. CASE UNCHANGED ledgerVars
  BY <1>10, LedgerStutters
<1> QED BY <1>1, <1>2, <1>3, <1>4, <1>5, <1>6, <1>7, <1>8, <1>9, <1>10 DEF LedgerNext

-----------------------------------------------------------------------------
(* The order of a FIFO fill.                                               *)
Oldest(c) ==
  call[c] = "idle" /\ call'[c] = "lots" /\ ~work'[c].lifo =>
    \A i, j \in DOMAIN memory :
      memory[i].opened < memory[j].opened /\ memory'[j].remaining < memory[j].remaining
        => memory'[i].remaining = 0

(* A FIFO fill that takes from a lot has emptied every older one (InTurn). *)
LEMMA FillOldest ==
  ASSUME LedgerInvariant, NEW c \in FillIds, NEW request \in FillRequests, RecordFill(c, request),
         shorting' = shorting
  PROVE  Oldest(c)
<1>p. PICK side, q, unitPrice, time, lifo :
        side = request.side /\ q = request.quantity /\ unitPrice = request.price
        /\ time = request.time /\ lifo = request.lifo
  OBVIOUS
<1>t. /\ side \in {-1, 1} /\ q \in Nat \ {0} /\ unitPrice \in Nat \ {0} /\ time \in Nat /\ lifo \in BOOLEAN
      /\ memory \in Seq(LotSet) /\ shorting \in BOOLEAN /\ c \in Calls /\ q \in Nat
  BY <1>p, LedgerAssumption, CallSets DEF LedgerInvariant, LedgerTyped
<1>q. PICK after, taken, fresh, lot, lots :
        /\ after = AfterFill(memory, c, side, q, unitPrice, time, lifo, shorting)
        /\ taken = Taken(memory, side, q, lifo) /\ lots = memory
        /\ fresh = Opens(memory, side, q, shorting)
        /\ lot = Lot(c, side, time, Leftover(memory, side, q), unitPrice)
  OBVIOUS
<1>1. memory' = after
  BY <1>p, <1>q DEF RecordFill
<1>2. call'[c] = "lots" => work'[c].lifo = lifo
  <2> DEFINE raises == Orphaned(memory, side, q, shorting) \/ ~Verified(memory')
  <2>v. PICK todo, opens, e, m :
          /\ todo = {memory[i].id : i \in {j \in DOMAIN memory : taken[j] > 0}}
          /\ opens = {after[i] : i \in {j \in DOMAIN after : after[j].id = c}}
          /\ e = FillEntries(memory, side, q, unitPrice, lifo) /\ m = -side * q * unitPrice
    OBVIOUS
  <2>1. /\ call' = [call EXCEPT ![c] = IF raises THEN "failed" ELSE IF todo = {} THEN "account" ELSE "lots"]
        /\ work' = IF raises THEN work
                   ELSE [work EXCEPT ![c] = [NoCall EXCEPT !.todo = todo, !.lifo = lifo, !.opens = opens,
                                                           !.flows = e, !.cashIn = m]]
    BY <1>p, <1>q, <2>v DEF RecordFill
  <2> HIDE DEF raises
  <2>2. call \in [Calls -> Stages] /\ work \in [Calls -> WorkSet]
    BY DEF LedgerInvariant, LedgerTyped
  <2>3. ASSUME call'[c] = "lots" PROVE ~raises
    BY <1>t, <2>1, <2>2, <2>3
  <2>4. ASSUME ~raises PROVE work'[c].lifo = lifo
    <3>1. work'[c] = [NoCall EXCEPT !.todo = todo, !.lifo = lifo, !.opens = opens, !.flows = e, !.cashIn = m]
      BY <1>t, <2>1, <2>2, <2>4
    <3> QED BY <3>1 DEF NoCall
  <2> QED BY <2>3, <2>4
<1>3. FillLeaves(lots, after, taken, fresh, lot)
  BY <1>t, <1>q, FillIs
<1>4. \A i \in DOMAIN lots : taken[i] \in 0..lots[i].remaining
  BY <1>t, <1>q, TakenIs
<1>5. \A i \in DOMAIN lots :
        /\ lots[i] \in LotSet /\ lots[i].remaining \in Nat /\ lots[i].opened \in Nat
        /\ after[i].remaining = lots[i].remaining - taken[i]
  <2>1. \A i \in DOMAIN lots : lots[i] \in LotSet /\ lots[i].remaining \in Nat /\ lots[i].opened \in Nat
    BY <1>t, <1>q, LotsTyped
  <2>2. \A i \in DOMAIN lots : after[i] = [lots[i] EXCEPT !.remaining = @ - taken[i]]
    BY <1>3 DEF FillLeaves
  <2> QED BY <2>1, <2>2 DEF LotSet
<1>6. ASSUME ~lifo, NEW i \in DOMAIN lots, NEW j \in DOMAIN lots, lots[i].opened < lots[j].opened,
             after[j].remaining < lots[j].remaining
      PROVE  after[i].remaining = 0
  <2>1. taken[j] > 0
    BY <1>4, <1>5, <1>6
  <2>2. \A k \in DOMAIN lots : taken[k] = Matched(lots, q, lifo, k)
    <3>1. CASE Increasing(lots, side)
      <4>1. taken = [k \in DOMAIN lots |-> 0]
        BY <1>q, <3>1 DEF Taken
      <4> QED BY <2>1, <4>1
    <3>2. CASE ~Increasing(lots, side)
      <4>1. taken = [k \in DOMAIN lots |-> Matched(lots, q, lifo, k)]
        BY <1>q, <3>2 DEF Taken
      <4> QED BY <4>1
    <3> QED BY <3>1, <3>2
  <2>3. Before(lots, i, j, lifo)
    BY <1>6 DEF Before
  <2>4. Matched(lots, q, lifo, i) = lots[i].remaining
    <3>1. Matched(lots, q, lifo, j) > 0 /\ lots \in Seq(LotSet)
      BY <1>t, <1>q, <2>1, <2>2
    <3> QED BY <1>t, <2>3, <3>1, InTurn
  <2> QED BY <1>5, <2>2, <2>4
<1> QED BY <1>1, <1>2, <1>5, <1>6, <1>q DEF Oldest

(* No other step starts a fill.                                            *)
LEMMA StepsOldest ==
  ASSUME LedgerInvariant, [LedgerNext]_ledgerVars, NEW c \in FillIds PROVE Oldest(c)
<1> SUFFICES ASSUME call[c] = "idle", call'[c] = "lots" PROVE Oldest(c)
  BY DEF Oldest
<1>1. call'[c] # call[c] /\ call \in [Calls -> Stages] /\ c \in Calls
  BY CallSets DEF LedgerInvariant, LedgerTyped
<1>2. ASSUME NEW d \in FillIds, NEW request \in FillRequests, RecordFill(d, request), shorting' = shorting
      PROVE  Oldest(c)
  <2>1. d = c
    BY <1>1, <1>2 DEF RecordFill
  <2> QED BY <1>2, <2>1, FillOldest
<1>3. ASSUME NEW d \in AccrualIds, NEW date \in Dates, NEW p \in Prices, AccrueEod(d, date, p) PROVE FALSE
  <2>1. d # c
    BY CallSets
  <2> QED BY <1>1, <1>3, <2>1 DEF AccrueEod
<1>4. ASSUME NEW d \in Calls, DepletedRow(d) \/ AccountOfFill(d) \/ Commit(d) \/ CommitFails(d) PROVE FALSE
  <2>1. CASE DepletedRow(d)
    BY <1>1, <2>1 DEF DepletedRow
  <2>2. CASE AccountOfFill(d)
    BY <1>1, <2>2 DEF AccountOfFill
  <2>3. CASE Commit(d)
    BY <1>1, <2>3 DEF Commit
  <2>4. CASE CommitFails(d)
    BY <1>1, <2>4 DEF CommitFails
  <2> QED BY <1>4, <2>1, <2>2, <2>3, <2>4, SMTT(30)
<1>5. ASSUME RehydrateReads \/ RehydrateLoads \/ LedgerRestart \/ UNCHANGED ledgerVars PROVE FALSE
  <2>1. CASE LedgerRestart
    BY <1>1, <2>1 DEF LedgerRestart
  <2> QED BY <1>1, <1>5, <2>1 DEF RehydrateReads, RehydrateLoads, ledgerVars
<1> QED BY <1>2, <1>3, <1>4, <1>5 DEF LedgerNext

-----------------------------------------------------------------------------
(* With no call under way the rows, the journal and the lots agree.        *)
LEMMA BooksAgreeThen == LedgerInvariant => BooksAgree
<1> SUFFICES ASSUME LedgerInvariant, LedgerQuiet, ~overlapped
             PROVE  /\ ahead \/ {memory[i] : i \in {j \in DOMAIN memory : memory[j].remaining > 0}} = OpenRows
                    /\ journal.inventory = CostOf(OpenRows, 1)
                    /\ journal.short = CostOf(OpenRows, -1)
  BY DEF BooksAgree
<1>1. BooksKept
  BY DEF LedgerInvariant
<1>2. Filling = {}
  <2>1. \A d \in FillIds : d \in Calls
    BY CallSets
  <2> QED BY <2>1 DEF LedgerQuiet, Busy, Filling
<1>3. journal.inventory = CostOf(OpenOf(rows), 1) /\ journal.short = CostOf(OpenOf(rows), -1)
  BY <1>1 DEF BooksKept
<1>4. ASSUME ~ahead
      PROVE  {memory[i] : i \in {j \in DOMAIN memory : memory[j].remaining > 0}} = OpenOf(rows)
  <2>1. Mirrored(memory, rows)
    BY <1>1, <1>2, <1>4 DEF BooksKept
  <2>2. memory \in Seq(LotSet)
    BY DEF LedgerInvariant, LedgerTyped
  <2>3. OpenSet(memory) = OpenOf(rows)
    BY <2>1, <2>2, MirrorSet
  <2> QED BY <2>3 DEF OpenSet, OpenLots
<1> QED BY <1>3, <1>4, OpenRowsAre

(* The invariant holds in every state of every run.                        *)
LEMMA LedgerInvariantHolds == LedgerSpec => []LedgerInvariant
  BY LedgerBegins, LedgerSteps, PTL DEF LedgerSpec

(* Journal, account, rows and lots reconcile: record_fill, accrue_daily_eod, *)
(* their commits, failures and rollbacks, reloads and restarts, for any    *)
(* fills, prices, rates, dates and numbers of calls, but for the overlaps  *)
(* the parts of LedgerReconciles name.                                     *)
THEOREM LedgerReconcilesHolds == LedgerSpec => LedgerReconciles
<1>1. LedgerInvariant => JournalBalanced /\ CashMatchesJournal /\ BooksAgree /\ LotsOneSided /\ DebtLagsByDrag /\ AccruedOnce
  <2>1. LedgerInvariant => LotsOneSided
    BY DEF LedgerInvariant, LotsOneSided, BooksKept
  <2> QED BY <2>1, BooksAgreeThen DEF LedgerInvariant, Money
<1>2. LedgerInvariant /\ [LedgerNext]_ledgerVars =>
        [\A c \in FillIds :
           call[c] = "idle" /\ call'[c] = "lots" /\ ~work'[c].lifo =>
             \A i, j \in DOMAIN memory :
               memory[i].opened < memory[j].opened /\ memory'[j].remaining < memory[j].remaining
                 => memory'[i].remaining = 0]_ledgerVars
  BY StepsOldest DEF Oldest
<1>3. LedgerSpec => OldestFirst
  BY <1>2, LedgerInvariantHolds, PTL DEF LedgerSpec, OldestFirst
<1>4. LedgerSpec => /\ []JournalBalanced /\ []CashMatchesJournal /\ []BooksAgree
                    /\ []LotsOneSided /\ []DebtLagsByDrag /\ []AccruedOnce
  BY <1>1, LedgerInvariantHolds, PTL
<1> QED BY <1>3, <1>4 DEF LedgerReconciles
================================================================================

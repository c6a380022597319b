---------------------------- MODULE ServiceProofs ----------------------------
(***************************************************************************)
(* Proofs about what the server's tasks share. ExecutionService: for any   *)
(* parent orders of any size, any schedule, and any number of failures,    *)
(* kills and disconnections, it keeps the books it promises and implements *)
(* ParentContract. EventStream: for any items, any queue size and any      *)
(* interleaving of changes, writer and client. AuditLogger: for any        *)
(* callers, queue size, batch size and failures of the database.           *)
(***************************************************************************)
EXTENDS ExecutionService, EventStream, AuditLogger, SequenceTheorems, TLAPS

Slices == Seq(1..Lots)
UnderWay == {"connecting", "routing"}

ServiceTyped ==
  /\ stage \in [Clients -> {"none", "queued", "sleeping", "connecting", "routing", "done"}]
  /\ agenda \in [Clients -> Slices]
  /\ \A p \in Clients : Len(agenda[p]) <= MaxSlices
  /\ \A p \in Clients : stage[p] \in {"sleeping", "connecting", "routing"} => agenda[p] # <<>>
  /\ \A p \in Clients : stage[p] = "none" => granted[p] = 0 /\ p \notin flagged
  /\ recorded \in [Clients -> 0..Lots] /\ granted \in [Clients -> 0..Lots]
  /\ venueTraded \in [Clients -> Nat] /\ working \in [Clients -> Nat]
  /\ flagged \subseteq Clients /\ expired \subseteq Clients
  /\ panicked \in BOOLEAN /\ online \in BOOLEAN
  /\ announced \in [Clients -> {"none", "COMPLETED", "UPDATED"}]
  /\ serviceFaults \in 0..MaxServiceFaults

(* What is still to come of a schedule, on top of the lots granted, stays  *)
(* within the order.                                                       *)
Prospect(list, base) ==
  \E c \in [0..Len(list) -> 0..Lots] : c[0] = base /\ RunsThrough(c, list)

(* A slice under way has been granted already; what is recorded exceeds    *)
(* what was granted before it by the surplus of faulty answers at most.    *)
Plan(p) ==
  \E base \in 0..Lots :
    /\ Prospect(agenda[p], base)
    /\ recorded[p] <= base + serviceFaults
    /\ granted[p] = IF stage[p] \in UnderWay THEN base + Head(agenda[p]) ELSE base

Planned == \A p \in Clients : Plan(p)

-----------------------------------------------------------------------------
LEMMA NothingProspective ==
  ASSUME NEW base \in 0..Lots
  PROVE  Prospect(<<>>, base)
<1> DEFINE c == [i \in 0..0 |-> base]
<1>1. Len(<<>>) = 0 /\ c \in [0..0 -> 0..Lots] /\ c[0] = base
  OBVIOUS
<1>2. RunsThrough(c, <<>>)
  BY <1>1 DEF RunsThrough
<1> QED
  BY <1>1, <1>2 DEF Prospect

LEMMA ListsProspective ==
  ASSUME NEW list \in SliceLists
  PROVE  list \in Slices /\ Len(list) \in 1..MaxSlices /\ Prospect(list, 0)
<1>1. PICK n \in 1..MaxSlices : list \in [1..n -> 1..Lots]
  BY DEF SliceLists
<1>2. n \in Nat
  BY <1>1, ServiceAssumption
<1>3. list \in Slices
  BY <1>1, <1>2, SeqDef DEF Slices
<1>4. Len(list) = n
  BY <1>1, <1>2, <1>3 DEF Slices
<1> QED
  BY <1>3, <1>4 DEF SliceLists, Prospect

(* A slice that is begun leaves the prospect of the rest.                  *)
LEMMA ProspectOfTail ==
  ASSUME NEW list \in Slices, list # <<>>, NEW base \in 0..Lots, Prospect(list, base)
  PROVE  /\ Head(list) \in 1..Lots /\ base + Head(list) \in 0..Lots
         /\ Tail(list) \in Slices /\ Len(Tail(list)) = Len(list) - 1
         /\ Prospect(Tail(list), base + Head(list))
<1>1. PICK c \in [0..Len(list) -> 0..Lots] : c[0] = base /\ RunsThrough(c, list)
  BY DEF Prospect
<1>2. /\ Len(list) \in Nat /\ Len(list) >= 1 /\ Head(list) = list[1] /\ list[1] \in 1..Lots
      /\ Tail(list) \in Slices /\ Len(Tail(list)) = Len(list) - 1
      /\ \A i \in 1..Len(Tail(list)) : Tail(list)[i] = list[i + 1]
  BY DEF Slices
<1>3. c[1] = base + Head(list) /\ c[1] \in 0..Lots
  BY <1>1, <1>2, ServiceAssumption DEF RunsThrough
<1> DEFINE d == [i \in 0..Len(Tail(list)) |-> c[i + 1]]
<1>4. d \in [0..Len(Tail(list)) -> 0..Lots]
  BY <1>1, <1>2
<1>5. d[0] = base + Head(list)
  BY <1>2, <1>3
<1>6. ASSUME NEW i \in 1..Len(Tail(list)) PROVE d[i] = d[i - 1] + Tail(list)[i]
  BY <1>1, <1>2, <1>6 DEF RunsThrough
<1> QED
  BY <1>2, <1>3, <1>4, <1>5, <1>6 DEF Prospect, RunsThrough

-----------------------------------------------------------------------------
(* What the loop leaves behind from one await to the next: the task sleeps,*)
(* has a slice under way, or has ended and told how.                       *)
Resumes(p, filled) ==
  /\ stage' \in [Clients -> {"none", "queued", "sleeping", "connecting", "routing", "done"}]
  /\ agenda' \in [Clients -> Slices]
  /\ granted' \in [Clients -> 0..Lots]
  /\ announced' \in [Clients -> {"none", "COMPLETED", "UPDATED"}]
  /\ \A r \in Clients \ {p} :
       UNCHANGED <<stage[r], agenda[r], granted[r], announced[r]>>
  /\ stage'[p] \in {"sleeping", "connecting", "routing", "done"}
  /\ Len(agenda'[p]) <= MaxSlices
  /\ granted[p] <= granted'[p]
  /\ stage'[p] # "done" => agenda'[p] # <<>> /\ announced'[p] = announced[p]
  /\ stage'[p] = "done" => announced'[p] = IF filled = Lots THEN "COMPLETED" ELSE "UPDATED"
  /\ stage'[p] \in UnderWay \/ granted'[p] # granted[p] => ~Halted(p)

(* The code from the head of the loop, or from the end of the sleep, to the*)
(* next await keeps the plan of the order.                                 *)
LEMMA LoopPlans ==
  ASSUME ServiceTyped, NEW p \in Clients, NEW filled \in 0..Lots,
         NEW list \in Slices, Len(list) <= MaxSlices, Prospect(list, granted[p]),
         recorded'[p] = filled, serviceFaults' \in Nat, filled <= granted[p] + serviceFaults',
         HeadOfLoop(p, filled, list) \/ (list # <<>> /\ Launch(p, filled, list))
  PROVE  Resumes(p, filled) /\ Plan(p)'
<1> USE DEF ServiceTyped
<1>0. granted[p] \in 0..Lots /\ Lots \in Nat /\ MaxSlices \in Nat /\ <<>> \in Slices /\ Len(<<>>) = 0
  BY ServiceAssumption DEF Slices
<1>1. CASE EndTask(p, filled)
  <2>1. Resumes(p, filled)
    BY <1>0, <1>1 DEF EndTask, Resumes, UnderWay
  <2>2. agenda'[p] = <<>> /\ granted'[p] = granted[p] /\ stage'[p] = "done"
    BY <1>1 DEF EndTask
  <2>3. Prospect(agenda'[p], granted[p])
    BY <1>0, <2>2, NothingProspective
  <2> QED
    BY <1>0, <2>1, <2>2, <2>3 DEF Plan, UnderWay
<1>2. CASE /\ stage' = [stage EXCEPT ![p] = "sleeping"] /\ agenda' = [agenda EXCEPT ![p] = list]
           /\ UNCHANGED <<granted, announced>> /\ list # <<>>
  <2>1. Resumes(p, filled)
    BY <1>0, <1>2 DEF Resumes, UnderWay
  <2>2. agenda'[p] = list /\ granted'[p] = granted[p] /\ stage'[p] = "sleeping"
    BY <1>2
  <2> QED
    BY <1>0, <2>1, <2>2 DEF Plan, UnderWay
<1>3. CASE /\ list # <<>> /\ ~Halted(p)
           /\ stage' = [stage EXCEPT ![p] = IF online THEN "routing" ELSE "connecting"]
           /\ agenda' = [agenda EXCEPT ![p] = list]
           /\ granted' = [granted EXCEPT ![p] = @ + Head(list)]
           /\ UNCHANGED announced
  <2>0. Head(list) \in 1..Lots /\ granted[p] + Head(list) \in 0..Lots
    BY <1>0, <1>3, ProspectOfTail
  <2>1. Resumes(p, filled)
    <3>1. PICK s \in UnderWay : stage' = [stage EXCEPT ![p] = s]
      BY <1>3 DEF UnderWay
    <3>2. granted' \in [Clients -> 0..Lots] /\ granted[p] <= granted'[p]
      BY <1>0, <1>3, <2>0, SMTT(30)
    <3>3. \A r \in Clients \ {p} : UNCHANGED <<stage[r], agenda[r], granted[r], announced[r]>>
      BY <1>3, <3>1
    <3>4. stage' \in [Clients -> {"none", "queued", "sleeping", "connecting", "routing", "done"}]
      BY <3>1 DEF UnderWay
    <3>5. stage'[p] \in UnderWay /\ UnderWay \subseteq {"sleeping", "connecting", "routing", "done"} \ {"done"}
      BY <3>1 DEF UnderWay
    <3>6. agenda' \in [Clients -> Slices] /\ agenda'[p] = list
      BY <1>3
    <3>7. announced' = announced /\ ~Halted(p)
      BY <1>3
    <3> QED
      BY <1>3, <3>2, <3>3, <3>4, <3>5, <3>6, <3>7 DEF Resumes
  <2>2. agenda'[p] = list /\ granted'[p] = granted[p] + Head(list) /\ stage'[p] \in UnderWay
    BY <1>3 DEF UnderWay
  <2> QED
    BY <1>0, <2>1, <2>2 DEF Plan
<1> QED
  BY <1>1, <1>2, <1>3 DEF HeadOfLoop, Launch

(* The plan of an order whose task does not move.                          *)
LEMMA PlanKept ==
  ASSUME NEW r \in Clients, Plan(r), serviceFaults \in Nat, serviceFaults' \in Nat,
         serviceFaults <= serviceFaults', recorded[r] \in Nat, Lots \in Nat,
         stage'[r] = stage[r], agenda'[r] = agenda[r],
         granted'[r] = granted[r], recorded'[r] = recorded[r]
  PROVE  Plan(r)'
  BY DEF Plan, UnderWay

-----------------------------------------------------------------------------
LEMMA SmallerOfTwo ==
  ASSUME NEW a \in Int, NEW b \in Int
  PROVE  Min({a, b}) = IF a <= b THEN a ELSE b
<1> DEFINE m == IF a <= b THEN a ELSE b
<1>1. m \in {a, b} /\ \A y \in {a, b} : m =< y
  OBVIOUS
<1>2. \A x \in {a, b} : (\A y \in {a, b} : x =< y) => x = m
  OBVIOUS
<1> QED
  BY <1>1, <1>2 DEF Min

(* A slice of q lots is answered by at most two fills, together at most one*)
(* lot more than it asked for.                                             *)
LEMMA AnswersBounded ==
  ASSUME NEW q \in Nat, NEW fills \in Answers(q)
  PROVE  /\ Len(fills) \in 0..2 /\ \A i \in 1..Len(fills) : fills[i] \in Nat
         /\ LotsReported(fills, Len(fills)) \in 0..(q + 1)
<1>1. CASE fills = <<>>
  BY <1>1 DEF LotsReported
<1>2. ASSUME NEW a \in 1..(q + 1), fills = <<a>>
      PROVE  Len(fills) = 1 /\ fills[1] = a /\ LotsReported(fills, 1) = a
  BY <1>2 DEF LotsReported
<1>3. ASSUME NEW a \in Nat, NEW b \in Nat, fills = <<a, b>>
      PROVE  Len(fills) = 2 /\ fills[1] = a /\ fills[2] = b /\ LotsReported(fills, 2) = a + b
  BY <1>3 DEF LotsReported
<1>4. CASE \E a \in 1..(q + 1) : fills = <<a>>
  BY <1>2, <1>4
<1>5. CASE \E a \in 1..(q - 1) : fills = <<a, q - a>>
  <2>1. PICK a \in 1..(q - 1) : fills = <<a, q - a>>
    BY <1>5
  <2>2. a \in Nat /\ q - a \in Nat /\ a + (q - a) = q
    OBVIOUS
  <2>3. Len(fills) = 2 /\ fills[1] = a /\ fills[2] = q - a /\ LotsReported(fills, 2) = a + (q - a)
    BY <1>3, <2>1, <2>2
  <2> QED
    BY <2>2, <2>3
<1>6. CASE fills = <<1, q>>
  BY <1>3, <1>6
<1> QED
  BY <1>1, <1>4, <1>5, <1>6 DEF Answers

(* What is recorded of an answer never exceeds the order (INV-SOR-001), nor*)
(* what was executed, and is all of it unless a report is dropped.         *)
LEMMA AnswerRecorded ==
  ASSUME NEW p \in Clients, recorded[p] \in 0..Lots, Lots \in Nat,
         NEW q \in Nat, NEW fills \in Answers(q), NEW cutAt \in Nat \ {0},
         NEW seen, seen = Min({SliceAccepted(p, fills), cutAt})
  PROVE  /\ seen \in 0..Len(fills)
         /\ recorded[p] + LotsReported(fills, seen) \in recorded[p]..Lots
         /\ LotsReported(fills, seen) \in 0..LotsReported(fills, Len(fills))
         /\ LotsReported(fills, Len(fills)) \in 0..(q + 1)
<1>1. /\ Len(fills) \in 0..2 /\ \A i \in 1..Len(fills) : fills[i] \in Nat
      /\ LotsReported(fills, Len(fills)) \in 0..(q + 1)
  BY AnswersBounded
<1> DEFINE Fits(n) == /\ recorded[p] + LotsReported(fills, n) <= Lots
                      /\ n < Len(fills) => recorded[p] + LotsReported(fills, n + 1) > Lots
<1>2. \E n \in 0..Len(fills) : Fits(n)
  <2>1. recorded[p] + LotsReported(fills, 0) <= Lots
    BY DEF LotsReported
  <2>2. CASE Len(fills) = 0
    <3>1. 0 \in 0..Len(fills) /\ Fits(0)
      BY <2>1, <2>2
    <3> QED
      BY <3>1
  <2>3. CASE Len(fills) = 1
    <3>1. Fits(0) \/ Fits(1)
      BY <1>1, <2>1, <2>3 DEF LotsReported
    <3> QED
      BY <2>3, <3>1
  <2>4. CASE Len(fills) = 2
    <3>1. Fits(0) \/ Fits(1) \/ Fits(2)
      BY <1>1, <2>1, <2>4 DEF LotsReported
    <3> QED
      BY <2>4, <3>1
  <2> QED
    BY <1>1, <2>2, <2>3, <2>4
<1>3. SliceAccepted(p, fills) \in 0..Len(fills) /\ Fits(SliceAccepted(p, fills))
  BY <1>2 DEF SliceAccepted
<1>4. seen \in 0..SliceAccepted(p, fills)
  BY <1>1, <1>3, SmallerOfTwo, SMTT(30)
<1>5. \A i, j \in 0..Len(fills) :
        i <= j => LotsReported(fills, i) \in Nat /\ LotsReported(fills, i) <= LotsReported(fills, j)
  BY <1>1, SMTT(30) DEF LotsReported
<1>6. seen \in 0..Len(fills) /\ Len(fills) \in 0..Len(fills)
  BY <1>1, <1>3, <1>4
<1>7. /\ LotsReported(fills, seen) \in Nat /\ LotsReported(fills, seen) <= LotsReported(fills, Len(fills))
      /\ LotsReported(fills, seen) <= LotsReported(fills, SliceAccepted(p, fills))
      /\ LotsReported(fills, SliceAccepted(p, fills)) \in Nat
  BY <1>1, <1>3, <1>4, <1>5, <1>6, SMTT(30)
<1> QED
  BY <1>1, <1>3, <1>6, <1>7

-----------------------------------------------------------------------------
(* EndIsAnnounced, and that nothing is announced before the end.           *)
EndsTold ==
  \A p \in Clients :
    IF stage[p] = "done"
    THEN /\ announced[p] = "none" <=> p \in crashed
         /\ announced[p] = "COMPLETED" <=> p \notin crashed /\ recorded[p] = Lots
    ELSE announced[p] = "none" /\ p \notin crashed

ServiceInvariant == ServiceTyped /\ Planned /\ EndsTold /\ BookFollowsVenue

LEMMA ServiceInvariantInit == ServiceInit => ServiceInvariant
<1> SUFFICES ASSUME ServiceInit PROVE ServiceInvariant
  OBVIOUS
<1>0. Lots \in Nat /\ MaxSlices \in Nat /\ <<>> \in Slices /\ Len(<<>>) = 0
  BY ServiceAssumption DEF Slices
<1>1. ServiceTyped
  <2>1. agenda \in [Clients -> Slices] /\ \A p \in Clients : agenda[p] = <<>>
    BY <1>0 DEF ServiceInit
  <2>2. /\ recorded \in [Clients -> 0..Lots] /\ granted \in [Clients -> 0..Lots]
        /\ venueTraded \in [Clients -> Nat] /\ working \in [Clients -> Nat]
        /\ serviceFaults \in 0..MaxServiceFaults
    <3>1. 0 \in 0..Lots /\ 0 \in Nat /\ 0 \in 0..MaxServiceFaults
      BY <1>0, ServiceAssumption
    <3> QED
      BY <3>1 DEF ServiceInit
  <2>3. \A p \in Clients : stage[p] = "none" /\ granted[p] = 0
    BY DEF ServiceInit
  <2>4. /\ stage \in [Clients -> {"none", "queued", "sleeping", "connecting", "routing", "done"}]
        /\ announced \in [Clients -> {"none", "COMPLETED", "UPDATED"}]
        /\ panicked \in BOOLEAN /\ online \in BOOLEAN /\ flagged = {} /\ expired = {}
    BY DEF ServiceInit
  <2>5. \A p \in Clients : Len(agenda[p]) <= MaxSlices
    BY <1>0, <2>1
  <2> QED
    BY <2>1, <2>2, <2>3, <2>4, <2>5 DEF ServiceTyped
<1>2. ASSUME NEW p \in Clients PROVE Plan(p)
  <2>1. agenda[p] = <<>> /\ granted[p] = 0 /\ stage[p] = "none" /\ recorded[p] = 0 /\ serviceFaults = 0
    BY DEF ServiceInit
  <2>2. Prospect(agenda[p], 0)
    BY <1>0, <2>1, NothingProspective
  <2> QED
    BY <1>0, <2>1, <2>2 DEF Plan, UnderWay
<1>3. EndsTold /\ BookFollowsVenue
  BY DEF ServiceInit, EndsTold, BookFollowsVenue
<1> QED
  BY <1>1, <1>2, <1>3 DEF ServiceInvariant, Planned

(* A step of the loop of p keeps what no venue is needed for.              *)
LEMMA ResumeKeeps ==
  ASSUME ServiceTyped, Planned, EndsTold, NEW p \in Clients, NEW filled \in 0..Lots,
         stage[p] \notin {"none", "done"}, Resumes(p, filled), Plan(p)',
         recorded' = [recorded EXCEPT ![p] = filled],
         venueTraded' \in [Clients -> Nat], working' \in [Clients -> Nat],
         UNCHANGED <<flagged, panicked, expired, crashed>>, online' \in BOOLEAN,
         serviceFaults' \in 0..MaxServiceFaults, serviceFaults <= serviceFaults'
  PROVE  ServiceTyped' /\ Planned' /\ EndsTold'
<1> USE ServiceAssumption DEF ServiceTyped
<1>1. ServiceTyped'
  BY DEF Resumes, UnderWay
<1>2. ASSUME NEW r \in Clients, r # p PROVE Plan(r)'
  BY <1>2, PlanKept DEF Planned, Resumes
<1>3. EndsTold'
  BY DEF EndsTold, Resumes
<1> QED
  BY <1>1, <1>2, <1>3 DEF Planned

(* The prospect a task has at its next await, and the room for its fills.  *)
LEMMA ProspectAhead ==
  ASSUME ServiceTyped, NEW p \in Clients, Plan(p)
  PROVE  /\ stage[p] \notin UnderWay =>
              Prospect(agenda[p], granted[p]) /\ recorded[p] <= granted[p] + serviceFaults
         /\ stage[p] \in UnderWay =>
              /\ Head(agenda[p]) \in 1..Lots
              /\ Tail(agenda[p]) \in Slices /\ Len(Tail(agenda[p])) <= MaxSlices
              /\ Prospect(Tail(agenda[p]), granted[p])
              /\ recorded[p] + Head(agenda[p]) <= granted[p] + serviceFaults
<1> USE ServiceAssumption DEF ServiceTyped
<1>1. PICK base \in 0..Lots :
        /\ Prospect(agenda[p], base) /\ recorded[p] <= base + serviceFaults
        /\ granted[p] = IF stage[p] \in UnderWay THEN base + Head(agenda[p]) ELSE base
  BY DEF Plan
<1>2. CASE stage[p] \notin UnderWay
  BY <1>1, <1>2
<1>3. CASE stage[p] \in UnderWay
  <2>1. agenda[p] \in Slices /\ agenda[p] # <<>> /\ Len(agenda[p]) \in Nat
    BY <1>3 DEF UnderWay, Slices
  <2>2. /\ Head(agenda[p]) \in 1..Lots
        /\ Tail(agenda[p]) \in Slices /\ Len(Tail(agenda[p])) = Len(agenda[p]) - 1
        /\ Prospect(Tail(agenda[p]), base + Head(agenda[p]))
    BY <1>1, <2>1, ProspectOfTail
  <2> QED
    BY <1>1, <1>3, <2>1, <2>2
<1> QED
  BY <1>2, <1>3

(* What the client sees of a step of the task of p.                        *)
Advances(p) ==
  /\ stage[p] \notin {"none", "done"} /\ stage'[p] # "none" /\ UNCHANGED flagged
  /\ \A r \in Clients \ {p} : stage'[r] = stage[r] /\ granted'[r] = granted[r]
  /\ granted[p] <= granted'[p] /\ (granted'[p] # granted[p] => p \notin flagged)
  /\ recorded'[p] \in recorded[p]..(granted[p] + serviceFaults')
  /\ recorded' = [recorded EXCEPT ![p] = recorded'[p]]

(* All of it together: what any step of the loop of p keeps and shows.     *)
LEMMA TaskGoesOn ==
  ASSUME ServiceTyped, Planned, EndsTold, NEW p \in Clients, NEW filled \in 0..Lots,
         recorded[p] <= filled,
         NEW list \in Slices, Len(list) <= MaxSlices, Prospect(list, granted[p]),
         stage[p] \notin {"none", "done"},
         HeadOfLoop(p, filled, list) \/ (list # <<>> /\ Launch(p, filled, list)),
         recorded' = [recorded EXCEPT ![p] = filled], filled <= granted[p] + serviceFaults',
         venueTraded' \in [Clients -> Nat], working' \in [Clients -> Nat],
         UNCHANGED <<flagged, panicked, expired, crashed>>, online' \in BOOLEAN,
         serviceFaults' \in 0..MaxServiceFaults, serviceFaults <= serviceFaults'
  PROVE  ServiceTyped' /\ Planned' /\ EndsTold' /\ Advances(p)
<1>1. /\ recorded'[p] = filled /\ serviceFaults' \in Nat
      /\ recorded[p] \in Nat /\ granted[p] \in Nat
  BY ServiceAssumption DEF ServiceTyped
<1>2. Resumes(p, filled) /\ Plan(p)'
  BY <1>1, LoopPlans
<1>3. Advances(p)
  <2>1. stage'[p] # "none" /\ granted[p] <= granted'[p] /\ (granted'[p] # granted[p] => p \notin flagged)
    BY <1>2 DEF Resumes, Halted
  <2>2. \A r \in Clients \ {p} : stage'[r] = stage[r] /\ granted'[r] = granted[r]
    BY <1>2 DEF Resumes
  <2>3. recorded'[p] \in recorded[p]..(granted[p] + serviceFaults')
    BY <1>1
  <2>4. recorded' = [recorded EXCEPT ![p] = recorded'[p]]
    BY <1>1
  <2> QED
    BY <2>1, <2>2, <2>3, <2>4 DEF Advances
<1> QED
  BY <1>2, <1>3, ResumeKeeps

-----------------------------------------------------------------------------
(* What the client sees of any step.                                       *)
Seen ==
  \/ UNCHANGED <<stage, granted, recorded, flagged>>
  \/ \E p \in Clients :
       \/ Advances(p) \/ CancelOrder(p)
       \/ \E list \in SliceLists, sync \in BOOLEAN : Submit(p, list, sync)

LEMMA ServiceInvariantStep ==
  ServiceInvariant /\ [ServiceNext]_serviceVars => ServiceInvariant' /\ Seen
<1> SUFFICES ASSUME ServiceInvariant, [ServiceNext]_serviceVars PROVE ServiceInvariant' /\ Seen
  OBVIOUS
<1> USE DEF serviceHistory
<1>0. /\ ServiceTyped /\ Planned /\ EndsTold /\ BookFollowsVenue
      /\ Lots \in Nat /\ MaxSlices \in Nat /\ MaxServiceFaults \in Nat
      /\ \A p \in Clients : Plan(p) /\ granted[p] \in 0..Lots /\ recorded[p] \in 0..Lots
      /\ serviceFaults \in 0..MaxServiceFaults
  BY ServiceAssumption DEF ServiceInvariant, ServiceTyped, Planned
<1>1. ASSUME NEW p \in Clients, NEW list \in SliceLists, NEW sync \in BOOLEAN, Submit(p, list, sync)
      PROVE ServiceInvariant'
  <2>1. list \in Slices /\ Len(list) <= MaxSlices /\ Prospect(list, 0) /\ list # <<>>
    BY ListsProspective
  <2>2. ServiceTyped'
    BY <1>0, <1>1, <2>1 DEF Submit, ServiceTyped
  <2>3. Plan(p)'
    BY <1>0, <1>1, <2>1, ProspectAhead DEF Submit, Plan, UnderWay, ServiceTyped
  <2>4. ASSUME NEW r \in Clients, r # p PROVE Plan(r)'
    BY <1>0, <1>1, <2>4, PlanKept DEF Submit, ServiceTyped
  <2>5. EndsTold' /\ BookFollowsVenue'
    BY <1>0, <1>1 DEF Submit, EndsTold, BookFollowsVenue, ServiceTyped
  <2> QED
    BY <2>2, <2>3, <2>4, <2>5 DEF Planned, ServiceInvariant
<1>2. ASSUME NEW p \in Clients, TaskStarts(p) \/ Wakes(p) PROVE ServiceInvariant' /\ Advances(p)
  <2>1. /\ stage[p] \in {"queued", "sleeping"} /\ agenda[p] \in Slices
        /\ stage[p] = "sleeping" => agenda[p] # <<>>
        /\ Len(agenda[p]) <= MaxSlices
    BY <1>0, <1>2 DEF TaskStarts, Wakes, ServiceTyped
  <2>2. /\ recorded' = [recorded EXCEPT ![p] = recorded[p]]
        /\ venueTraded' \in [Clients -> Nat] /\ working' \in [Clients -> Nat]
        /\ UNCHANGED <<flagged, panicked, expired, crashed>> /\ online' \in BOOLEAN
        /\ serviceFaults' \in 0..MaxServiceFaults /\ serviceFaults <= serviceFaults'
    BY <1>0, <1>2 DEF TaskStarts, Wakes, ServiceTyped
  <2>3. Prospect(agenda[p], granted[p]) /\ recorded[p] <= granted[p] + serviceFaults
    BY <1>0, <2>1, ProspectAhead DEF UnderWay
  <2>4. \/ HeadOfLoop(p, recorded[p], agenda[p])
        \/ agenda[p] # <<>> /\ Launch(p, recorded[p], agenda[p])
    BY <1>0, <1>2, <2>1 DEF TaskStarts, Wakes
  <2>5. ServiceTyped' /\ Planned' /\ EndsTold' /\ Advances(p)
    <3>1. recorded[p] \in 0..Lots /\ recorded[p] <= recorded[p] /\ stage[p] \notin {"none", "done"} /\ Planned /\ EndsTold
      BY <1>0, <2>1
    <3>2. recorded[p] <= granted[p] + serviceFaults'
      BY <1>0, <2>2, <2>3
    <3> QED
      BY <1>0, <2>1, <2>2, <2>3, <2>4, <3>1, <3>2, TaskGoesOn
  <2>6. BookFollowsVenue'
    BY <1>0, <1>2 DEF TaskStarts, Wakes, BookFollowsVenue
  <2> QED
    BY <2>5, <2>6 DEF ServiceInvariant
<1>3. ASSUME NEW p \in Clients, Connects(p) PROVE ServiceInvariant' /\ Advances(p)
  <2>1. CASE panicked
    <3>1. HeadOfLoop(p, recorded[p], Tail(agenda[p])) /\ stage[p] = "connecting"
      BY <1>0, <1>3, <2>1 DEF Connects
    <3>2. /\ recorded' = [recorded EXCEPT ![p] = recorded[p]]
          /\ venueTraded' \in [Clients -> Nat] /\ working' \in [Clients -> Nat]
          /\ UNCHANGED <<flagged, panicked, expired, crashed>> /\ online' \in BOOLEAN
          /\ serviceFaults' \in 0..MaxServiceFaults /\ serviceFaults <= serviceFaults'
      BY <1>0, <1>3 DEF Connects, ServiceTyped
    <3>3. /\ Tail(agenda[p]) \in Slices /\ Len(Tail(agenda[p])) <= MaxSlices
          /\ Prospect(Tail(agenda[p]), granted[p]) /\ recorded[p] <= granted[p] + serviceFaults
      BY <1>0, <3>1, ProspectAhead DEF UnderWay
    <3>4. ServiceTyped' /\ Planned' /\ EndsTold' /\ Advances(p)
      <4>1. recorded[p] \in 0..Lots /\ recorded[p] <= recorded[p] /\ stage[p] \notin {"none", "done"}
        BY <1>0, <3>1
      <4>2. recorded[p] <= granted[p] + serviceFaults'
        BY <1>0, <3>2, <3>3
      <4> QED
        BY <1>0, <3>1, <3>2, <3>3, <4>1, <4>2, TaskGoesOn
    <3>5. BookFollowsVenue'
      BY <1>0, <1>3 DEF Connects, BookFollowsVenue
    <3> QED
      BY <3>4, <3>5 DEF ServiceInvariant
  <2>2. CASE ~panicked
    <3>1. ServiceTyped' /\ EndsTold' /\ BookFollowsVenue'
      BY <1>0, <1>3, <2>2 DEF Connects, ServiceTyped, EndsTold, BookFollowsVenue
    <3>2. Plan(p)'
      BY <1>0, <1>3, <2>2 DEF Connects, Plan, UnderWay, ServiceTyped
    <3>3. ASSUME NEW r \in Clients, r # p PROVE Plan(r)'
      BY <1>0, <1>3, <2>2, <3>3, PlanKept DEF Connects, ServiceTyped
    <3>4. Advances(p)
      <4>1. recorded[p] + Head(agenda[p]) <= granted[p] + serviceFaults /\ Head(agenda[p]) \in Nat
        BY <1>0, <1>3, ProspectAhead DEF Connects, UnderWay
      <4>2. /\ stage' = [stage EXCEPT ![p] = "routing"]
            /\ UNCHANGED <<granted, recorded, flagged, serviceFaults>>
            /\ stage[p] = "connecting"
        BY <1>3, <2>2 DEF Connects
      <4>3. recorded'[p] \in recorded[p]..(granted[p] + serviceFaults')
        BY <1>0, <4>1, <4>2
      <4>4. recorded' = [recorded EXCEPT ![p] = recorded'[p]]
        BY <1>0, <4>2 DEF ServiceTyped
      <4> QED
        BY <1>0, <4>2, <4>3, <4>4 DEF Advances, ServiceTyped
    <3> QED
      BY <3>1, <3>2, <3>3, <3>4 DEF Planned, ServiceInvariant
  <2> QED
    BY <1>0, <2>1, <2>2 DEF ServiceTyped
<1>4. ASSUME NEW p \in Clients, ConnectFails(p) PROVE ServiceInvariant' /\ Advances(p)
  <2>1. stage[p] = "connecting" /\ <<>> \in Slices /\ Len(<<>>) = 0
    BY <1>0, <1>4 DEF ConnectFails, Slices
  <2>2. /\ serviceFaults' \in 0..MaxServiceFaults /\ serviceFaults <= serviceFaults'
        /\ serviceFaults' \in Nat
    BY <1>0, <1>4 DEF ConnectFails, ServiceFault
  <2>3. ServiceTyped' /\ EndsTold' /\ BookFollowsVenue'
    BY <1>0, <1>4, <2>1, <2>2 DEF ConnectFails, ServiceTyped, EndsTold, BookFollowsVenue
  <2>4. recorded[p] <= granted[p] + serviceFaults
    BY <1>0, <2>1, ProspectAhead DEF UnderWay
  <2>5. Plan(p)'
    <3>1. agenda'[p] = <<>> /\ stage'[p] = "done" /\ granted'[p] = granted[p] /\ recorded'[p] = recorded[p]
      BY <1>0, <1>4 DEF ConnectFails, ServiceTyped
    <3>2. Prospect(agenda'[p], granted[p])
      BY <1>0, <3>1, NothingProspective
    <3> QED
      BY <1>0, <2>2, <2>4, <3>1, <3>2 DEF Plan, UnderWay
  <2>6. ASSUME NEW r \in Clients, r # p PROVE Plan(r)'
    BY <1>0, <1>4, <2>2, <2>6, PlanKept DEF ConnectFails, ServiceTyped
  <2>7. Advances(p)
    BY <1>0, <1>4, <2>2, <2>4 DEF ConnectFails, Advances, ServiceTyped
  <2> QED
    BY <2>3, <2>5, <2>6, <2>7 DEF Planned, ServiceInvariant
<1>5. ASSUME NEW p \in Clients, stage[p] = "routing", NEW filled \in recorded[p]..Lots,
             filled + serviceFaults <= recorded[p] + Head(agenda[p]) + serviceFaults',
             HeadOfLoop(p, filled, Tail(agenda[p])), recorded' = [recorded EXCEPT ![p] = filled],
             venueTraded' \in [Clients -> Nat], working' \in [Clients -> Nat],
             UNCHANGED <<flagged, panicked, expired, crashed>>, online' \in BOOLEAN,
             serviceFaults' \in 0..MaxServiceFaults, serviceFaults <= serviceFaults'
      PROVE  ServiceTyped' /\ Planned' /\ EndsTold' /\ Advances(p)
  <2>1. /\ Head(agenda[p]) \in 1..Lots
        /\ Tail(agenda[p]) \in Slices /\ Len(Tail(agenda[p])) <= MaxSlices
        /\ Prospect(Tail(agenda[p]), granted[p])
        /\ recorded[p] + Head(agenda[p]) <= granted[p] + serviceFaults
    BY <1>0, <1>5, ProspectAhead DEF UnderWay
  <2>2. filled \in 0..Lots /\ recorded[p] <= filled /\ filled <= granted[p] + serviceFaults'
    <3>1. /\ granted[p] \in Nat /\ recorded[p] \in Nat /\ Lots \in Nat /\ Head(agenda[p]) \in Nat
          /\ serviceFaults \in Nat /\ serviceFaults' \in Nat /\ filled \in Nat
          /\ filled + serviceFaults <= recorded[p] + Head(agenda[p]) + serviceFaults'
          /\ filled \in recorded[p]..Lots
      BY <1>0, <1>5, <2>1, SMTT(30)
    <3>2. recorded[p] + Head(agenda[p]) <= granted[p] + serviceFaults
      BY <2>1
    <3>3. \A a, b, h, f, g, d \in Nat :
            a + f <= b + h + d /\ b + h <= g + f => a <= g + d
      OBVIOUS
    <3>4. filled <= granted[p] + serviceFaults'
      BY <3>1, <3>2, <3>3
    <3> QED
      BY <3>1, <3>4
  <2>3. stage[p] \notin {"none", "done"}
    BY <1>5
  <2> QED
    BY <1>0, <1>5, <2>1, <2>2, <2>3, TaskGoesOn
<1>6. ASSUME NEW p \in Clients, stage[p] = "routing"
      PROVE  /\ Head(agenda[p]) \in 1..Lots /\ recorded[p] \in recorded[p]..Lots
             /\ recorded' = recorded => recorded' = [recorded EXCEPT ![p] = recorded[p]]
  BY <1>0, <1>6, ProspectAhead DEF UnderWay, ServiceTyped
<1>7. ASSUME NEW p \in Clients, stage[p] = "routing", NEW fills \in Answers(Head(agenda[p])),
             NEW cutAt \in 1..Max({1, Len(fills)}), SliceAnswered(p, fills, cutAt)
      PROVE  ServiceInvariant' /\ Advances(p)
  <2> DEFINE seen == Min({SliceAccepted(p, fills), cutAt})
             filled == recorded[p] + LotsReported(fills, seen)
             executed == LotsReported(fills, Len(fills))
  <2>1. Head(agenda[p]) \in Nat /\ cutAt \in Nat \ {0}
    BY <1>6, <1>7
  <2>2. /\ seen \in 0..Len(fills) /\ filled \in recorded[p]..Lots
        /\ LotsReported(fills, seen) \in 0..executed /\ executed \in 0..(Head(agenda[p]) + 1)
    BY <1>0, <1>7, <2>1, AnswerRecorded
  <2>3. /\ HeadOfLoop(p, filled, Tail(agenda[p])) /\ recorded' = [recorded EXCEPT ![p] = filled]
        /\ venueTraded' = [venueTraded EXCEPT ![p] = @ + executed]
        /\ damaged' = IF seen < Len(fills) THEN damaged \cup {p} ELSE damaged
        /\ UNCHANGED <<flagged, panicked, expired, crashed>>
        /\ online' = online /\ working' = working
    BY <1>7 DEF SliceAnswered
  <2>4. /\ serviceFaults' \in 0..MaxServiceFaults /\ serviceFaults <= serviceFaults'
        /\ executed > Head(agenda[p]) => serviceFaults' = serviceFaults + 1
    BY <1>0, <1>7 DEF SliceAnswered, ServiceFault
  <2> HIDE DEF filled, executed, seen
  <2>5. /\ venueTraded' \in [Clients -> Nat] /\ working' \in [Clients -> Nat]
        /\ online' \in BOOLEAN
    <3>1. venueTraded[p] + executed \in Nat
      BY <1>0, <2>2 DEF ServiceTyped
    <3> QED
      BY <1>0, <2>3, <3>1 DEF ServiceTyped
  <2>6. filled + serviceFaults <= recorded[p] + Head(agenda[p]) + serviceFaults'
    <3>1. /\ filled = recorded[p] + LotsReported(fills, seen)
          /\ recorded[p] \in Nat /\ serviceFaults \in Nat /\ serviceFaults' \in Nat
          /\ executed \in Nat /\ LotsReported(fills, seen) \in Nat
      <4>1. filled = recorded[p] + LotsReported(fills, seen)
        BY DEF filled
      <4> QED
        BY <1>0, <2>2, <2>4, <4>1
    <3>2. /\ LotsReported(fills, seen) <= executed /\ executed <= Head(agenda[p]) + 1
          /\ serviceFaults <= serviceFaults'
          /\ executed > Head(agenda[p]) => serviceFaults' = serviceFaults + 1
      BY <2>1, <2>2, <2>4
    <3>3. CASE executed > Head(agenda[p])
      BY <2>1, <3>1, <3>2, <3>3, SMTT(30)
    <3>4. CASE executed <= Head(agenda[p])
      <4>1. LotsReported(fills, seen) <= Head(agenda[p]) /\ Head(agenda[p]) \in Nat
        BY <2>1, <3>1, <3>2, <3>4
      <4>2. filled <= recorded[p] + Head(agenda[p])
        BY <3>1, <4>1
      <4>3. filled \in Nat
        BY <3>1
      <4>4. recorded[p] + Head(agenda[p]) \in Nat
        BY <3>1, <4>1
      <4>5. \A a, b, c, d \in Nat : a <= b /\ c <= d => a + c <= b + d
        OBVIOUS
      <4> QED
        BY <3>1, <3>2, <4>2, <4>3, <4>4, <4>5
    <3> QED
      BY <2>1, <3>1, <3>3, <3>4, SMTT(30)
  <2>7. ServiceTyped' /\ Planned' /\ EndsTold' /\ Advances(p)
    BY <1>5, <1>7, <2>2, <2>3, <2>4, <2>5, <2>6
  <2>8. BookFollowsVenue'
    <3>1. seen = Len(fills) \/ p \in damaged'
      BY <2>2, <2>3
    <3>2. seen = Len(fills) => filled = recorded[p] + executed
      BY DEF filled, executed
    <3>3. filled <= recorded[p] + executed /\ filled \in Nat /\ executed \in Nat
      BY <1>0, <2>2 DEF filled
    <3>4. /\ recorded'[p] = filled /\ venueTraded'[p] = venueTraded[p] + executed
          /\ \A r \in Clients \ {p} :
               recorded'[r] = recorded[r] /\ venueTraded'[r] = venueTraded[r]
          /\ damaged \subseteq damaged'
      BY <1>0, <2>3 DEF ServiceTyped
    <3>5. /\ recorded[p] \in Nat /\ venueTraded[p] \in Nat /\ recorded[p] <= venueTraded[p]
          /\ p \notin damaged => recorded[p] = venueTraded[p]
      BY <1>0 DEF BookFollowsVenue, ServiceTyped
    <3>6. /\ recorded'[p] <= venueTraded'[p]
          /\ p \notin damaged' => recorded'[p] = venueTraded'[p]
      BY <3>1, <3>2, <3>3, <3>4, <3>5
    <3> QED
      BY <1>0, <3>4, <3>6 DEF BookFollowsVenue
  <2> QED
    BY <2>7, <2>8 DEF ServiceInvariant
<1>8. ASSUME NEW p \in Clients, SliceRests(p) PROVE ServiceInvariant' /\ Advances(p)
  <2>1. stage[p] = "routing" /\ HeadOfLoop(p, recorded[p], Tail(agenda[p])) /\ recorded' = recorded
    BY <1>8 DEF SliceRests
  <2>2. Head(agenda[p]) \in 1..Lots /\ recorded[p] \in recorded[p]..Lots
    BY <1>6, <2>1
  <2>3. /\ venueTraded' \in [Clients -> Nat] /\ working' \in [Clients -> Nat]
        /\ UNCHANGED <<flagged, panicked, expired, crashed>> /\ online' \in BOOLEAN
        /\ serviceFaults' \in 0..MaxServiceFaults /\ serviceFaults <= serviceFaults'
        /\ recorded[p] + serviceFaults <= recorded[p] + Head(agenda[p]) + serviceFaults'
    <3>1. /\ UNCHANGED <<flagged, panicked, expired, crashed, online, venueTraded, serviceFaults>>
          /\ working' = [working EXCEPT ![p] = @ + Head(agenda[p])]
      BY <1>8 DEF SliceRests
    <3>2. /\ recorded[p] \in Nat /\ serviceFaults \in Nat /\ Head(agenda[p]) \in Nat
          /\ working[p] \in Nat
      BY <1>0, <2>2 DEF ServiceTyped
    <3>3. working' \in [Clients -> Nat]
      BY <1>0, <3>1, <3>2 DEF ServiceTyped
    <3>4. recorded[p] + serviceFaults <= recorded[p] + Head(agenda[p]) + serviceFaults'
      BY <3>1, <3>2
    <3> QED
      BY <1>0, <3>1, <3>3, <3>4 DEF ServiceTyped
  <2>4. ServiceTyped' /\ Planned' /\ EndsTold' /\ Advances(p)
    BY <1>5, <1>6, <2>1, <2>2, <2>3
  <2>5. BookFollowsVenue'
    BY <1>0, <1>8 DEF SliceRests, BookFollowsVenue
  <2> QED
    BY <2>4, <2>5 DEF ServiceInvariant
<1>9. ASSUME NEW p \in Clients, NEW done \in 0..Head(agenda[p]), RoutingFails(p, done)
      PROVE  ServiceInvariant' /\ Advances(p)
  <2>1. stage[p] = "routing" /\ HeadOfLoop(p, recorded[p], Tail(agenda[p])) /\ recorded' = recorded
    BY <1>9 DEF RoutingFails
  <2>2. Head(agenda[p]) \in 1..Lots /\ recorded[p] \in recorded[p]..Lots /\ done \in Nat
    BY <1>6, <1>9, <2>1
  <2>3. /\ venueTraded' \in [Clients -> Nat] /\ working' \in [Clients -> Nat]
        /\ UNCHANGED <<flagged, panicked, expired, crashed>> /\ online' \in BOOLEAN
        /\ serviceFaults' \in 0..MaxServiceFaults /\ serviceFaults <= serviceFaults'
        /\ recorded[p] + serviceFaults <= recorded[p] + Head(agenda[p]) + serviceFaults'
    <3>1. serviceFaults' \in 0..MaxServiceFaults /\ serviceFaults' = serviceFaults + 1
      BY <1>0, <1>9 DEF RoutingFails, ServiceFault
    <3>2. recorded[p] \in Nat /\ serviceFaults \in Nat /\ Head(agenda[p]) \in Nat
      BY <1>0, <2>2
    <3>3. recorded[p] + serviceFaults <= recorded[p] + Head(agenda[p]) + serviceFaults'
      BY <3>1, <3>2
    <3>4. venueTraded' \in [Clients -> Nat] /\ working' \in [Clients -> Nat]
      BY <1>0, <1>9, <2>2 DEF RoutingFails, ServiceTyped
    <3>5. UNCHANGED <<flagged, panicked, expired, crashed>> /\ online' \in BOOLEAN
      BY <1>0, <1>9 DEF RoutingFails, ServiceTyped
    <3> QED
      BY <3>1, <3>2, <3>3, <3>4, <3>5
  <2>4. ServiceTyped' /\ Planned' /\ EndsTold' /\ Advances(p)
    BY <1>5, <1>6, <2>1, <2>2, <2>3
  <2>5. BookFollowsVenue'
    <3>1. /\ recorded' = recorded /\ venueTraded' = [venueTraded EXCEPT ![p] = @ + done]
          /\ damaged' = IF done > 0 THEN damaged \cup {p} ELSE damaged
      BY <1>9 DEF RoutingFails
    <3>2. \A r \in Clients : recorded[r] \in Nat /\ venueTraded[r] \in Nat
      BY <1>0 DEF ServiceTyped
    <3> QED
      BY <1>0, <2>2, <3>1, <3>2, SMTT(30) DEF BookFollowsVenue, ServiceTyped
  <2> QED
    BY <2>4, <2>5 DEF ServiceInvariant
<1>10. ASSUME NEW p \in Clients, WorkingFills(p) PROVE ServiceInvariant'
  <2>1. ServiceTyped' /\ EndsTold'
    <3>1. /\ UNCHANGED <<stage, agenda, recorded, flagged, panicked, online, expired, granted,
                        announced, crashed, serviceFaults>>
          /\ venueTraded' = [venueTraded EXCEPT ![p] = @ + working[p]]
          /\ working' = [working EXCEPT ![p] = 0]
      BY <1>10 DEF WorkingFills
    <3>2. venueTraded' \in [Clients -> Nat] /\ working' \in [Clients -> Nat]
      BY <1>0, <3>1 DEF ServiceTyped
    <3> QED
      BY <1>0, <3>1, <3>2 DEF ServiceTyped, EndsTold
  <2>2. BookFollowsVenue'
    BY <1>0, <1>10, SMTT(30) DEF WorkingFills, BookFollowsVenue, ServiceTyped
  <2>3. ASSUME NEW r \in Clients PROVE Plan(r)'
    BY <1>0, <1>10, PlanKept DEF WorkingFills
  <2> QED
    BY <2>1, <2>2, <2>3 DEF ServiceInvariant, Planned
<1>11. ASSUME NEW p \in Clients, CancelOrder(p) \/ Expire(p) PROVE ServiceInvariant'
  <2>1. ServiceTyped' /\ EndsTold' /\ BookFollowsVenue'
    BY <1>0, <1>11 DEF CancelOrder, Expire, ServiceTyped, EndsTold, BookFollowsVenue
  <2>2. ASSUME NEW r \in Clients PROVE Plan(r)'
    BY <1>0, <1>11, PlanKept DEF CancelOrder, Expire
  <2> QED
    BY <2>1, <2>2 DEF ServiceInvariant, Planned
<1>12. ASSUME LoseGateway \/ \E k \in BOOLEAN : SetPanicked(k) PROVE ServiceInvariant'
  <2>0. /\ UNCHANGED <<stage, agenda, recorded, flagged, expired, working,
                      granted, venueTraded, announced, crashed, damaged>>
        /\ panicked' \in BOOLEAN /\ online' \in BOOLEAN
        /\ serviceFaults' = serviceFaults + 1 /\ serviceFaults' \in 0..MaxServiceFaults
    <3>1. ServiceFault => serviceFaults' = serviceFaults + 1 /\ serviceFaults' \in 0..MaxServiceFaults
      BY <1>0 DEF ServiceFault
    <3>2. CASE LoseGateway
      BY <1>0, <3>1, <3>2 DEF LoseGateway, ServiceTyped
    <3>3. ASSUME NEW k \in BOOLEAN, SetPanicked(k)
          PROVE  /\ panicked' = k /\ ServiceFault
                 /\ UNCHANGED <<stage, agenda, recorded, flagged, online, expired, working,
                                granted, venueTraded, announced, crashed, damaged>>
      BY <3>3 DEF SetPanicked
    <3>4. CASE \E k \in BOOLEAN : SetPanicked(k)
      BY <1>0, <3>1, <3>3, <3>4 DEF ServiceTyped
    <3> QED
      BY <1>12, <3>2, <3>4
  <2>1. ServiceTyped' /\ EndsTold' /\ BookFollowsVenue'
    BY <1>0, <2>0 DEF ServiceTyped, EndsTold, BookFollowsVenue
  <2>2. ASSUME NEW r \in Clients PROVE Plan(r)'
    BY <1>0, <2>0, PlanKept
  <2> QED
    BY <2>1, <2>2 DEF ServiceInvariant, Planned
<1>13. CASE UNCHANGED serviceVars
  <2>1. ServiceTyped' /\ EndsTold' /\ BookFollowsVenue'
    BY <1>0, <1>13 DEF serviceVars, ServiceTyped, EndsTold, BookFollowsVenue
  <2>2. ASSUME NEW r \in Clients PROVE Plan(r)'
    BY <1>0, <1>13, PlanKept DEF serviceVars
  <2> QED
    BY <1>13, <2>1, <2>2 DEF ServiceInvariant, Planned, Seen, serviceVars
<1>14. CASE ServiceNext
  <2>1. Seen
    BY <1>2, <1>3, <1>4, <1>7, <1>8, <1>9, <1>14
       DEF ServiceNext, Seen, WorkingFills, Expire, SetPanicked, LoseGateway
  <2>2. ServiceInvariant'
    BY <1>1, <1>2, <1>3, <1>4, <1>7, <1>8, <1>9, <1>10, <1>11, <1>12, <1>14 DEF ServiceNext
  <2> QED
    BY <2>1, <2>2
<1> QED
  BY <1>13, <1>14 DEF Seen, serviceVars

-----------------------------------------------------------------------------
THEOREM ServiceInvariantHolds == ServiceSpec => []ServiceInvariant
  BY ServiceInvariantInit, ServiceInvariantStep, PTL DEF ServiceSpec

(* No slice leaves under a kill: the loop looks at the switch on its way to*)
(* the venue, and again after connect.                                     *)
LEMMA KillHoldsSlices ==
  ASSUME ServiceInvariant, [ServiceNext]_serviceVars,
         NEW p \in Clients, stage[p] # "routing", stage'[p] = "routing"
  PROVE  ~panicked
<1> USE DEF serviceHistory
<1>0. ServiceTyped
  BY DEF ServiceInvariant
<1>1. ASSUME NEW q \in Clients, NEW filled, NEW list,
             HeadOfLoop(q, filled, list) \/ Launch(q, filled, list)
      PROVE  ~panicked
  BY <1>0, <1>1 DEF HeadOfLoop, Launch, EndTask, Halted, ServiceTyped
<1>2. ASSUME NEW q \in Clients, NEW s, s # "routing", stage' = [stage EXCEPT ![q] = s]
      PROVE  FALSE
  BY <1>0, <1>2 DEF ServiceTyped
<1>3. ASSUME NEW q \in Clients, Connects(q) PROVE ~panicked
  BY <1>1, <1>3 DEF Connects
<1>4. ASSUME NEW q \in Clients, ConnectFails(q) \/ \E list \in SliceLists, sync \in BOOLEAN : Submit(q, list, sync)
      PROVE FALSE
  <2>1. stage' = [stage EXCEPT ![q] = "done"] \/ stage' = [stage EXCEPT ![q] = "queued"]
    BY <1>4 DEF ConnectFails, Submit
  <2> QED
    BY <1>2, <2>1
<1>5. ASSUME NEW q \in Clients, TaskStarts(q) \/ Wakes(q) \/ SliceRests(q) PROVE ~panicked
  BY <1>1, <1>5 DEF TaskStarts, Wakes, SliceRests
<1>6. ASSUME NEW q \in Clients, NEW fills, NEW cutAt, SliceAnswered(q, fills, cutAt) PROVE ~panicked
  BY <1>1, <1>6 DEF SliceAnswered
<1>7. ASSUME NEW q \in Clients, NEW done, RoutingFails(q, done) PROVE ~panicked
  BY <1>1, <1>7 DEF RoutingFails
<1>8. stage' # stage
  OBVIOUS
<1> QED
  BY <1>3, <1>4, <1>5, <1>6, <1>7, <1>8
     DEF ServiceNext, WorkingFills, CancelOrder, Expire, SetPanicked, LoseGateway, serviceVars

(* A parent's book follows its venue but for the executions it could not   *)
(* see, its task tells how it ended, and no slice leaves under a kill.     *)
THEOREM ServiceKeepsBooksHolds == ServiceSpec => ServiceKeepsBooks
<1>1. ServiceInvariant => ServiceTypeOK /\ BookFollowsVenue /\ EndIsAnnounced
  BY DEF ServiceInvariant, ServiceTyped, ServiceTypeOK, Slices, EndsTold, EndIsAnnounced
<1>2. ServiceInvariant /\ [ServiceNext]_serviceVars =>
        [\A p \in Clients : stage[p] # "routing" /\ stage'[p] = "routing" => ~panicked]_serviceVars
  BY KillHoldsSlices
<1> QED
  BY <1>1, <1>2, ServiceInvariantHolds, PTL DEF ServiceSpec, ServiceKeepsBooks, NoSliceUnderKill

-----------------------------------------------------------------------------
(* A step of the task is a step of the contract.                           *)
LEMMA AdvanceMaps ==
  ASSUME ServiceTyped, ServiceTyped', NEW p \in Clients, Advances(p)
  PROVE  Contract!Advance(p)
<1>0. /\ Lots \in Nat /\ MaxServiceFaults \in Nat
      /\ recorded[p] \in Nat /\ recorded'[p] \in 0..Lots
      /\ granted[p] \in Nat /\ granted'[p] \in 0..Lots
      /\ serviceFaults' \in 0..MaxServiceFaults
      /\ granted \in [Clients -> 0..Lots] /\ granted' \in [Clients -> 0..Lots]
  BY ServiceAssumption DEF ServiceTyped
<1>1. orderMode[p] \in {"open", "halted"} /\ (orderMode[p] = "halted" => p \in flagged)
  BY DEF orderMode, Advances
<1>2. \E b \in recorded[p]..Lots :
        b <= granted[p] + MaxServiceFaults /\ recorded' = [recorded EXCEPT ![p] = b]
  <2>1. recorded'[p] \in recorded[p]..Lots /\ recorded'[p] <= granted[p] + MaxServiceFaults
    BY <1>0 DEF Advances
  <2> QED
    BY <2>1 DEF Advances
<1>3. granted' = [granted EXCEPT ![p] = granted'[p]] /\ granted'[p] \in granted[p]..Lots
  BY <1>0 DEF Advances
<1>4. p \in flagged => granted' = granted
  BY <1>0, <1>3 DEF Advances
<1>5. orderMode' = orderMode \/ orderMode' = [orderMode EXCEPT ![p] = "ended"]
  <2>1. \A r \in Clients \ {p} : orderMode'[r] = orderMode[r]
    BY DEF orderMode, Advances
  <2>2. CASE stage'[p] = "done"
    <3>1. orderMode'[p] = "ended"
      BY <2>2 DEF orderMode
    <3> QED
      BY <2>1, <3>1 DEF orderMode
  <2>3. CASE stage'[p] # "done"
    <3>1. orderMode'[p] = orderMode[p]
      BY <2>3 DEF orderMode, Advances
    <3> QED
      BY <2>1, <3>1 DEF orderMode
  <2> QED
    BY <2>2, <2>3
<1> QED
  BY <1>1, <1>2, <1>3, <1>4, <1>5 DEF Contract!Advance

(* The service implements the contract: lots are committed only to an order*)
(* that is open, and what is booked never runs ahead of them but by what   *)
(* faulty venues executed too much.                                        *)
THEOREM ServiceImplementsContract == ServiceSpec => ImplementsContract
<1>1. ServiceInit => Contract!CInit
  BY DEF ServiceInit, Contract!CInit, orderMode
<1>2. ASSUME ServiceInvariant, ServiceInvariant', Seen
      PROVE  [Contract!CNext]_(Contract!contractVars)
  <2>1. CASE UNCHANGED <<stage, granted, recorded, flagged>>
    BY <2>1 DEF Contract!contractVars, orderMode
  <2>2. ASSUME NEW p \in Clients, Advances(p) PROVE Contract!CNext
    BY <1>2, <2>2, AdvanceMaps DEF Contract!CNext, ServiceInvariant
  <2>3. ASSUME NEW p \in Clients, NEW list, NEW sync, Submit(p, list, sync) PROVE Contract!CNext
    <3>1. /\ stage[p] = "none" /\ p \notin flagged /\ stage' = [stage EXCEPT ![p] = "queued"]
          /\ UNCHANGED <<granted, recorded, flagged>>
          /\ stage \in [Clients -> {"none", "queued", "sleeping", "connecting", "routing", "done"}]
      BY <1>2, <2>3 DEF Submit, ServiceInvariant, ServiceTyped, serviceHistory
    <3>2. orderMode[p] = "new" /\ orderMode' = [orderMode EXCEPT ![p] = "open"]
      BY <3>1 DEF orderMode
    <3> QED
      BY <3>1, <3>2 DEF Contract!CNext, Contract!Open
  <2>4. ASSUME NEW p \in Clients, CancelOrder(p)
        PROVE  [Contract!CNext]_(Contract!contractVars)
    <3>1. /\ stage[p] # "none" /\ p \notin flagged /\ flagged' = flagged \cup {p}
          /\ UNCHANGED <<stage, granted, recorded>>
      BY <2>4 DEF CancelOrder, serviceHistory
    <3>2. CASE stage[p] = "done"
      <4>1. orderMode' = orderMode
        BY <3>1, <3>2 DEF orderMode
      <4> QED
        BY <3>1, <4>1 DEF Contract!contractVars
    <3>3. CASE stage[p] # "done"
      <4>1. orderMode[p] = "open" /\ orderMode' = [orderMode EXCEPT ![p] = "halted"]
        BY <3>1, <3>3 DEF orderMode
      <4> QED
        BY <3>1, <4>1 DEF Contract!CNext, Contract!Withdraw
    <3> QED
      BY <3>2, <3>3
  <2> QED
    BY <1>2, <2>1, <2>2, <2>3, <2>4 DEF Seen
<1> QED
  BY <1>1, <1>2, ServiceInvariantHolds, ServiceInvariantStep, PTL
     DEF ServiceSpec, ImplementsContract, Contract!CSpec
-----------------------------------------------------------------------------
(* What one client of the websockets is told (EventStream).                *)
Messages == {PONG} \cup [item : 1..MaxItems, kind : {"update", "fill"}, version : Nat]

(* Message k of w tells of change c of item i: a state includes it; a fill *)
(* is it, and the client knows the order by the time it is delivered.      *)
Introduces(m, i) == m.item = i /\ m.kind = "update" /\ m.version >= 1
IsState(m, i, c) == m.item = i /\ m.kind = "update" /\ c <= m.version
IsFill(m, i, c) == m.item = i /\ m.kind = "fill" /\ c = m.version
Introduced(w, i, known, k) ==
  1 \in known \/ \E j \in DOMAIN w : j < k /\ Introduces(w[j], i)
Tells(w, i, known, k, c) ==
  IsState(w[k], i, c) \/ (IsFill(w[k], i, c) /\ Introduced(w, i, known, k))

(* The client knows of change c, or will once w has arrived.               *)
Told(w, i, known, c) == c \in known \/ \E k \in DOMAIN w : Tells(w, i, known, k, c)

(* The messages w on their way to a client that knows of the changes known *)
(* of item i: no state takes back what was told before it, and of the      *)
(* changes up to v just the lost ones will not be told.                    *)
NoneTaken(w, i, known, k) ==
  w[k].item = i /\ w[k].kind = "update" =>
    /\ known \subseteq 1..w[k].version
    /\ \A j \in DOMAIN w : j < k /\ w[j].item = i => w[j].version <= w[k].version

Sound(w, i, v, known, lost) ==
  /\ known \subseteq 1..v /\ lost \subseteq 1..v
  /\ \A k \in DOMAIN w : w[k].item = i =>
       w[k].version <= v /\ (w[k].kind = "fill" => w[k].version >= 2)
  /\ \A k \in DOMAIN w : NoneTaken(w, i, known, k)
  /\ \A c \in 1..v : c \in lost <=> ~Told(w, i, known, c)

(* One change more.                                                        *)
LEMMA Longer ==
  ASSUME NEW v \in Nat, NEW S, S \subseteq 1..v
  PROVE  S \subseteq 1..(v + 1)
<1> SUFFICES ASSUME NEW c \in S PROVE c \in 1..(v + 1)
  OBVIOUS
<1>1. c \in 1..v
  OBVIOUS
<1> QED BY <1>1

(* What Append does.                                                       *)
LEMMA AppendFacts ==
  ASSUME NEW S, NEW q \in Seq(S), NEW m \in S
  PROVE  /\ Append(q, m) \in Seq(S) /\ Len(q) \in Nat
         /\ DOMAIN q = 1..Len(q) /\ DOMAIN Append(q, m) = 1..(Len(q) + 1)
         /\ \A k \in DOMAIN q : Append(q, m)[k] = q[k] /\ q[k] \in S
         /\ Append(q, m)[Len(q) + 1] = m
OBVIOUS

(* What Head and Tail do.                                                  *)
LEMMA TailFacts ==
  ASSUME NEW S, NEW q \in Seq(S), q # <<>>
  PROVE  /\ Head(q) = q[1] /\ q[1] \in S /\ 1 \in DOMAIN q
         /\ Tail(q) \in Seq(S) /\ Len(q) \in Nat
         /\ DOMAIN q = 1..Len(q) /\ DOMAIN Tail(q) = 1..(Len(q) - 1)
         /\ \A k \in DOMAIN Tail(q) : Tail(q)[k] = q[k + 1] /\ k + 1 \in DOMAIN q
OBVIOUS

(* A message joins those on their way: what they tell stays the same, and  *)
(* the last one may tell more.                                             *)
LEMMA Joined ==
  ASSUME NEW w \in Seq(Messages), NEW m \in Messages, NEW i \in 1..MaxItems,
         NEW known, NEW c
  PROVE  Told(Append(w, m), i, known, c) <=>
           \/ Told(w, i, known, c)
           \/ IsState(m, i, c)
           \/ IsFill(m, i, c) /\ (1 \in known \/ \E j \in DOMAIN w : Introduces(w[j], i))
<1> DEFINE u == Append(w, m)
           n == Len(w) + 1
<1>1. /\ u \in Seq(Messages) /\ Len(w) \in Nat /\ DOMAIN w = 1..Len(w) /\ DOMAIN u = 1..n
      /\ \A k \in DOMAIN w : u[k] = w[k]
      /\ u[n] = m
  BY AppendFacts
<1>2. DOMAIN u = DOMAIN w \cup {n} /\ n \notin DOMAIN w /\ \A j \in DOMAIN w : j < n
  BY <1>1
<1>3. \A k \in DOMAIN w : \A j \in DOMAIN u : j < k => j \in DOMAIN w
  BY <1>1
<1> HIDE DEF u, n
<1>4. ASSUME NEW k \in DOMAIN w
      PROVE  Introduced(u, i, known, k) <=> Introduced(w, i, known, k)
  BY <1>1, <1>2, <1>3 DEF Introduced
<1>5. ASSUME NEW k \in DOMAIN w
      PROVE  Tells(u, i, known, k, c) <=> Tells(w, i, known, k, c)
  BY <1>1, <1>4 DEF Tells
<1>6. ~(n < n)
  BY <1>1 DEF n
<1>7. Introduced(u, i, known, n) <=> (1 \in known \/ \E j \in DOMAIN w : Introduces(w[j], i))
  BY <1>1, <1>2, <1>6 DEF Introduced
<1>8. Tells(u, i, known, n, c) <=>
        \/ IsState(m, i, c)
        \/ IsFill(m, i, c) /\ (1 \in known \/ \E j \in DOMAIN w : Introduces(w[j], i))
  BY <1>1, <1>7 DEF Tells
<1>9. Told(u, i, known, c) <=> Told(w, i, known, c) \/ Tells(u, i, known, n, c)
  BY <1>2, <1>5 DEF Told
<1> QED BY <1>8, <1>9 DEF u

(* The order is known in the end just when its creation is told.           *)
LEMMA Introduction ==
  ASSUME NEW w \in Seq(Messages), NEW i \in 1..MaxItems, NEW v \in Nat, NEW known, NEW lost,
         Sound(w, i, v, known, lost)
  PROVE  Told(w, i, known, 1) <=> (1 \in known \/ \E j \in DOMAIN w : Introduces(w[j], i))
<1>1. \A k \in DOMAIN w : IsState(w[k], i, 1) <=> Introduces(w[k], i)
  BY DEF IsState, Introduces, Messages
<1>2. \A k \in DOMAIN w : w[k].item = i => w[k].version # 1 \/ w[k].kind # "fill"
  BY DEF Sound
<1>3. \A k \in DOMAIN w : ~IsFill(w[k], i, 1)
  BY <1>2 DEF IsFill
<1> QED BY <1>1, <1>3 DEF Told, Tells

(* No message tells of a change that is still to come.                     *)
LEMMA NotYetTold ==
  ASSUME NEW w \in Seq(Messages), NEW i \in 1..MaxItems, NEW v \in Nat, NEW known, NEW lost,
         Sound(w, i, v, known, lost)
  PROVE  ~Told(w, i, known, v + 1)
<1>1. v + 1 \notin known
  BY DEF Sound
<1>2. ASSUME NEW k \in DOMAIN w, w[k].item = i PROVE ~(v + 1 <= w[k].version) /\ v + 1 # w[k].version
  <2>1. w[k].version \in Nat
    <3>1. w[k] \in Messages /\ w[k] # PONG
      BY <1>2 DEF PONG
    <3> QED BY <3>1 DEF Messages
  <2>2. w[k].version <= v
    BY <1>2 DEF Sound
  <2> QED BY <2>1, <2>2
<1> QED BY <1>1, <1>2 DEF Told, Tells, IsState, IsFill

(* The change that is lost.                                                *)
LEMMA Dropped ==
  ASSUME NEW w \in Seq(Messages), NEW i \in 1..MaxItems, NEW v \in Nat, NEW known, NEW lost,
         Sound(w, i, v, known, lost)
  PROVE  Sound(w, i, v + 1, known, lost \cup {v + 1})
<1>1. ~Told(w, i, known, v + 1)
  BY NotYetTold
<1>2. \A c \in 1..(v + 1) : c \in lost \cup {v + 1} <=> ~Told(w, i, known, c)
  <2> SUFFICES ASSUME NEW c \in 1..(v + 1)
               PROVE  c \in lost \cup {v + 1} <=> ~Told(w, i, known, c)
    OBVIOUS
  <2>1. CASE c = v + 1
    BY <1>1, <2>1
  <2>2. CASE c # v + 1
    <3>1. c \in 1..v
      BY <2>2
    <3> QED BY <2>2, <3>1 DEF Sound
  <2> QED BY <2>1, <2>2
<1>3. known \subseteq 1..(v + 1) /\ lost \cup {v + 1} \subseteq 1..(v + 1)
  <2>1. known \subseteq 1..v /\ lost \subseteq 1..v
    BY DEF Sound
  <2>2. known \subseteq 1..(v + 1) /\ lost \subseteq 1..(v + 1)
    BY <2>1, Longer
  <2>3. {v + 1} \subseteq 1..(v + 1)
    OBVIOUS
  <2> QED BY <2>2, <2>3
<1>4. ASSUME NEW k \in DOMAIN w, w[k].item = i PROVE w[k].version <= v + 1
  <2>1. w[k].version \in Nat
    <3>1. w[k] \in Messages /\ w[k] # PONG
      BY <1>4 DEF PONG
    <3> QED BY <3>1 DEF Messages
  <2>2. w[k].version <= v
    BY <1>4 DEF Sound
  <2> QED BY <2>1, <2>2
<1> QED BY <1>2, <1>3, <1>4 DEF Sound

(* What holds of the messages themselves when m joins them: it is in order.*)
LEMMA InOrderStill ==
  ASSUME NEW w \in Seq(Messages), NEW m \in Messages, NEW i \in 1..MaxItems, NEW v \in Nat,
         NEW n \in Nat, v <= n, NEW known, NEW lost, Sound(w, i, v, known, lost),
         m.item = i => /\ m.version <= n /\ (m.kind = "fill" => m.version >= 2)
                       /\ m.kind = "update" => v <= m.version
  PROVE  /\ \A k \in DOMAIN Append(w, m) : Append(w, m)[k].item = i =>
              /\ Append(w, m)[k].version <= n
              /\ Append(w, m)[k].kind = "fill" => Append(w, m)[k].version >= 2
         /\ \A k \in DOMAIN Append(w, m) : NoneTaken(Append(w, m), i, known, k)
<1> DEFINE u == Append(w, m)
           z == Len(w) + 1
<1>1. /\ u \in Seq(Messages) /\ Len(w) \in Nat /\ DOMAIN w = 1..Len(w) /\ DOMAIN u = 1..z
      /\ \A k \in DOMAIN w : u[k] = w[k] /\ w[k] \in Messages
      /\ u[z] = m
  BY AppendFacts
<1>2. DOMAIN u = DOMAIN w \cup {z} /\ z \notin DOMAIN w /\ ~(z < z)
  BY <1>1
<1>3. \A k \in DOMAIN w : \A j \in DOMAIN u : j < k => j \in DOMAIN w
  BY <1>1
<1> HIDE DEF u, z
<1>4. \A k \in DOMAIN w : w[k].item = i => w[k].version \in Nat /\ w[k].version <= v
  <2> SUFFICES ASSUME NEW k \in DOMAIN w, w[k].item = i
               PROVE  w[k].version \in Nat /\ w[k].version <= v
    OBVIOUS
  <2>1. w[k] \in Messages /\ w[k] # PONG
    BY <1>1 DEF PONG
  <2> QED BY <2>1 DEF Messages, Sound
<1>5. m.item = i => m.version \in Nat
  BY DEF Messages, PONG
<1>6. ASSUME NEW k \in DOMAIN u, u[k].item = i
      PROVE  u[k].version <= n /\ (u[k].kind = "fill" => u[k].version >= 2)
  <2>1. CASE k \in DOMAIN w
    BY <1>1, <1>4, <1>6, <2>1 DEF Sound
  <2>2. CASE k = z
    BY <1>1, <1>6, <2>2
  <2> QED BY <1>2, <2>1, <2>2
<1>7. ASSUME NEW k \in DOMAIN u PROVE NoneTaken(u, i, known, k)
  <2>1. CASE k \in DOMAIN w
    <3>1. NoneTaken(w, i, known, k)
      BY <2>1 DEF Sound
    <3> QED BY <1>1, <1>3, <2>1, <3>1 DEF NoneTaken
  <2>2. CASE k = z
    <3> SUFFICES ASSUME m.item = i, m.kind = "update"
                 PROVE  /\ known \subseteq 1..m.version
                        /\ \A j \in DOMAIN u : j < k /\ u[j].item = i => u[j].version <= m.version
      BY <1>1, <2>2 DEF NoneTaken
    <3>1. known \subseteq 1..m.version
      BY <1>5 DEF Sound
    <3>2. ASSUME NEW j \in DOMAIN u, j < k, u[j].item = i PROVE u[j].version <= m.version
      <4>1. j \in DOMAIN w
        BY <1>2, <2>2, <3>2
      <4>2. u[j].version \in Nat /\ u[j].version <= v
        BY <1>1, <1>4, <3>2, <4>1
      <4> QED BY <1>5, <4>2
    <3> QED BY <3>1, <3>2
  <2> QED BY <1>2, <2>1, <2>2
<1> QED BY <1>6, <1>7 DEF u

(* A message about another item.                                           *)
LEMMA JoinsOther ==
  ASSUME NEW w \in Seq(Messages), NEW m \in Messages, NEW i \in 1..MaxItems, NEW v \in Nat,
         NEW known, NEW lost, Sound(w, i, v, known, lost), m.item # i
  PROVE  Sound(Append(w, m), i, v, known, lost)
<1>1. \A c \in 1..v : Told(Append(w, m), i, known, c) <=> Told(w, i, known, c)
  BY Joined DEF IsState, IsFill
<1>2. /\ \A k \in DOMAIN Append(w, m) : Append(w, m)[k].item = i =>
           /\ Append(w, m)[k].version <= v
           /\ Append(w, m)[k].kind = "fill" => Append(w, m)[k].version >= 2
      /\ \A k \in DOMAIN Append(w, m) : NoneTaken(Append(w, m), i, known, k)
  BY InOrderStill
<1> QED BY <1>1, <1>2 DEF Sound

(* A message with the whole state of item i.                               *)
LEMMA JoinsState ==
  ASSUME NEW w \in Seq(Messages), NEW i \in 1..MaxItems, NEW v \in Nat,
         NEW n \in {v, v + 1}, NEW known, NEW lost, Sound(w, i, v, known, lost)
  PROVE  Sound(Append(w, Update(i, n)), i, n, known, {})
<1> DEFINE m == Update(i, n)
<1>1. m \in Messages /\ m.item = i /\ m.kind = "update" /\ m.version = n /\ n \in Nat /\ v <= n
  BY DEF Messages, Update
<1> HIDE DEF m
<1>2. \A c \in 1..n : Told(Append(w, m), i, known, c)
  BY <1>1, Joined DEF IsState
<1>3. /\ \A k \in DOMAIN Append(w, m) : Append(w, m)[k].item = i =>
           /\ Append(w, m)[k].version <= n
           /\ Append(w, m)[k].kind = "fill" => Append(w, m)[k].version >= 2
      /\ \A k \in DOMAIN Append(w, m) : NoneTaken(Append(w, m), i, known, k)
  <2>1. m.version <= n /\ m.kind # "fill" /\ v <= m.version
    BY <1>1
  <2> QED BY <1>1, <2>1, InOrderStill
<1>4. known \subseteq 1..n
  BY <1>1 DEF Sound
<1> QED BY <1>2, <1>3, <1>4 DEF Sound, m

(* A message with a fill of item i: of use to a client that will know it.  *)
LEMMA JoinsFill ==
  ASSUME NEW w \in Seq(Messages), NEW i \in 1..MaxItems, NEW v \in Nat \ {0},
         NEW known, NEW lost, Sound(w, i, v, known, lost)
  PROVE  Sound(Append(w, ChildFill(i, v + 1)), i, v + 1, known,
               IF 1 \in lost THEN lost \cup {v + 1} ELSE lost)
<1> DEFINE m == ChildFill(i, v + 1)
           lost1 == IF 1 \in lost THEN lost \cup {v + 1} ELSE lost
<1>1. m \in Messages /\ m.item = i /\ m.kind = "fill" /\ m.version = v + 1
  BY DEF Messages, ChildFill
<1> HIDE DEF m
<1>2. 1 \in lost <=> ~(1 \in known \/ \E j \in DOMAIN w : Introduces(w[j], i))
  <2>1. 1 \in lost <=> ~Told(w, i, known, 1)
    BY DEF Sound
  <2> QED BY <2>1, Introduction
<1>3. ASSUME NEW c \in 1..(v + 1) PROVE c \in lost1 <=> ~Told(Append(w, m), i, known, c)
  <2>1. CASE c = v + 1
    <3>1. ~Told(w, i, known, c) /\ c \notin lost
      <4>1. ~Told(w, i, known, v + 1)
        BY NotYetTold
      <4>2. v + 1 \notin lost
        BY DEF Sound
      <4> QED BY <2>1, <4>1, <4>2
    <3>2. Told(Append(w, m), i, known, c) <=>
            (1 \in known \/ \E j \in DOMAIN w : Introduces(w[j], i))
      BY <1>1, <2>1, <3>1, Joined DEF IsState, IsFill
    <3> QED BY <1>2, <2>1, <3>1, <3>2
  <2>2. CASE c # v + 1
    <3>1. c \in 1..v
      BY <2>2
    <3>2. c \in lost <=> ~Told(w, i, known, c)
      BY <3>1 DEF Sound
    <3>3. Told(Append(w, m), i, known, c) <=> Told(w, i, known, c)
      BY <1>1, <2>2, Joined DEF IsState, IsFill
    <3> QED BY <2>2, <3>2, <3>3
  <2> QED BY <2>1, <2>2
<1>4. /\ \A k \in DOMAIN Append(w, m) : Append(w, m)[k].item = i =>
           /\ Append(w, m)[k].version <= v + 1
           /\ Append(w, m)[k].kind = "fill" => Append(w, m)[k].version >= 2
      /\ \A k \in DOMAIN Append(w, m) : NoneTaken(Append(w, m), i, known, k)
  <2>1. m.version <= v + 1 /\ m.version >= 2 /\ m.kind # "update" /\ v + 1 \in Nat /\ v <= v + 1
    BY <1>1
  <2> QED BY <1>1, <2>1, InOrderStill
<1>5. known \subseteq 1..(v + 1) /\ lost1 \subseteq 1..(v + 1)
  <2>1. known \subseteq 1..v /\ lost \subseteq 1..v
    BY DEF Sound
  <2>2. known \subseteq 1..(v + 1) /\ lost \subseteq 1..(v + 1)
    BY <2>1, Longer
  <2>3. {v + 1} \subseteq 1..(v + 1)
    OBVIOUS
  <2> QED BY <2>2, <2>3
<1> HIDE DEF lost1
<1>6. Sound(Append(w, m), i, v + 1, known, lost1)
  BY <1>3, <1>4, <1>5 DEF Sound
<1> QED BY <1>6 DEF m, lost1

(* The oldest message arrives.                                             *)
Arrived(known, i, m) == IF m.item = i THEN Learned(known, m) ELSE known

LEMMA Arrives ==
  ASSUME NEW w \in Seq(Messages), w # <<>>, NEW i \in 1..MaxItems, NEW v \in Nat,
         NEW known, NEW lost, Sound(w, i, v, known, lost)
  PROVE  /\ known \subseteq Arrived(known, i, Head(w))
         /\ Sound(Tail(w), i, v, Arrived(known, i, Head(w)), lost)
<1> DEFINE m == Head(w)
           t == Tail(w)
           after == Arrived(known, i, m)
<1>1. /\ m = w[1] /\ m \in Messages /\ 1 \in DOMAIN w
      /\ Len(w) \in Nat /\ DOMAIN w = 1..Len(w) /\ DOMAIN t = 1..(Len(w) - 1)
      /\ \A k \in DOMAIN t : t[k] = w[k + 1] /\ k + 1 \in DOMAIN w
  BY TailFacts
<1>2. \A k \in DOMAIN w : k = 1 \/ \E h \in DOMAIN t : k = h + 1
  <2> SUFFICES ASSUME NEW k \in DOMAIN w, k # 1 PROVE \E h \in DOMAIN t : k = h + 1
    OBVIOUS
  <2>1. k - 1 \in DOMAIN t /\ k = (k - 1) + 1
    BY <1>1
  <2> QED BY <2>1
<1>3. \A j, k \in DOMAIN t : (j < k <=> j + 1 < k + 1) /\ 1 < k + 1
  BY <1>1
<1>13. \A k \in DOMAIN t : ~(k + 1 < 1)
  BY <1>1
<1> HIDE DEF t, m
<1>4. m.item = i => m.version \in Nat /\ m.version <= v /\ m.kind \in {"update", "fill"}
  <2> SUFFICES ASSUME m.item = i PROVE m.version \in Nat /\ m.version <= v /\ m.kind \in {"update", "fill"}
    OBVIOUS
  <2>1. m # PONG
    BY DEF PONG
  <2> QED BY <1>1, <2>1 DEF Messages, Sound
<1>5. known \subseteq after /\ after \subseteq 1..v
  <2>1. CASE m.item # i
    BY <2>1 DEF Arrived, Sound
  <2>2. CASE m.item = i /\ m.kind = "update"
    <3>1. after = 1..m.version
      BY <2>2 DEF Arrived, Learned
    <3>2. known \subseteq 1..m.version
      BY <1>1, <2>2 DEF Sound, NoneTaken
    <3> QED BY <1>4, <2>2, <3>1, <3>2
  <2>3. CASE m.item = i /\ m.kind = "fill"
    <3>1. after = IF 1 \in known THEN known \cup {m.version} ELSE known
      BY <2>3 DEF Arrived, Learned
    <3>2. m.version \in 1..v
      BY <1>1, <1>4, <2>3 DEF Sound
    <3>3. known \subseteq 1..v
      BY DEF Sound
    <3> QED BY <3>1, <3>2, <3>3
  <2> QED BY <1>4, <2>1, <2>2, <2>3
<1>6. 1 \in after <=> (1 \in known \/ Introduces(m, i))
  <2>1. CASE m.item # i
    BY <2>1 DEF Arrived, Introduces
  <2>2. CASE m.item = i /\ m.kind = "update"
    <3>1. after = 1..m.version
      BY <2>2 DEF Arrived, Learned
    <3>2. known \subseteq after
      BY <1>5
    <3> QED BY <1>4, <2>2, <3>1, <3>2 DEF Introduces
  <2>3. CASE m.item = i /\ m.kind = "fill"
    <3>1. after = IF 1 \in known THEN known \cup {m.version} ELSE known
      BY <2>3 DEF Arrived, Learned
    <3> QED BY <2>3, <3>1 DEF Introduces
  <2> QED BY <1>4, <2>1, <2>2, <2>3
<1>7. \A k \in DOMAIN t : Introduced(t, i, after, k) <=> Introduced(w, i, known, k + 1)
  <2> SUFFICES ASSUME NEW k \in DOMAIN t
               PROVE  Introduced(t, i, after, k) <=> Introduced(w, i, known, k + 1)
    OBVIOUS
  <2>1. Introduced(w, i, known, k + 1) <=>
          \/ 1 \in known \/ Introduces(m, i)
          \/ \E j \in DOMAIN t : j < k /\ Introduces(t[j], i)
    <3>1. ASSUME NEW j \in DOMAIN w, j < k + 1, Introduces(w[j], i)
          PROVE  Introduces(m, i) \/ \E h \in DOMAIN t : h < k /\ Introduces(t[h], i)
      <4>1. CASE j = 1
        BY <1>1, <3>1, <4>1
      <4>2. CASE j # 1
        <5>1. PICK h \in DOMAIN t : j = h + 1
          BY <1>2, <4>2
        <5> QED BY <1>1, <1>3, <3>1, <5>1
      <4> QED BY <4>1, <4>2
    <3>2. ASSUME NEW h \in DOMAIN t, h < k, Introduces(t[h], i)
          PROVE  Introduced(w, i, known, k + 1)
      BY <1>1, <1>3, <3>2 DEF Introduced
    <3>3. Introduces(m, i) => Introduced(w, i, known, k + 1)
      BY <1>1, <1>3 DEF Introduced
    <3>4. 1 \in known => Introduced(w, i, known, k + 1)
      BY DEF Introduced
    <3>5. Introduced(w, i, known, k + 1) =>
            1 \in known \/ \E j \in DOMAIN w : j < k + 1 /\ Introduces(w[j], i)
      BY DEF Introduced
    <3> QED BY <3>1, <3>2, <3>3, <3>4, <3>5
  <2> HIDE DEF after
  <2> QED BY <1>6, <2>1 DEF Introduced
<1>8. ASSUME NEW c PROVE c \in after <=> (c \in known \/ (c \in 1..v /\ Tells(w, i, known, 1, c)))
  <2>1. ~(\E j \in DOMAIN w : j < 1)
    BY <1>1
  <2>2. Introduced(w, i, known, 1) <=> 1 \in known
    BY <2>1 DEF Introduced
  <2>3. Tells(w, i, known, 1, c) <=> IsState(m, i, c) \/ (IsFill(m, i, c) /\ 1 \in known)
    BY <1>1, <2>2 DEF Tells
  <2>4. CASE m.item # i
    BY <2>3, <2>4 DEF Arrived, IsState, IsFill
  <2>5. CASE m.item = i /\ m.kind = "update"
    <3>1. after = 1..m.version /\ known \subseteq after
      BY <1>5, <2>5 DEF Arrived, Learned
    <3>2. c \in 1..m.version <=> c \in 1..v /\ c <= m.version
      BY <1>4, <2>5
    <3> QED BY <2>3, <2>5, <3>1, <3>2 DEF IsState, IsFill
  <2>6. CASE m.item = i /\ m.kind = "fill"
    <3>1. after = IF 1 \in known THEN known \cup {m.version} ELSE known
      BY <2>6 DEF Arrived, Learned
    <3>2. m.version \in 1..v
      BY <1>1, <1>4, <2>6 DEF Sound
    <3> QED BY <2>3, <2>6, <3>1, <3>2 DEF IsState, IsFill
  <2> QED BY <1>4, <2>4, <2>5, <2>6
<1>9. ASSUME NEW c \in 1..v PROVE Told(t, i, after, c) <=> Told(w, i, known, c)
  <2>1. \A k \in DOMAIN t : Tells(t, i, after, k, c) <=> Tells(w, i, known, k + 1, c)
    BY <1>1, <1>7 DEF Tells
  <2>2. Told(t, i, after, c) =>  Told(w, i, known, c)
    <3>1. ASSUME NEW k \in DOMAIN t, Tells(t, i, after, k, c) PROVE Told(w, i, known, c)
      BY <1>1, <2>1, <3>1 DEF Told
    <3>2. c \in after => Told(w, i, known, c)
      BY <1>1, <1>8 DEF Told
    <3> HIDE DEF after
    <3> QED BY <3>1, <3>2 DEF Told
  <2>3. Told(w, i, known, c) => Told(t, i, after, c)
    <3>1. ASSUME NEW k \in DOMAIN w, Tells(w, i, known, k, c) PROVE Told(t, i, after, c)
      <4>1. CASE k = 1
        BY <1>8, <3>1, <4>1 DEF Told
      <4>2. CASE k # 1
        <5>1. PICK h \in DOMAIN t : k = h + 1
          BY <1>2, <4>2
        <5> HIDE DEF after
        <5> QED BY <2>1, <3>1, <5>1 DEF Told
      <4> QED BY <4>1, <4>2
    <3>2. c \in known => Told(t, i, after, c)
      BY <1>5 DEF Told
    <3> HIDE DEF after
    <3> QED BY <3>1, <3>2 DEF Told
  <2> QED BY <2>2, <2>3
<1>10. ASSUME NEW k \in DOMAIN t, t[k].item = i
       PROVE  t[k].version <= v /\ (t[k].kind = "fill" => t[k].version >= 2)
  BY <1>1, <1>10 DEF Sound
<1>11. ASSUME NEW k \in DOMAIN t, t[k].item = i, t[k].kind = "update"
       PROVE  /\ after \subseteq 1..t[k].version
              /\ \A j \in DOMAIN t : j < k /\ t[j].item = i => t[j].version <= t[k].version
  <2>1. NoneTaken(w, i, known, k + 1) /\ k + 1 \in DOMAIN w /\ t[k] = w[k + 1] /\ 1 < k + 1
    BY <1>1, <1>3 DEF Sound
  <2>2. known \subseteq 1..t[k].version
    BY <1>11, <2>1 DEF NoneTaken
  <2>3. m.item = i => m.version <= t[k].version
    BY <1>1, <1>11, <2>1 DEF NoneTaken
  <2>4. t[k].version \in Nat
    <3>1. t[k] \in Messages /\ t[k] # PONG
      BY <1>1, <1>11, <2>1 DEF PONG
    <3> QED BY <3>1 DEF Messages
  <2>5. after \subseteq 1..t[k].version
    <3>1. after = known \/ (m.item = i /\ after = 1..m.version)
            \/ (m.item = i /\ m.kind = "fill" /\ after = known \cup {m.version})
      BY <1>4 DEF Arrived, Learned
    <3>2. m.item = i /\ m.kind = "fill" => m.version \in 1..t[k].version
      BY <1>1, <1>4, <2>3, <2>4 DEF Sound
    <3>3. m.item = i => 1..m.version \subseteq 1..t[k].version
      BY <1>4, <2>3, <2>4
    <3> HIDE DEF after
    <3> QED BY <2>2, <3>1, <3>2, <3>3
  <2>6. ASSUME NEW j \in DOMAIN t, j < k, t[j].item = i PROVE t[j].version <= t[k].version
    <3>1. j + 1 \in DOMAIN w /\ j + 1 < k + 1 /\ t[j] = w[j + 1]
      BY <1>1, <1>3, <2>6
    <3> QED BY <1>11, <2>1, <2>6, <3>1 DEF NoneTaken
  <2> QED BY <2>5, <2>6
<1>12. \A c \in 1..v : c \in lost <=> ~Told(t, i, after, c)
  BY <1>9 DEF Sound
<1> HIDE DEF after
<1>14. Sound(t, i, v, after, lost)
  <2>1. lost \subseteq 1..v
    BY DEF Sound
  <2> QED BY <1>5, <1>10, <1>11, <1>12, <2>1 DEF Sound, NoneTaken
<1> QED BY <1>5, <1>14 DEF after, m, t

StreamTyped ==
  /\ stream \in {"orders", "risk"}
  /\ version \in [1..MaxItems -> Nat] /\ shown \in [1..MaxItems -> Nat]
  /\ view \in [1..MaxItems -> SUBSET Nat] /\ missed \in [1..MaxItems -> SUBSET Nat]
  /\ serving \in {"none", "accepted", "snapshot", "streaming", "raised", "ended"}
  /\ outbox \in Seq(Messages)
  /\ socket = <<>> \/ \E m \in Messages : socket = <<m>>

(* What is on its way to the client.                                       *)
Wire == socket \o outbox

Streaming == \A i \in 1..MaxItems : Sound(Wire, i, version[i], view[i], missed[i])

(* Before the registration nothing is queued, and a snapshot tells all but *)
(* what is missed.                                                         *)
StreamInvariant ==
  /\ StreamTyped
  /\ serving \in {"none", "accepted", "snapshot"} =>
       ~listening /\ outbox = <<>> /\ socket = <<>>
  /\ serving = "snapshot" => \A i \in 1..MaxItems :
       Sound(<<>>, i, version[i], 1..shown[i], missed[i])
  /\ serving = "streaming" => listening /\ Streaming

LEMMA StreamInvariantInit == StreamInit => StreamInvariant
BY DEF StreamInit, StreamInvariant, StreamTyped

LEMMA WireTyped == ASSUME StreamTyped PROVE Wire \in Seq(Messages) /\ socket \in Seq(Messages)
<1>1. outbox \in Seq(Messages)
  BY DEF StreamTyped
<1>2. socket \in Seq(Messages)
  <2>1. <<>> \in Seq(Messages) /\ \A m \in Messages : <<m>> \in Seq(Messages)
    OBVIOUS
  <2> QED BY <2>1, Zenon DEF StreamTyped
<1> QED BY <1>1, <1>2, ConcatProperties DEF Wire

LEMMA WireAppend ==
  ASSUME StreamTyped, NEW m \in Messages, outbox' = Append(outbox, m), socket' = socket
  PROVE  Wire' = Append(Wire, m)
<1>1. outbox \in Seq(Messages) /\ socket \in Seq(Messages) /\ <<m>> \in Seq(Messages)
  BY WireTyped DEF StreamTyped
<1>2. Append(outbox, m) = outbox \o <<m>> /\ Append(socket \o outbox, m) = (socket \o outbox) \o <<m>>
  BY <1>1, ConcatProperties, AppendIsConcat
<1>3. (socket \o outbox) \o <<m>> = socket \o (outbox \o <<m>>)
  BY <1>1, ConcatAssociative
<1> QED BY <1>2, <1>3 DEF Wire

LEMMA MessagesTyped ==
  \A i \in 1..MaxItems, n \in Nat : Update(i, n) \in Messages /\ ChildFill(i, n) \in Messages
BY DEF Messages, Update, ChildFill

LEMMA StreamTypedStep == StreamInvariant /\ [StreamNext]_streamVars => StreamTyped'
<1> SUFFICES ASSUME StreamInvariant, [StreamNext]_streamVars PROVE StreamTyped'
  OBVIOUS
<1>0. StreamTyped
  BY DEF StreamInvariant
<1>1. 1 \in 1..MaxItems /\ Orders \subseteq 1..MaxItems /\ PONG \in Messages
  BY StreamAssumption DEF Orders, Messages
<1>2. \A m \in Messages : Enqueued(outbox, m) \in Seq(Messages) /\ Append(outbox, m) \in Seq(Messages)
  BY <1>0 DEF StreamTyped, Enqueued
<1>3. ASSUME NEW i \in 1..MaxItems, NEW n \in Nat, Announced(i, n),
             UNCHANGED <<stream, serving, socket, view, shown>>
      PROVE  StreamTyped'
  <2>1. version' \in [1..MaxItems -> Nat]
    BY <1>0, <1>3 DEF StreamTyped, Announced
  <2>2. outbox' \in Seq(Messages)
    BY <1>0, <1>2, <1>3, MessagesTyped DEF StreamTyped, Announced
  <2>3. missed' \in [1..MaxItems -> SUBSET Nat]
    <3>1. (version[i] + 1)..n \subseteq Nat
      BY <1>0 DEF StreamTyped
    <3> QED BY <1>0, <1>3, <3>1 DEF StreamTyped, Announced
  <2> QED BY <1>0, <1>3, <2>1, <2>2, <2>3 DEF StreamTyped
<1>4. CASE Accept \/ SnapshotFails \/ Ping \/ ClientLeaves \/ ClientGarbles \/ ReaderRaises \/ WriterRaises
  BY <1>0, <1>4 DEF StreamTyped, Accept, SnapshotFails, Ping, ClientLeaves, ClientGarbles,
     ReaderRaises, WriterRaises, clientVars
<1>5. CASE ReadSnapshot
  <2>1. \A i \in 1..MaxItems : version[i] \in Nat /\ 1..version[i] \subseteq Nat
    BY <1>0 DEF StreamTyped
  <2> QED BY <1>0, <1>5, <2>1 DEF StreamTyped, ReadSnapshot
<1>6. CASE SnapshotSent
  <2>1. \A i \in 1..MaxItems : 1..shown[i] \subseteq Nat
    BY <1>0 DEF StreamTyped
  <2> QED BY <1>0, <1>6, <2>1 DEF StreamTyped, SnapshotSent
<1>7. ASSUME NEW i \in Orders, Submitted(i) \/ Cancelled(i) \/ SlicesEnd(i) PROVE StreamTyped'
  <2>1. i \in 1..MaxItems /\ version[i] \in Nat /\ 1 \in Nat
    BY <1>0, <1>1 DEF StreamTyped
  <2>2. CASE Submitted(i)
    BY <1>3, <2>1, <2>2 DEF Submitted, clientVars
  <2>3. CASE Cancelled(i) \/ SlicesEnd(i)
    BY <1>3, <2>1, <2>3 DEF Cancelled, SlicesEnd, clientVars
  <2> QED BY <1>7, <2>2, <2>3
<1>8. ASSUME NEW i \in Orders, Filled(i) PROVE StreamTyped'
  <2>1. /\ i \in 1..MaxItems /\ version[i] + 1 \in Nat
        /\ version' = [version EXCEPT ![i] = version[i] + 1]
        /\ outbox' = IF listening THEN Enqueued(outbox, ChildFill(i, version[i] + 1)) ELSE outbox
        /\ missed' = missed \/ missed' = [missed EXCEPT ![i] = @ \cup {version[i] + 1}]
        /\ UNCHANGED <<stream, serving, socket, view, shown>>
    BY <1>0, <1>1, <1>8 DEF StreamTyped, Filled, clientVars
  <2>2. outbox' \in Seq(Messages)
    BY <1>0, <1>2, <2>1, MessagesTyped DEF StreamTyped
  <2>3. version' \in [1..MaxItems -> Nat] /\ missed' \in [1..MaxItems -> SUBSET Nat]
    BY <1>0, <2>1 DEF StreamTyped
  <2> QED BY <1>0, <2>1, <2>2, <2>3 DEF StreamTyped
<1>9. CASE SwitchReset \/ PanicAnnounced \/ TelemetryTick
  <2>1. version[1] \in Nat /\ version[1] + 1 \in Nat
    BY <1>0, <1>1 DEF StreamTyped
  <2> QED BY <1>1, <1>3, <1>9, <2>1 DEF SwitchReset, PanicAnnounced, TelemetryTick, clientVars
<1>10. CASE ChangeUnheard
  <2>1. /\ version[1] + 1 \in Nat /\ version' = [version EXCEPT ![1] = version[1] + 1]
        /\ missed' = missed \/ missed' = [missed EXCEPT ![1] = @ \cup {version[1] + 1}]
        /\ UNCHANGED <<stream, serving, outbox, socket, view, shown>>
    BY <1>0, <1>1, <1>10 DEF StreamTyped, ChangeUnheard, clientVars
  <2>2. version' \in [1..MaxItems -> Nat]
    BY <1>0, <2>1 DEF StreamTyped
  <2>3. missed' \in [1..MaxItems -> SUBSET Nat]
    <3>1. {version[1] + 1} \subseteq Nat
      BY <2>1
    <3> QED BY <1>0, <1>1, <2>1, <3>1 DEF StreamTyped
  <2> QED BY <1>0, <2>1, <2>2, <2>3 DEF StreamTyped
<1>11. CASE Pong
  <2>1. outbox' \in Seq(Messages)
    BY <1>1, <1>2, <1>11 DEF Pong
  <2> QED BY <1>0, <1>11, <2>1 DEF StreamTyped, Pong
<1>12. CASE WriterTakes
  <2>1. Head(outbox) \in Messages /\ Tail(outbox) \in Seq(Messages)
    BY <1>0, <1>12 DEF StreamTyped, WriterTakes
  <2> QED BY <1>0, <1>12, <2>1 DEF StreamTyped, WriterTakes, clientVars
<1>13. CASE WriterSends
  <2>1. Head(socket) \in Messages
    BY <1>0, <1>13 DEF StreamTyped, WriterSends
  <2>2. ASSUME Head(socket) # PONG PROVE \A known \in SUBSET Nat : Learned(known, Head(socket)) \in SUBSET Nat
    <3>1. Head(socket).version \in Nat
      BY <2>1, <2>2 DEF Messages
    <3>2. 1..Head(socket).version \in SUBSET Nat /\ {Head(socket).version} \in SUBSET Nat
      BY <3>1
    <3>3. \A known \in SUBSET Nat : known \cup {Head(socket).version} \in SUBSET Nat
      BY <3>2
    <3> QED BY <3>2, <3>3 DEF Learned
  <2>3. view' \in [1..MaxItems -> SUBSET Nat]
    <3>1. view' = view \/ (Head(socket) # PONG /\ view' = [view EXCEPT ![Head(socket).item] = Learned(@, Head(socket))])
      BY <1>13 DEF WriterSends, Delivered
    <3> QED BY <1>0, <2>2, <3>1 DEF StreamTyped
  <2> QED BY <1>0, <1>13, <2>3 DEF StreamTyped, WriterSends, clientVars
<1>14. CASE StreamEnds
  BY <1>0, <1>14 DEF StreamTyped, StreamEnds
<1>15. CASE UNCHANGED streamVars
  BY <1>0, <1>15 DEF StreamTyped, streamVars, clientVars
<1> QED BY <1>4, <1>5, <1>6, <1>7, <1>8, <1>9, <1>10, <1>11, <1>12, <1>13, <1>14, <1>15 DEF StreamNext

(* A message with the whole state of item i, whose last change it may be.  *)
LEMMA Announcing ==
  ASSUME StreamInvariant, StreamTyped', NEW i \in 1..MaxItems,
         NEW n \in {version[i], version[i] + 1}, Announced(i, n),
         UNCHANGED <<serving, listening, socket, view, shown>>
  PROVE  StreamInvariant'
<1>0. StreamTyped
  BY DEF StreamInvariant
<1>1. /\ version[i] \in Nat /\ n \in Nat /\ Update(i, n) \in Messages
      /\ version' = [version EXCEPT ![i] = n]
      /\ \A j \in 1..MaxItems : /\ version[j] \in Nat
                                /\ version'[j] = IF j = i THEN n ELSE version[j]
  BY <1>0, MessagesTyped DEF StreamTyped, Announced
<1>2. (version[i] + 1)..n = IF n = version[i] THEN {} ELSE {version[i] + 1}
  <2>1. CASE n = version[i]
    <3>1. (version[i] + 1)..n = {}
      BY <1>1, <2>1
    <3> QED BY <2>1, <3>1
  <2>2. CASE n = version[i] + 1
    <3>1. (version[i] + 1)..n = {version[i] + 1} /\ n # version[i]
      BY <1>1, <2>2
    <3> QED BY <3>1
  <2> QED BY <2>1, <2>2
<1>3. ASSUME NEW w \in Seq(Messages), NEW known, Sound(w, i, version[i], known, missed[i])
      PROVE  Sound(w, i, n, known, missed[i] \cup ((version[i] + 1)..n))
  <2>1. CASE n = version[i]
    <3>1. missed[i] \cup ((version[i] + 1)..n) = missed[i]
      BY <1>2, <2>1
    <3> QED BY <1>3, <2>1, <3>1
  <2>2. CASE n = version[i] + 1
    <3>1. n # version[i]
      BY <1>1, <2>2
    <3>2. (version[i] + 1)..n = {version[i] + 1}
      BY <1>2, <3>1
    <3> QED BY <1>1, <1>3, <2>2, <3>2, Dropped
  <2> QED BY <2>1, <2>2
<1>4. CASE serving = "streaming" /\ Room
  <2>1. outbox' = Append(outbox, Update(i, n)) /\ missed' = [missed EXCEPT ![i] = {}]
    BY <1>4 DEF Announced, Enqueued, Room
  <2>2. Wire' = Append(Wire, Update(i, n)) /\ Wire \in Seq(Messages)
    BY <1>0, <1>1, <2>1, WireAppend, WireTyped
  <2>3. ASSUME NEW j \in 1..MaxItems
        PROVE  Sound(Append(Wire, Update(i, n)), j, version'[j], view[j], missed'[j])
    <3>1. Sound(Wire, j, version[j], view[j], missed[j])
      BY <1>4 DEF StreamInvariant, Streaming
    <3>2. CASE j = i
      <4>1. missed'[j] = {} /\ version'[j] = n
        BY <1>0, <1>1, <2>1, <3>2 DEF StreamTyped
      <4> QED BY <1>1, <2>2, <3>1, <3>2, <4>1, JoinsState
    <3>3. CASE j # i
      <4>1. missed'[j] = missed[j] /\ version'[j] = version[j] /\ Update(i, n).item # j
        BY <1>0, <1>1, <2>1, <3>3 DEF StreamTyped, Update
      <4> QED BY <1>1, <2>2, <3>1, <4>1, JoinsOther
    <3> QED BY <3>2, <3>3
  <2>4. Streaming'
    BY <2>2, <2>3 DEF Streaming
  <2> QED BY <1>4, <2>4 DEF StreamInvariant
<1>5. CASE serving = "streaming" /\ ~Room
  <2>1. outbox' = outbox /\ missed' = [missed EXCEPT ![i] = @ \cup ((version[i] + 1)..n)]
    BY <1>5 DEF Announced, Enqueued, Room
  <2>2. Wire' = Wire /\ Wire \in Seq(Messages)
    BY <1>0, <2>1, WireTyped DEF Wire
  <2>3. ASSUME NEW j \in 1..MaxItems
        PROVE  Sound(Wire, j, version'[j], view[j], missed'[j])
    <3>1. Sound(Wire, j, version[j], view[j], missed[j])
      BY <1>5 DEF StreamInvariant, Streaming
    <3>2. CASE j = i
      <4>1. missed'[j] = missed[i] \cup ((version[i] + 1)..n) /\ version'[j] = n
        BY <1>0, <1>1, <2>1, <3>2 DEF StreamTyped
      <4> QED BY <1>3, <2>2, <3>1, <3>2, <4>1
    <3>3. CASE j # i
      <4>1. missed'[j] = missed[j] /\ version'[j] = version[j]
        BY <1>0, <1>1, <2>1, <3>3 DEF StreamTyped
      <4> QED BY <3>1, <4>1
    <3> QED BY <3>2, <3>3
  <2>4. Streaming'
    BY <2>2, <2>3 DEF Streaming
  <2> QED BY <1>5, <2>4 DEF StreamInvariant
<1>6. CASE serving = "snapshot"
  <2>1. outbox' = outbox /\ missed' = [missed EXCEPT ![i] = @ \cup ((version[i] + 1)..n)]
    BY <1>6 DEF StreamInvariant, Announced, Room
  <2>2. <<>> \in Seq(Messages)
    OBVIOUS
  <2>3. ASSUME NEW j \in 1..MaxItems
        PROVE  Sound(<<>>, j, version'[j], 1..shown[j], missed'[j])
    <3>1. Sound(<<>>, j, version[j], 1..shown[j], missed[j])
      BY <1>6 DEF StreamInvariant
    <3>2. CASE j = i
      <4>1. missed'[j] = missed[i] \cup ((version[i] + 1)..n) /\ version'[j] = n
        BY <1>0, <1>1, <2>1, <3>2 DEF StreamTyped
      <4> QED BY <1>3, <2>2, <3>1, <3>2, <4>1
    <3>3. CASE j # i
      <4>1. missed'[j] = missed[j] /\ version'[j] = version[j]
        BY <1>0, <1>1, <2>1, <3>3 DEF StreamTyped
      <4> QED BY <3>1, <4>1
    <3> QED BY <3>2, <3>3
  <2> QED BY <1>6, <2>1, <2>3 DEF StreamInvariant
<1>7. CASE serving \in {"none", "accepted"}
  BY <1>7 DEF StreamInvariant, Announced
<1>8. CASE serving \in {"raised", "ended"}
  BY <1>8 DEF StreamInvariant
<1> QED BY <1>0, <1>4, <1>5, <1>6, <1>7, <1>8 DEF StreamTyped

(* A change of item i that no message tells of.                            *)
LEMMA Unheard ==
  ASSUME StreamInvariant, StreamTyped', NEW i \in 1..MaxItems,
         version' = [version EXCEPT ![i] = version[i] + 1],
         missed' = IF serving \in {"snapshot", "streaming"}
                   THEN [missed EXCEPT ![i] = @ \cup {version[i] + 1}] ELSE missed,
         UNCHANGED <<serving, listening, outbox, socket, view, shown>>
  PROVE  StreamInvariant'
<1>0. StreamTyped /\ <<>> \in Seq(Messages) /\ Wire \in Seq(Messages)
  BY WireTyped DEF StreamInvariant
<1>1. \A j \in 1..MaxItems : /\ version[j] \in Nat
                             /\ version'[j] = IF j = i THEN version[i] + 1 ELSE version[j]
  BY <1>0 DEF StreamTyped
<1>2. ASSUME NEW w \in Seq(Messages), NEW j \in 1..MaxItems, NEW known,
             Sound(w, j, version[j], known, missed[j]), serving \in {"snapshot", "streaming"}
      PROVE  Sound(w, j, version'[j], known, missed'[j])
  <2>1. CASE j = i
    <3>1. missed'[j] = missed[j] \cup {version[j] + 1} /\ version'[j] = version[j] + 1
      BY <1>0, <1>1, <1>2, <2>1 DEF StreamTyped
    <3> QED BY <1>1, <1>2, <3>1, Dropped
  <2>2. CASE j # i
    <3>1. missed'[j] = missed[j] /\ version'[j] = version[j]
      BY <1>0, <1>1, <1>2, <2>2 DEF StreamTyped
    <3> QED BY <1>2, <3>1
  <2> QED BY <2>1, <2>2
<1>3. CASE serving = "snapshot"
  <2>1. \A j \in 1..MaxItems : Sound(<<>>, j, version'[j], 1..shown[j], missed'[j])
    <3> SUFFICES ASSUME NEW j \in 1..MaxItems
                 PROVE  Sound(<<>>, j, version'[j], 1..shown[j], missed'[j])
      OBVIOUS
    <3>1. Sound(<<>>, j, version[j], 1..shown[j], missed[j])
      BY <1>3 DEF StreamInvariant
    <3> QED BY <1>0, <1>2, <1>3, <3>1
  <2> QED BY <1>3, <2>1 DEF StreamInvariant
<1>4. CASE serving = "streaming"
  <2>1. \A j \in 1..MaxItems : Sound(Wire, j, version'[j], view[j], missed'[j])
    <3> SUFFICES ASSUME NEW j \in 1..MaxItems
                 PROVE  Sound(Wire, j, version'[j], view[j], missed'[j])
      OBVIOUS
    <3>1. Sound(Wire, j, version[j], view[j], missed[j])
      BY <1>4 DEF StreamInvariant, Streaming
    <3> QED BY <1>0, <1>2, <1>4, <3>1
  <2>2. Wire' = Wire
    BY DEF Wire
  <2>3. Streaming'
    BY <2>1, <2>2 DEF Streaming
  <2> QED BY <1>4, <2>3 DEF StreamInvariant
<1>5. CASE serving \in {"none", "accepted", "raised", "ended"}
  BY <1>5 DEF StreamInvariant
<1> QED BY <1>0, <1>3, <1>4, <1>5 DEF StreamTyped

(* A fill: a message of its own for a client with room and listeners.      *)
LEMMA Filling ==
  ASSUME StreamInvariant, StreamTyped', NEW i \in 1..MaxItems, Filled(i)
  PROVE  StreamInvariant'
<1>0. StreamTyped /\ Wire \in Seq(Messages)
  BY WireTyped DEF StreamInvariant
<1>1. /\ version[i] \in Nat \ {0}
      /\ version' = [version EXCEPT ![i] = version[i] + 1]
      /\ UNCHANGED <<serving, listening, socket, view, shown>>
      /\ \A j \in 1..MaxItems : /\ version[j] \in Nat
                                /\ version'[j] = IF j = i THEN version[i] + 1 ELSE version[j]
      /\ ChildFill(i, version[i] + 1) \in Messages
  <2>1. /\ version[i] # 0 /\ version' = [version EXCEPT ![i] = version[i] + 1]
        /\ UNCHANGED <<serving, listening, socket, view, shown>>
    BY StreamAssumption DEF Filled, clientVars
  <2>2. version \in [1..MaxItems -> Nat] /\ version[i] + 1 \in Nat
    BY <1>0 DEF StreamTyped
  <2>3. ChildFill(i, version[i] + 1) \in Messages
    BY <2>2, MessagesTyped
  <2> QED BY <2>1, <2>2, <2>3
<1>2. CASE serving = "streaming" /\ Room
  <2>1. /\ outbox' = Append(outbox, ChildFill(i, version[i] + 1))
        /\ missed' = IF 1 \in missed[i] THEN [missed EXCEPT ![i] = @ \cup {version[i] + 1}] ELSE missed
    BY <1>2 DEF Filled, Enqueued, Room
  <2>2. Wire' = Append(Wire, ChildFill(i, version[i] + 1))
    BY <1>0, <1>1, <2>1, WireAppend
  <2>3. ASSUME NEW j \in 1..MaxItems
        PROVE  Sound(Append(Wire, ChildFill(i, version[i] + 1)), j, version'[j], view[j], missed'[j])
    <3>1. Sound(Wire, j, version[j], view[j], missed[j])
      BY <1>2 DEF StreamInvariant, Streaming
    <3>2. CASE j = i
      <4>1. /\ missed'[j] = IF 1 \in missed[j] THEN missed[j] \cup {version[j] + 1} ELSE missed[j]
            /\ version'[j] = version[j] + 1
        BY <1>0, <1>1, <2>1, <3>2 DEF StreamTyped
      <4>2. Sound(Append(Wire, ChildFill(j, version[j] + 1)), j, version[j] + 1, view[j],
                  IF 1 \in missed[j] THEN missed[j] \cup {version[j] + 1} ELSE missed[j])
        <5>1. version[j] \in Nat \ {0}
          BY <1>1, <3>2
        <5> QED BY <1>0, <3>1, <5>1, JoinsFill
      <4> QED BY <3>2, <4>1, <4>2
    <3>3. CASE j # i
      <4>1. missed'[j] = missed[j] /\ version'[j] = version[j] /\ ChildFill(i, version[i] + 1).item # j
        BY <1>0, <1>1, <2>1, <3>3 DEF StreamTyped, ChildFill
      <4> QED BY <1>0, <1>1, <3>1, <4>1, JoinsOther
    <3> QED BY <3>2, <3>3
  <2>4. Streaming'
    BY <1>1, <2>2, <2>3 DEF Streaming
  <2> QED BY <1>1, <1>2, <2>4 DEF StreamInvariant
<1>3. CASE serving = "streaming" /\ ~Room
  <2>1. outbox' = outbox /\ missed' = [missed EXCEPT ![i] = @ \cup {version[i] + 1}]
    BY <1>3 DEF Filled, Enqueued, Room
  <2> QED BY <1>1, <1>3, <2>1, Unheard
<1>4. CASE serving = "snapshot"
  <2>1. outbox' = outbox /\ missed' = [missed EXCEPT ![i] = @ \cup {version[i] + 1}]
    BY <1>4 DEF StreamInvariant, Filled, Room
  <2> QED BY <1>1, <1>4, <2>1, Unheard
<1>5. CASE serving \in {"none", "accepted"}
  BY <1>1, <1>5 DEF StreamInvariant, Filled
<1>6. CASE serving \in {"raised", "ended"}
  BY <1>1, <1>6 DEF StreamInvariant
<1> QED BY <1>0, <1>2, <1>3, <1>4, <1>5, <1>6 DEF StreamTyped

(* The writer moves what is on its way, or delivers it: what the client    *)
(* knows only grows.                                                       *)
LEMMA Taken == StreamInvariant /\ Streaming /\ WriterTakes => Streaming'
<1> SUFFICES ASSUME StreamInvariant, Streaming, WriterTakes PROVE Streaming'
  OBVIOUS
<1>1. /\ outbox \in Seq(Messages) /\ outbox # <<>> /\ Head(outbox) \in Messages
      /\ socket = <<>> /\ socket' = <<Head(outbox)>> /\ outbox' = Tail(outbox)
      /\ UNCHANGED <<version, view, missed>>
  BY DEF StreamInvariant, StreamTyped, WriterTakes, clientVars
<1>2. <<Head(outbox)>> \o Tail(outbox) = outbox
  BY <1>1
<1>3. <<>> \o outbox = outbox
  BY <1>1, ConcatEmptySeq
<1>4. Wire' = Wire
  BY <1>1, <1>2, <1>3 DEF Wire
<1> QED BY <1>1, <1>4 DEF Streaming

LEMMA Sent ==
  ASSUME StreamInvariant, Streaming, WriterSends
  PROVE  Streaming' /\ \A i \in 1..MaxItems : view[i] \subseteq view'[i]
<1>0. StreamTyped
  BY DEF StreamInvariant
<1> DEFINE m == Head(socket)
<1>1. /\ outbox \in Seq(Messages) /\ m \in Messages /\ socket = <<m>>
      /\ view' = Delivered(m) /\ socket' = <<>>
      /\ view \in [1..MaxItems -> SUBSET Nat] /\ version \in [1..MaxItems -> Nat]
      /\ UNCHANGED <<version, outbox, missed>>
  BY <1>0 DEF StreamTyped, WriterSends
<1> HIDE DEF m
<1>2. Wire = <<m>> \o outbox /\ Wire \in Seq(Messages) /\ Wire' = outbox
  BY <1>0, <1>1, WireTyped, ConcatEmptySeq DEF Wire
<1>3. Wire # <<>> /\ Head(Wire) = m /\ Tail(Wire) = Wire'
  BY <1>1, <1>2
<1>4. ASSUME NEW i \in 1..MaxItems PROVE view'[i] = Arrived(view[i], i, m)
  <2>1. m = PONG \/ m \in [item : 1..MaxItems, kind : {"update", "fill"}, version : Nat]
    BY <1>1 DEF Messages
  <2>2. CASE m = PONG
    <3>1. m.item = 0 /\ i # 0
      BY <2>2 DEF PONG
    <3> QED BY <1>1, <2>2, <3>1 DEF Delivered, Arrived
  <2>3. CASE m \in [item : 1..MaxItems, kind : {"update", "fill"}, version : Nat]
    <3>1. m # PONG
      <4>1. m.item # 0
        BY <2>3
      <4> QED BY <4>1 DEF PONG
    <3>2. view' = [view EXCEPT ![m.item] = Learned(view[m.item], m)]
      BY <1>1, <3>1 DEF Delivered
    <3>3. view'[i] = IF m.item = i THEN Learned(view[i], m) ELSE view[i]
      BY <1>1, <2>3, <3>2
    <3> QED BY <3>3 DEF Arrived
  <2> QED BY <2>1, <2>2, <2>3
<1>5. ASSUME NEW i \in 1..MaxItems
      PROVE  view[i] \subseteq view'[i] /\ Sound(Wire', i, version'[i], view'[i], missed'[i])
  <2>1. Sound(Wire, i, version[i], view[i], missed[i]) /\ version[i] \in Nat
    BY <1>1 DEF Streaming
  <2>2. /\ view[i] \subseteq Arrived(view[i], i, Head(Wire))
        /\ Sound(Tail(Wire), i, version[i], Arrived(view[i], i, Head(Wire)), missed[i])
    BY <1>2, <1>3, <2>1, Arrives
  <2> QED BY <1>1, <1>3, <1>4, <2>2
<1> QED BY <1>5 DEF Streaming

LEMMA StreamInvariantStep == StreamInvariant /\ [StreamNext]_streamVars => StreamInvariant'
<1> SUFFICES ASSUME StreamInvariant, [StreamNext]_streamVars PROVE StreamInvariant'
  OBVIOUS
<1>0. StreamTyped /\ StreamTyped' /\ 1 \in 1..MaxItems /\ Orders \subseteq 1..MaxItems
  BY StreamTypedStep, StreamAssumption DEF StreamInvariant, Orders
<1>1. ASSUME UNCHANGED <<version, outbox, socket, view, missed>>, Streaming
      PROVE  Streaming'
  BY <1>1 DEF Streaming, Wire
<1>2. CASE Accept
  BY <1>0, <1>2 DEF Accept, StreamInvariant
<1>3. CASE ReadSnapshot
  <2>1. ASSUME NEW i \in 1..MaxItems
        PROVE  Sound(<<>>, i, version'[i], 1..shown'[i], missed'[i])
    <3>1. /\ version'[i] = version[i] /\ version[i] \in Nat
          /\ shown'[i] = IF InSnapshot(i) THEN version[i] ELSE 0
          /\ missed'[i] = IF InSnapshot(i) THEN {} ELSE 1..version[i]
      BY <1>0, <1>3 DEF StreamTyped, ReadSnapshot
    <3>2. 1..0 = {} /\ DOMAIN <<>> = {}
      OBVIOUS
    <3>3. \A c \in 1..version[i] : c \in missed'[i] <=> c \notin 1..shown'[i]
      BY <3>1, <3>2
    <3>4. 1..shown'[i] \subseteq 1..version[i] /\ missed'[i] \subseteq 1..version[i]
      BY <3>1, <3>2
    <3> QED BY <3>1, <3>2, <3>3, <3>4 DEF Sound, Told
  <2> QED BY <1>0, <1>3, <2>1 DEF ReadSnapshot, StreamInvariant
<1>4. CASE SnapshotSent
  <2>1. /\ outbox = <<>> /\ socket = <<>> /\ listening' = TRUE /\ serving' = "streaming"
        /\ view' = [i \in 1..MaxItems |-> 1..shown[i]]
        /\ \A i \in 1..MaxItems : Sound(<<>>, i, version[i], 1..shown[i], missed[i])
        /\ UNCHANGED <<version, outbox, socket, missed>>
    BY <1>4 DEF SnapshotSent, StreamInvariant
  <2>2. Wire' = <<>>
    <3>1. <<>> \o <<>> = <<>>
      OBVIOUS
    <3> QED BY <2>1, <3>1 DEF Wire
  <2>3. Streaming'
    BY <2>1, <2>2 DEF Streaming
  <2> QED BY <1>0, <2>1, <2>3 DEF StreamInvariant
<1>5. CASE SnapshotFails \/ ReaderRaises \/ WriterRaises
  BY <1>0, <1>5 DEF SnapshotFails, ReaderRaises, WriterRaises, StreamInvariant
<1>6. ASSUME NEW i \in Orders, Submitted(i) \/ Cancelled(i) \/ SlicesEnd(i) PROVE StreamInvariant'
  <2>1. i \in 1..MaxItems /\ version[i] \in Nat
    BY <1>0 DEF StreamTyped
  <2>2. CASE Submitted(i)
    <3>1. 1 \in {version[i], version[i] + 1} /\ Announced(i, 1)
      BY <2>2 DEF Submitted
    <3> QED BY <1>0, <2>1, <2>2, <3>1, Announcing DEF Submitted, clientVars
  <2>3. CASE Cancelled(i) \/ SlicesEnd(i)
    <3>1. version[i] \in {version[i], version[i] + 1} /\ Announced(i, version[i])
      BY <2>3 DEF Cancelled, SlicesEnd
    <3> QED BY <1>0, <2>1, <2>3, <3>1, Announcing DEF Cancelled, SlicesEnd, clientVars
  <2> QED BY <1>6, <2>2, <2>3
<1>7. ASSUME NEW i \in Orders, Filled(i) PROVE StreamInvariant'
  BY <1>0, <1>7, Filling
<1>8. CASE SwitchReset \/ PanicAnnounced \/ TelemetryTick
  <2>1. version[1] + 1 \in {version[1], version[1] + 1} /\ version[1] \in {version[1], version[1] + 1}
    OBVIOUS
  <2>2. UNCHANGED <<serving, listening, socket, view, shown>>
    BY <1>8 DEF SwitchReset, PanicAnnounced, TelemetryTick, clientVars
  <2>3. Announced(1, version[1] + 1) \/ Announced(1, version[1])
    BY <1>8 DEF SwitchReset, PanicAnnounced, TelemetryTick
  <2> QED BY <1>0, <2>1, <2>2, <2>3, Announcing
<1>9. CASE ChangeUnheard
  <2>1. /\ version' = [version EXCEPT ![1] = version[1] + 1]
        /\ missed' = IF serving \in {"snapshot", "streaming"}
                     THEN [missed EXCEPT ![1] = @ \cup {version[1] + 1}] ELSE missed
        /\ UNCHANGED <<serving, listening, outbox, socket, view, shown>>
    BY <1>9 DEF ChangeUnheard, clientVars
  <2> QED BY <1>0, <2>1, Unheard
<1>10. CASE Ping \/ ClientLeaves \/ ClientGarbles
  BY <1>0, <1>1, <1>10 DEF Ping, ClientLeaves, ClientGarbles, StreamInvariant
<1>11. CASE Pong
  <2>1. PONG \in Messages /\ \A i \in 1..MaxItems : PONG.item # i
    BY DEF Messages, PONG
  <2>2. Wire' = Append(Wire, PONG) /\ Wire \in Seq(Messages)
    BY <1>0, <1>11, <2>1, WireAppend, WireTyped DEF Pong
  <2>3. ASSUME NEW i \in 1..MaxItems PROVE Sound(Wire', i, version[i], view[i], missed[i])
    <3>1. Sound(Wire, i, version[i], view[i], missed[i]) /\ version[i] \in Nat
      BY <1>0, <1>11 DEF Pong, StreamInvariant, Streaming, StreamTyped
    <3>2. Sound(Append(Wire, PONG), i, version[i], view[i], missed[i])
      BY <2>1, <2>2, <3>1, JoinsOther
    <3> QED BY <2>2, <3>2
  <2>4. Streaming' /\ listening' /\ serving' = "streaming"
    BY <1>11, <2>3 DEF Pong, Streaming, StreamInvariant
  <2> QED BY <1>0, <2>4 DEF StreamInvariant
<1>12. CASE WriterTakes
  <2>1. Streaming' /\ listening' /\ serving' = "streaming"
    BY <1>12, Taken DEF WriterTakes, StreamInvariant
  <2> QED BY <1>0, <2>1 DEF StreamInvariant
<1>13. CASE WriterSends
  <2>1. Streaming' /\ listening' /\ serving' = "streaming"
    BY <1>13, Sent DEF WriterSends, StreamInvariant
  <2> QED BY <1>0, <2>1 DEF StreamInvariant
<1>14. CASE StreamEnds
  BY <1>0, <1>14 DEF StreamEnds, StreamInvariant
<1>15. CASE UNCHANGED streamVars
  BY <1>0, <1>1, <1>15 DEF streamVars, clientVars, StreamInvariant
<1> QED
  BY <1>2, <1>3, <1>4, <1>5, <1>6, <1>7, <1>8, <1>9, <1>10, <1>11, <1>12, <1>13, <1>14, <1>15
  DEF StreamNext

(* Only the writer tells the client anything, and takes nothing back.      *)
LEMMA ToldForward == StreamInvariant /\ [StreamNext]_streamVars =>
    [serving = "streaming" => \A i \in 1..MaxItems : view[i] \subseteq view'[i]]_streamVars
<1> SUFFICES ASSUME StreamInvariant, [StreamNext]_streamVars, serving = "streaming", NEW i \in 1..MaxItems
             PROVE  view[i] \subseteq view'[i]
  OBVIOUS
<1>1. CASE WriterSends
  BY <1>1, Sent DEF StreamInvariant
<1>2. CASE ~WriterSends
  <2>1. view' = view
    BY <1>2 DEF StreamNext, streamVars, clientVars, Accept, ReadSnapshot, SnapshotSent, SnapshotFails,
       Submitted, Filled, Cancelled, SlicesEnd, SwitchReset, ChangeUnheard, PanicAnnounced,
       TelemetryTick, Ping, Pong, ClientLeaves, ClientGarbles, ReaderRaises, WriterTakes,
       WriterRaises, StreamEnds
  <2> QED BY <2>1
<1> QED BY <1>1, <1>2

(* A client with nothing left to receive knows of every item all changes   *)
(* but those it could not be told of, and nothing it was told is taken     *)
(* back: for any number of items, any snapshot limit, queue size, fills    *)
(* and PINGs, any frames and any moment at which it comes or leaves.       *)
THEOREM StreamHonestHolds == StreamSpec => StreamHonest
<1>1. StreamInvariant => StreamCatchesUp
  <2> SUFFICES ASSUME StreamInvariant, serving = "streaming", outbox = <<>>, socket = <<>>,
                      NEW i \in Items
               PROVE  view[i] = (1..version[i]) \ missed[i]
    BY DEF StreamCatchesUp
  <2>1. i \in 1..MaxItems
    BY StreamAssumption DEF Items
  <2>2. Wire = <<>> /\ DOMAIN <<>> = {}
    <3>1. <<>> \o <<>> = <<>> /\ DOMAIN <<>> = {}
      OBVIOUS
    <3> QED BY <3>1 DEF Wire
  <2>3. Sound(<<>>, i, version[i], view[i], missed[i])
    BY <2>1, <2>2 DEF StreamInvariant, Streaming
  <2>4. view[i] \subseteq 1..version[i] /\ \A c \in 1..version[i] : c \in missed[i] <=> c \notin view[i]
    BY <2>2, <2>3 DEF Sound, Told
  <2> QED BY <2>4
<1>2. StreamInvariant /\ [StreamNext]_streamVars
        => [StreamCatchesUp' /\ NeverToldBackwards]_streamVars
  <2>1. StreamInvariant /\ [StreamNext]_streamVars => StreamInvariant'
    BY StreamInvariantStep
  <2>2. StreamInvariant' => StreamCatchesUp'
    BY <1>1, PTL
  <2>3. StreamInvariant /\ [StreamNext]_streamVars => [NeverToldBackwards]_streamVars
    BY ToldForward DEF NeverToldBackwards
  <2> QED BY <2>1, <2>2, <2>3
<1> QED
  BY <1>2, StreamInvariantInit, StreamInvariantStep, PTL DEF StreamSpec, StreamHonest

-----------------------------------------------------------------------------
(* The audit logger.                                                       *)

(* While a stop awaits the background task, that task still exists, nobody *)
(* else changed the flags, and the connection is open.                     *)
StopInProgress == lock # NoHolder => loops = 1 /\ ~running /\ open

AuditInvariant ==
  /\ AuditTypeOK
  /\ OneWorker
  /\ StopInProgress
  /\ StoppedMeansDurable
  /\ Accounted

(* What Append and emptying do to the set of queued reports.               *)
LEMMA QueuedAppend ==
  ASSUME NEW r, queue \in Seq(Reports), queue' = Append(queue, r)
  PROVE  Queued' = Queued \cup {r}
<1>1. Len(queue) \in Nat /\ Len(queue') = Len(queue) + 1
  OBVIOUS
<1>2. \A k \in 1..Len(queue) : queue'[k] = queue[k]
  OBVIOUS
<1>3. queue'[Len(queue) + 1] = r
  OBVIOUS
<1>4. 1..(Len(queue) + 1) = (1..Len(queue)) \cup {Len(queue) + 1}
  BY <1>1
<1> QED
  BY <1>1, <1>2, <1>3, <1>4 DEF Queued

LEMMA QueuedEmpty ==
  ASSUME queue' = <<>>
  PROVE  Queued' = {}
BY DEF Queued

LEMMA EmptyQueueType == <<>> \in Seq(Reports) /\ Len(<<>>) <= MaxQueue
BY AuditAssumption

LEMMA IdleType == [c \in Callers |-> "idle"] \in [Callers -> {"idle", "waiting", "stopping"}]
OBVIOUS

LEMMA PrefixQueued ==
  ASSUME queue \in Seq(Reports), NEW k \in 0..Len(queue)
  PROVE  /\ {queue[j] : j \in 1..k} \subseteq Queued
         /\ {queue[j] : j \in 1..k} \subseteq Reports
BY DEF Queued

LEMMA QueuedType ==
  ASSUME queue \in Seq(Reports)
  PROVE  Queued \subseteq Reports
BY DEF Queued

(* Writing the drained queue, whether it succeeds or fails, loses no       *)
(* report that is not accounted for.                                       *)
LEMMA WrittenAccounts ==
  ASSUME AuditTypeOK, Accounted, Written, accepted' = accepted
  PROVE  /\ Accounted'
         /\ Queued' = {} /\ tx' = {} /\ queue' = <<>>
         /\ db' \subseteq Reports /\ discarded' = discarded /\ faults' = faults
<1>1. Queued \subseteq Reports
  BY QueuedType DEF AuditTypeOK
<1>2. Queued' = {}
  BY QueuedEmpty DEF Written
<1> QED
  BY <1>1, <1>2 DEF AuditTypeOK, Accounted, Written

LEMMA WriteFailedAccounts ==
  ASSUME AuditTypeOK, Accounted, WriteFailed, accepted' = accepted
  PROVE  /\ Accounted'
         /\ Queued' = {} /\ queue' = <<>>
         /\ tx' \subseteq Reports /\ db' = db /\ discarded' \subseteq Reports
         /\ faults' \in 0..MaxFaults
<1>1. Queued \subseteq Reports
  BY QueuedType DEF AuditTypeOK
<1>2. Queued' = {}
  BY QueuedEmpty DEF WriteFailed
<1>3. faults' \in 0..MaxFaults
  BY AuditAssumption DEF AuditTypeOK, WriteFailed, Fault
<1>4. PICK k \in 0..Len(queue) :
        LET inserted == tx \cup {queue[j] : j \in 1..k}
        IN  \/ tx' = inserted /\ discarded' = discarded \cup (Queued \ inserted)
            \/ tx' = {} /\ discarded' = discarded \cup tx \cup Queued
  BY DEF WriteFailed
<1>5. /\ {queue[j] : j \in 1..k} \subseteq Queued
      /\ {queue[j] : j \in 1..k} \subseteq Reports
  BY PrefixQueued DEF AuditTypeOK
<1>6. tx' \subseteq Reports /\ discarded' \subseteq Reports
  BY <1>1, <1>4, <1>5 DEF AuditTypeOK
<1>7. Accounted'
  BY <1>1, <1>2, <1>4, <1>5 DEF AuditTypeOK, Accounted, WriteFailed
<1> QED
  BY <1>2, <1>3, <1>6, <1>7 DEF WriteFailed

-----------------------------------------------------------------------------
LEMMA InitIInv == AuditInit => AuditInvariant
<1> SUFFICES ASSUME AuditInit PROVE AuditInvariant
  OBVIOUS
<1>1. AuditTypeOK
  <2>1. queue \in Seq(Reports) /\ Len(queue) <= MaxQueue
    BY EmptyQueueType DEF AuditInit
  <2>2. caller \in [Callers -> {"idle", "waiting", "stopping"}]
    BY IdleType DEF AuditInit
  <2>3. faults \in 0..MaxFaults /\ loops \in Nat
    BY AuditAssumption DEF AuditInit
  <2> QED
    BY <2>1, <2>2, <2>3 DEF AuditInit, AuditTypeOK
<1>2. Queued = {}
  BY DEF AuditInit, Queued
<1> QED
  BY <1>1, <1>2 DEF AuditInit, AuditInvariant, OneWorker, StopInProgress, StoppedMeansDurable, Accounted

(* The body of flush preserves the whole invariant if its caller leaves    *)
(* loops alone.                                                            *)
LEMMA FlushBodyIInv ==
  ASSUME AuditInvariant, FlushBody, loops' = loops,
         caller' \in [Callers -> {"idle", "waiting", "stopping"}]
  PROVE  AuditInvariant'
<1> USE DEF AuditInvariant
<1>1. CASE (~open \/ queue = <<>>) /\ UNCHANGED <<queue, tx, db, discarded, faults>>
  BY <1>1 DEF FlushBody, AuditTypeOK, OneWorker, StopInProgress, StoppedMeansDurable, Accounted, Queued
<1>2. CASE open /\ Written
  <2>1. /\ Accounted' /\ Queued' = {} /\ tx' = {} /\ queue' = <<>>
        /\ db' \subseteq Reports /\ discarded' = discarded /\ faults' = faults
    BY <1>2, WrittenAccounts DEF FlushBody
  <2> QED
    BY <1>2, <2>1, AuditAssumption
    DEF FlushBody, AuditTypeOK, OneWorker, StopInProgress, StoppedMeansDurable
<1>3. CASE open /\ WriteFailed
  <2>1. /\ Accounted' /\ Queued' = {} /\ queue' = <<>>
        /\ tx' \subseteq Reports /\ db' = db /\ discarded' \subseteq Reports
        /\ faults' \in 0..MaxFaults
    BY <1>3, WriteFailedAccounts DEF FlushBody
  <2> QED
    BY <1>3, <2>1, AuditAssumption
    DEF FlushBody, AuditTypeOK, OneWorker, StopInProgress, StoppedMeansDurable
<1> QED
  BY <1>1, <1>2, <1>3 DEF FlushBody

(* The end of stop, run when the connection is open and the switch is off. *)
LEMMA DrainAndCloseIInv ==
  ASSUME AuditInvariant, DrainAndClose, open, ~running', loops' = 0, lock' = NoHolder,
         caller' \in [Callers -> {"idle", "waiting", "stopping"}]
  PROVE  AuditInvariant'
<1> USE DEF AuditInvariant
<1>0. /\ OneWorker' /\ StopInProgress' /\ running' \in BOOLEAN
  <2>1. OneWorker'
    BY DEF OneWorker
  <2>2. StopInProgress'
    BY DEF StopInProgress
  <2>3. running' = FALSE
    OBVIOUS
  <2> QED
    BY <2>1, <2>2, <2>3
<1>1. CASE Written /\ open' = FALSE
  <2>1. /\ Accounted' /\ Queued' = {} /\ tx' = {} /\ queue' = <<>>
        /\ db' \subseteq Reports /\ discarded' = discarded /\ faults' = faults
    BY <1>1, WrittenAccounts DEF DrainAndClose
  <2>2. AuditTypeOK'
    BY <1>0, <1>1, <2>1, EmptyQueueType DEF DrainAndClose, AuditTypeOK
  <2> QED
    BY <1>0, <2>1, <2>2 DEF StoppedMeansDurable
<1>2. CASE WriteFailed /\ UNCHANGED open
  <2>1. /\ Accounted' /\ Queued' = {} /\ queue' = <<>>
        /\ tx' \subseteq Reports /\ db' = db /\ discarded' \subseteq Reports
        /\ faults' \in 0..MaxFaults
    BY <1>2, WriteFailedAccounts DEF DrainAndClose
  <2> QED
    BY <1>0, <1>2, <2>1, AuditAssumption DEF DrainAndClose, AuditTypeOK, StoppedMeansDurable
<1>3. CASE /\ queue = <<>> /\ tx' = {} /\ open' = FALSE /\ UNCHANGED queue
           /\ \/ db' = db \cup tx /\ UNCHANGED <<discarded, faults>>
              \/ tx # {} /\ Fault /\ discarded' = discarded \cup tx /\ UNCHANGED db
  <2>1. Queued = {} /\ Queued' = {}
    BY <1>3 DEF Queued
  <2>2. faults' \in 0..MaxFaults
    BY <1>3, AuditAssumption DEF Fault, AuditTypeOK
  <2>3. AuditTypeOK'
    BY <1>0, <1>3, <2>2 DEF DrainAndClose, AuditTypeOK
  <2> QED
    BY <1>0, <1>3, <2>1, <2>3 DEF DrainAndClose, StoppedMeansDurable, Accounted
<1> QED
  BY <1>1, <1>2, <1>3 DEF DrainAndClose

LEMMA NextIInv == AuditInvariant /\ [AuditNext]_auditVars => AuditInvariant'
<1> SUFFICES ASSUME AuditInvariant, [AuditNext]_auditVars PROVE AuditInvariant'
  OBVIOUS
<1> USE DEF AuditInvariant
<1>1. ASSUME NEW r \in Reports, LogReport(r) PROVE AuditInvariant'
  <2>1. Queued' = Queued \cup {r}
    BY <1>1, QueuedAppend DEF LogReport, AuditTypeOK
  <2>2. AuditTypeOK'
    <3>1. queue' \in Seq(Reports) /\ Len(queue') <= MaxQueue
      BY <1>1, AuditAssumption DEF LogReport, AuditTypeOK
    <3> QED
      BY <1>1, <3>1 DEF LogReport, AuditTypeOK
  <2> QED
    BY <1>1, <2>1, <2>2 DEF LogReport, OneWorker, StopInProgress, StoppedMeansDurable, Accounted
<1>2. CASE WorkerFlush
  BY <1>2, FlushBodyIInv DEF WorkerFlush, AuditTypeOK
<1>3. ASSUME NEW c \in Callers, Call(c) \/ Skip(c) PROVE AuditInvariant'
  BY <1>3 DEF Call, Skip, Return, history, AuditTypeOK, OneWorker, StopInProgress,
              StoppedMeansDurable, Accounted, Queued
<1>4. ASSUME NEW c \in Callers, Start(c) PROVE AuditInvariant'
  <2>1. ~running /\ loops = 0 /\ lock = NoHolder
    BY <1>4 DEF Start, Locking, NothingToDo, OneWorker, AuditTypeOK
  <2>2. Queued' = Queued
    BY <1>4 DEF Start, Queued
  <2>3. AuditTypeOK'
    BY <1>4, <2>1 DEF Start, Return, AuditTypeOK
  <2> QED
    BY <1>4, <2>1, <2>2, <2>3 DEF Start, OneWorker, StopInProgress, StoppedMeansDurable, Accounted
<1>5. ASSUME NEW c \in Callers, Flush(c) PROVE AuditInvariant'
  BY <1>5, FlushBodyIInv DEF Flush, Return, AuditTypeOK
<1>6. ASSUME NEW c \in Callers, BeginStop(c) PROVE AuditInvariant'
  <2>1. loops = 1 /\ running /\ open
    BY <1>6 DEF BeginStop, Locking, OneWorker, AuditTypeOK
  <2> QED
    BY <1>6, <2>1, AuditAssumption
    DEF BeginStop, history, AuditTypeOK, OneWorker, StopInProgress, StoppedMeansDurable,
        Accounted, Queued
<1>7. ASSUME NEW c \in Callers, FinishStop(c) PROVE AuditInvariant'
  <2>1. lock # NoHolder
    BY <1>7, AuditAssumption DEF FinishStop
  <2>2. loops = 1 /\ ~running /\ open
    BY <2>1 DEF StopInProgress
  <2>3. loops' = 0 /\ ~running' /\ lock' = NoHolder
    BY <1>7, <2>2 DEF FinishStop
  <2> QED
    BY <1>7, <2>2, <2>3, DrainAndCloseIInv DEF FinishStop, Return, AuditTypeOK
<1>8. ASSUME NEW c \in Callers, StopAgain(c) PROVE AuditInvariant'
  <2>1. open
    BY <1>8 DEF StopAgain, Locking, NothingToDo, OneWorker, AuditTypeOK
  <2> QED
    BY <1>8, <2>1, DrainAndCloseIInv DEF StopAgain, Locking, Return, AuditTypeOK
<1>9. CASE Crash
  <2>1. Queued' = {}
    BY <1>9, QueuedEmpty DEF Crash
  <2>2. Queued \subseteq Reports
    BY QueuedType DEF AuditTypeOK
  <2>3. faults' \in 0..MaxFaults
    BY <1>9, AuditAssumption DEF Crash, Fault, AuditTypeOK
  <2>4. AuditTypeOK'
    BY <1>9, <2>2, <2>3, EmptyQueueType, IdleType DEF Crash, AuditTypeOK
  <2> QED
    BY <1>9, <2>1, <2>4 DEF Crash, OneWorker, StopInProgress, StoppedMeansDurable, Accounted
<1>10. CASE UNCHANGED auditVars
  BY <1>10 DEF auditVars, volatile, history, AuditTypeOK, OneWorker, StopInProgress,
               StoppedMeansDurable, Accounted, Queued
<1> QED
  BY <1>1, <1>2, <1>3, <1>4, <1>5, <1>6, <1>7, <1>8, <1>9, <1>10 DEF AuditNext

LEMMA AlwaysIInv == AuditSpec => []AuditInvariant
BY InitIInv, NextIInv, PTL DEF AuditSpec

(* log_report never exceeds the bound of the queue, and nothing it accepts *)
(* disappears except through a database failure or a crash.                *)
THEOREM NoSilentLoss == AuditSpec => [](AuditTypeOK /\ Accounted)
<1>1. AuditInvariant => AuditTypeOK /\ Accounted
  BY DEF AuditInvariant
<1> QED
  BY <1>1, AlwaysIInv, PTL

(* A closed logger has written everything it was handed while it was open, *)
(* whatever start, stop, flush and the background task interleave.         *)
THEOREM StopDrains == AuditSpec => []StoppedMeansDurable
<1>1. AuditInvariant => StoppedMeansDurable
  BY DEF AuditInvariant
<1> QED
  BY <1>1, AlwaysIInv, PTL

(* Racing calls of start and stop never leave two background tasks, and    *)
(* never a running logger without one.                                     *)
THEOREM SingleWorker == AuditSpec => []OneWorker
<1>1. AuditInvariant => OneWorker
  BY DEF AuditInvariant
<1> QED
  BY <1>1, AlwaysIInv, PTL

(* Together: the trail is complete, durable and written by one task, for   *)
(* any callers, any queue size and any failures.                           *)
THEOREM TrailIsSound == AuditSpec => []TrailSound
<1>1. AuditTypeOK /\ Accounted /\ StoppedMeansDurable /\ OneWorker => TrailSound
  BY DEF TrailSound
<1> QED
  BY <1>1, NoSilentLoss, StopDrains, SingleWorker, PTL
=============================================================================

-------------------------- MODULE ExecutionService --------------------------
(***************************************************************************)
(* ExecutionService (services/execution_service.py): submission of parent  *)
(* orders, the task that works their slices off, and cancellation, on one  *)
(* asyncio loop.                                                           *)
(*                                                                         *)
(* The task awaits the sleep before a slice, the gateway's connect and the *)
(* routed order; an action is the code between two awaits.  A slice list is*)
(* any list that Schedules can produce for the order.  The venue's answer  *)
(* to a slice is the list of fills it reports.                             *)
(***************************************************************************)
EXTENDS Integers, Sequences, FiniteSetsExt

CONSTANTS
  Clients,        \* parent orders
  Lots,           \* the size of each
  MaxSlices,      \* bound: slices of a schedule
  MaxServiceFaults  \* bound: failures, kills, disconnections, expiries

ASSUME ServiceAssumption ==
  {Lots, MaxSlices} \subseteq Nat \ {0} /\ MaxServiceFaults \in Nat

VARIABLES
  stage,       \* each task: none, queued, sleeping, connecting, routing, done
  agenda,      \* its slices, the current one first
  recorded,    \* filled_quantity
  flagged,     \* _cancelled_orders
  panicked,    \* the kill switch is thrown
  online,      \* the gateway is connected
  expired,     \* parents whose horizon is over
  working      \* lots left working at the venue by an accepted slice

(* History.                                                                *)
VARIABLES
  granted,     \* lots whose slice has passed the checks
  venueTraded,      \* lots the venue executed
  announced,   \* the closing event of each task
  crashed,     \* tasks ended by an exception
  damaged,     \* parents with executions that their book could not see
  serviceFaults

serviceHistory == <<granted, venueTraded, announced, crashed, damaged, serviceFaults>>
serviceVars == <<stage, agenda, recorded, flagged, panicked, online, expired, working, serviceHistory>>

ServiceInit ==
  /\ stage = [p \in Clients |-> "none"]
  /\ agenda = [p \in Clients |-> <<>>]
  /\ recorded = [p \in Clients |-> 0]
  /\ flagged = {} /\ panicked = FALSE /\ online = FALSE /\ expired = {}
  /\ working = [p \in Clients |-> 0]
  /\ granted = [p \in Clients |-> 0]
  /\ venueTraded = [p \in Clients |-> 0]
  /\ announced = [p \in Clients |-> "none"]
  /\ crashed = {} /\ damaged = {} /\ serviceFaults = 0

-----------------------------------------------------------------------------
ServiceFault == serviceFaults < MaxServiceFaults /\ serviceFaults' = serviceFaults + 1

(* c runs through the totals of a slice list, from what went before it.    *)
RunsThrough(c, list) == \A i \in 1..Len(list) : c[i] = c[i - 1] + list[i]

(* The schedules of an order: slices of at least a lot that together do    *)
(* not exceed it.                                                          *)
SliceLists ==
  {list \in UNION {[1..n -> 1..Lots] : n \in 1..MaxSlices} :
     \E c \in [0..Len(list) -> 0..Lots] : c[0] = 0 /\ RunsThrough(c, list)}

Halted(p) == p \in flagged \/ panicked

(* The task ends: the order listeners hear COMPLETED or UPDATED.           *)
EndTask(p, filled) ==
  /\ stage' = [stage EXCEPT ![p] = "done"]
  /\ agenda' = [agenda EXCEPT ![p] = <<>>]
  /\ announced' = [announced EXCEPT ![p] = IF filled = Lots THEN "COMPLETED" ELSE "UPDATED"]
  /\ UNCHANGED granted

(* Faulty variant: the flags are not looked at again after the sleep.      *)
LaunchUnchecked(p, filled, list) ==
  IF p \in expired THEN EndTask(p, filled)
  ELSE /\ stage' = [stage EXCEPT ![p] = IF online THEN "routing" ELSE "connecting"]
       /\ agenda' = [agenda EXCEPT ![p] = list]
       /\ granted' = [granted EXCEPT ![p] = @ + Head(list)]
       /\ UNCHANGED announced

(* After the sleep: horizon, flags, then connect or route.                 *)
Launch(p, filled, list) ==
  IF p \in expired \/ Halted(p) THEN EndTask(p, filled)
  ELSE /\ stage' = [stage EXCEPT ![p] = IF online THEN "routing" ELSE "connecting"]
       /\ agenda' = [agenda EXCEPT ![p] = list]
       /\ granted' = [granted EXCEPT ![p] = @ + Head(list)]
       /\ UNCHANGED announced

(* From the head of the loop to the next await.  A slice that is due is not*)
(* slept for.                                                              *)
HeadOfLoop(p, filled, list) ==
  IF list = <<>> \/ Halted(p) \/ filled = Lots THEN EndTask(p, filled)
  ELSE \/ Launch(p, filled, list)
       \/ /\ stage' = [stage EXCEPT ![p] = "sleeping"]
          /\ agenda' = [agenda EXCEPT ![p] = list]
          /\ UNCHANGED <<granted, announced>>

-----------------------------------------------------------------------------
(* submit_parent_order refuses under a kill; submit_parent_order_sync does *)
(* not look, its loop does.                                                *)
Submit(p, list, sync) ==
  /\ stage[p] = "none"
  /\ sync \/ ~panicked
  /\ stage' = [stage EXCEPT ![p] = "queued"]
  /\ agenda' = [agenda EXCEPT ![p] = list]
  /\ UNCHANGED <<recorded, flagged, panicked, online, expired, working, serviceHistory>>

TaskStarts(p) ==
  /\ stage[p] = "queued"
  /\ HeadOfLoop(p, recorded[p], agenda[p])
  /\ UNCHANGED <<recorded, flagged, panicked, online, expired, working, venueTraded, crashed,
                 damaged, serviceFaults>>

(* Faulty variant: an expired order is not taken off the loop.             *)
WakesUnexpired(p) ==
  /\ stage[p] = "sleeping" /\ p \notin expired
  /\ Launch(p, recorded[p], agenda[p])
  /\ UNCHANGED <<recorded, flagged, panicked, online, expired, working, venueTraded, crashed,
                 damaged, serviceFaults>>

Wakes(p) ==
  /\ stage[p] = "sleeping"
  /\ Launch(p, recorded[p], agenda[p])
  /\ UNCHANGED <<recorded, flagged, panicked, online, expired, working, venueTraded, crashed,
                 damaged, serviceFaults>>

(* Faulty variant: the switch is not looked at again after connect.        *)
ConnectsUnchecked(p) ==
  /\ stage[p] = "connecting"
  /\ online' = TRUE
  /\ stage' = [stage EXCEPT ![p] = "routing"]
  /\ UNCHANGED <<agenda, granted, announced>>
  /\ UNCHANGED <<recorded, flagged, panicked, expired, working, venueTraded, crashed,
                 damaged, serviceFaults>>

(* Connected: route_order refuses under a kill, and the loop goes on.      *)
Connects(p) ==
  /\ stage[p] = "connecting"
  /\ online' = TRUE
  /\ IF panicked
     THEN HeadOfLoop(p, recorded[p], Tail(agenda[p]))
     ELSE stage' = [stage EXCEPT ![p] = "routing"] /\ UNCHANGED <<agenda, granted, announced>>
  /\ UNCHANGED <<recorded, flagged, panicked, expired, working, venueTraded, crashed,
                 damaged, serviceFaults>>

(* connect raises outside the try: the task is gone without an event.      *)
ConnectFails(p) ==
  /\ stage[p] = "connecting"
  /\ ServiceFault
  /\ stage' = [stage EXCEPT ![p] = "done"]
  /\ agenda' = [agenda EXCEPT ![p] = <<>>]
  /\ crashed' = crashed \cup {p}
  /\ UNCHANGED <<recorded, flagged, panicked, online, expired, working, granted, venueTraded,
                 announced, damaged>>

-----------------------------------------------------------------------------
(* The lots of the first n of a slice's reports, of which there are at most*)
(* two (Answers).                                                          *)
LotsReported(fills, n) == (IF n > 0 THEN fills[1] ELSE 0) + (IF n > 1 THEN fills[2] ELSE 0)

(* The reports of a slice are recorded one by one until record_child_fill  *)
(* refuses one (INV-SOR-001), or the audit queue is full after one.        *)
SliceAccepted(p, fills) ==
  CHOOSE n \in 0..Len(fills) :
    /\ recorded[p] + LotsReported(fills, n) <= Lots
    /\ n < Len(fills) => recorded[p] + LotsReported(fills, n + 1) > Lots

(* The reports arrive.  cutAt is the report after which log_report raised. *)
(* More lots than the slice had come from a router that executed twice.    *)
SliceAnswered(p, fills, cutAt) ==
  LET seen == Min({SliceAccepted(p, fills), cutAt})
      filled == recorded[p] + LotsReported(fills, seen)
  IN  /\ stage[p] = "routing"
      /\ IF cutAt < Len(fills) \/ LotsReported(fills, Len(fills)) > Head(agenda[p])
         THEN ServiceFault ELSE UNCHANGED serviceFaults
      /\ recorded' = [recorded EXCEPT ![p] = filled]
      /\ venueTraded' = [venueTraded EXCEPT ![p] = @ + LotsReported(fills, Len(fills))]
      /\ damaged' = IF seen < Len(fills) THEN damaged \cup {p} ELSE damaged
      /\ HeadOfLoop(p, filled, Tail(agenda[p]))
      /\ UNCHANGED <<flagged, panicked, online, expired, working, crashed>>

(* The venue accepted the slice and it works on; nobody listens to it.     *)
SliceRests(p) ==
  /\ stage[p] = "routing"
  /\ working' = [working EXCEPT ![p] = @ + Head(agenda[p])]
  /\ HeadOfLoop(p, recorded[p], Tail(agenda[p]))
  /\ UNCHANGED <<recorded, flagged, panicked, online, expired, venueTraded, crashed, damaged,
                 serviceFaults>>

WorkingFills(p) ==
  /\ working[p] > 0
  /\ venueTraded' = [venueTraded EXCEPT ![p] = @ + working[p]]
  /\ working' = [working EXCEPT ![p] = 0]
  /\ damaged' = damaged \cup {p}
  /\ UNCHANGED <<stage, agenda, recorded, flagged, panicked, online, expired, granted,
                 announced, crashed, serviceFaults>>

(* route_order raises: refused, or failed after some lots were executed.   *)
RoutingFails(p, done) ==
  /\ stage[p] = "routing"
  /\ ServiceFault
  /\ venueTraded' = [venueTraded EXCEPT ![p] = @ + done]
  /\ damaged' = IF done > 0 THEN damaged \cup {p} ELSE damaged
  /\ HeadOfLoop(p, recorded[p], Tail(agenda[p]))
  /\ UNCHANGED <<recorded, flagged, panicked, online, expired, working, crashed>>

-----------------------------------------------------------------------------
(* cancel_order only raises a flag; it does so for any order that is not   *)
(* completed, its task ended or not.                                       *)
CancelOrder(p) ==
  /\ stage[p] # "none" /\ recorded[p] < Lots /\ p \notin flagged
  /\ flagged' = flagged \cup {p}
  /\ UNCHANGED <<stage, agenda, recorded, panicked, online, expired, working, serviceHistory>>

Expire(p) ==
  /\ stage[p] \in {"sleeping", "connecting", "routing"} /\ p \notin expired
  /\ expired' = expired \cup {p}
  /\ UNCHANGED <<stage, agenda, recorded, flagged, panicked, online, working, serviceHistory>>

SetPanicked(k) ==
  /\ ServiceFault
  /\ panicked # k
  /\ panicked' = k
  /\ UNCHANGED <<stage, agenda, recorded, flagged, online, expired, working,
                 granted, venueTraded, announced, crashed, damaged>>

LoseGateway ==
  /\ ServiceFault
  /\ online /\ online' = FALSE
  /\ UNCHANGED <<stage, agenda, recorded, flagged, panicked, expired, working,
                 granted, venueTraded, announced, crashed, damaged>>

-----------------------------------------------------------------------------
(* The fills of an answer: one report, two (dark and lit), or none.        *)
Answers(q) == {<<>>} \cup {<<a>> : a \in 1..(q + 1)} \cup {<<a, q - a>> : a \in 1..(q - 1)} \cup {<<1, q>>}

ServiceNext ==
  \E p \in Clients :
    \/ \E list \in SliceLists, sync \in BOOLEAN : Submit(p, list, sync)
    \/ TaskStarts(p) \/ Wakes(p) \/ Connects(p) \/ ConnectFails(p)
    \/ /\ stage[p] = "routing"
       /\ \/ \E fills \in Answers(Head(agenda[p])) : \E cutAt \in 1..Max({1, Len(fills)}) : SliceAnswered(p, fills, cutAt)
          \/ \E done \in 0..Head(agenda[p]) : RoutingFails(p, done)
    \/ SliceRests(p) \/ WorkingFills(p)
    \/ CancelOrder(p) \/ Expire(p)
    \/ \E k \in BOOLEAN : SetPanicked(k)
    \/ LoseGateway

(* The event loop runs every ready task; sleeps, connects and routed orders*)
(* return.                                                                 *)
TaskProgress(p) ==
  \/ TaskStarts(p) \/ Wakes(p) \/ Connects(p) \/ SliceRests(p)
  \/ /\ stage[p] = "routing"
     /\ \E fills \in Answers(Head(agenda[p])) : SliceAnswered(p, fills, Max({1, Len(fills)}))

ServiceFairness == \A p \in Clients : WF_serviceVars(TaskProgress(p))

ServiceSpec == ServiceInit /\ [][ServiceNext]_serviceVars /\ ServiceFairness

-----------------------------------------------------------------------------
ServiceTypeOK ==
  /\ stage \in [Clients -> {"none", "queued", "sleeping", "connecting", "routing", "done"}]
  /\ \A p \in Clients : agenda[p] \in Seq(1..Lots) /\ Len(agenda[p]) <= MaxSlices
  /\ \A p \in Clients : stage[p] \in {"sleeping", "connecting", "routing"} => agenda[p] # <<>>
  /\ recorded \in [Clients -> 0..Lots] /\ granted \in [Clients -> 0..Lots]
  /\ flagged \subseteq Clients /\ expired \subseteq Clients
  /\ {panicked, online} \subseteq BOOLEAN
  /\ announced \in [Clients -> {"none", "COMPLETED", "UPDATED"}]

(* The book of a parent is what its venue executed, unless reports were    *)
(* dropped behind an exception or a slice executed after its answer.       *)
BookFollowsVenue ==
  \A p \in Clients :
    /\ recorded[p] <= venueTraded[p]
    /\ p \notin damaged => recorded[p] = venueTraded[p]

(* A parent that was told COMPLETED is full, and every task that was not   *)
(* killed by an exception has told how it ended.                           *)
EndIsAnnounced ==
  \A p \in Clients : stage[p] = "done" =>
    /\ announced[p] = "none" <=> p \in crashed
    /\ announced[p] = "COMPLETED" <=> p \notin crashed /\ recorded[p] = Lots

(* INV-LIVE-002 seen from the service: no slice leaves under a kill.       *)
NoSliceUnderKill ==
  [][\A p \in Clients : stage[p] # "routing" /\ stage'[p] = "routing" => ~panicked]_serviceVars

(* A parent's book follows its venue, its end is announced, and no slice   *)
(* leaves under a kill, but for the exceptions the parts name.             *)
ServiceKeepsBooks ==
  /\ []ServiceTypeOK
  /\ []BookFollowsVenue
  /\ []EndIsAnnounced
  /\ NoSliceUnderKill

(* The client's view: the order's mode as the contract has it.             *)
orderMode ==
  [p \in Clients |->
     CASE stage[p] = "none" -> "new"
       [] stage[p] = "done" -> "ended"
       [] stage[p] \notin {"none", "done"} /\ p \in flagged -> "halted"
       [] OTHER -> "open"]

Contract == INSTANCE ParentContract WITH
  Surplus <- MaxServiceFaults, committed <- granted, booked <- recorded, mode <- orderMode

(* The service implements the contract.                                    *)
ImplementsContract == Contract!CSpec

(* Every task ends.                                                        *)
TasksEnd == \A p \in Clients : stage[p] = "queued" ~> stage[p] = "done"
=============================================================================

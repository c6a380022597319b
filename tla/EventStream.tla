----------------------------- MODULE EventStream -----------------------------
(***************************************************************************)
(* One client of the websockets /ws/orders and /ws/risk                    *)
(* (api/v1/endpoints/streaming.py, web/src/api/useWebSocket.ts), with the  *)
(* listeners of ExecutionService and RiskService that feed it.             *)
(*                                                                         *)
(* The server reads a snapshot, awaits its sending, and only then registers*)
(* its listeners.  Messages go into a bounded queue: a full queue drops    *)
(* them, while the answer to a PING waits for room.  The risk stream also  *)
(* queues its whole state every second.  A reader, a writer and the ticker *)
(* are tasks; the first exception ends them all.                           *)
(*                                                                         *)
(* An order, or the risk state, is a number of changes; what the client    *)
(* holds is the set of the changes it was told of.  Change 1 of an order is*)
(* its creation, the others its fills.                                     *)
(***************************************************************************)
EXTENDS Integers, SequencesExt, FiniteSetsExt

CONSTANTS
  MaxItems,     \* orders; the risk stream has one item
  SnapLimit,    \* orders in the snapshot (50)
  QueueSize,    \* maxsize (1000)
  MaxChanges,   \* order i is complete with so many; bound for the risk state
  MaxPings      \* bound: PINGs

ASSUME StreamAssumption ==
  /\ {MaxItems, SnapLimit, QueueSize} \subseteq Nat \ {0} /\ MaxPings \in Nat
  /\ MaxChanges \in [1..MaxItems -> Nat \ {0}]

VARIABLES
  stream,      \* "orders" or "risk"
  version,     \* each item's changes at the server; 0: not there yet
  finish,      \* each order's slicing task: open, or ended with its last
               \* ORDER_UPDATE told or untold (see Announced)
  serving,     \* none, accepted, snapshot, streaming, raised, ended
  listening,   \* the listeners are registered
  outbox,      \* the queue
  socket,      \* what the writer is sending: a sequence of at most one
  ponging,     \* the reader awaits room for a PONG
  client,      \* there; garbled: its next frame is no JSON text; or gone
  view         \* the changes of each item that the client knows

(* History.                                                                *)
VARIABLES
  pings,
  missed,      \* the changes of each item the client was not told of, so far:
               \* beyond the snapshot, between it and the registration, on a
               \* full queue, or fills of an order it does not know
  shown        \* the snapshot under way

clientVars == <<ponging, client, pings, shown>>
streamVars == <<stream, version, finish, serving, listening, outbox, socket, view, missed, clientVars>>

Items == IF stream = "risk" THEN {1} ELSE 1..MaxItems
Orders == IF stream = "orders" THEN 1..MaxItems ELSE {}
PONG == [item |-> 0, kind |-> "pong", version |-> 0]

(* ORDER_UPDATE, KILL_SWITCH_EVENT and RISK_UPDATE carry the whole state,  *)
(* CHILD_FILL only the fill.                                               *)
Update(i, v) == [item |-> i, kind |-> "update", version |-> v]
ChildFill(i, v) == [item |-> i, kind |-> "fill", version |-> v]
Created(vs) == Cardinality({i \in 1..MaxItems : vs[i] > 0})

StreamInit ==
  /\ stream \in {"orders", "risk"}
  /\ version = [i \in 1..MaxItems |-> 0] /\ finish = [i \in 1..MaxItems |-> "open"]
  /\ serving = "none" /\ listening = FALSE /\ outbox = <<>> /\ socket = <<>>
  /\ ponging = FALSE /\ client = "there"
  /\ view = [i \in 1..MaxItems |-> {}]
  /\ pings = 0 /\ missed = view /\ shown = version

-----------------------------------------------------------------------------
(* list_orders: the newest SnapLimit orders.  get_risk_status: everything. *)
InSnapshot(i) == stream = "risk" \/ i > Created(version) - SnapLimit

(* A client opens its socket, at any time.                                 *)
Accept ==
  /\ serving = "none"
  /\ serving' = "accepted"
  /\ UNCHANGED <<stream, version, finish, listening, outbox, socket, view, missed, clientVars>>

ReadSnapshot ==
  /\ serving = "accepted"
  /\ serving' = "snapshot"
  /\ shown' = [i \in 1..MaxItems |-> IF InSnapshot(i) THEN version[i] ELSE 0]
  /\ missed' = [i \in 1..MaxItems |-> IF InSnapshot(i) THEN {} ELSE 1..version[i]]
  /\ UNCHANGED <<stream, version, finish, listening, outbox, socket, view, ponging, client,
                 pings>>

SnapshotSent ==
  /\ serving = "snapshot" /\ client # "gone"
  /\ serving' = "streaming"
  /\ view' = [i \in 1..MaxItems |-> 1..shown[i]]
  /\ shown' = [i \in 1..MaxItems |-> 0]
  /\ listening' = TRUE
  /\ UNCHANGED <<stream, version, finish, outbox, socket, missed, ponging, client, pings>>

SnapshotFails ==
  /\ serving = "snapshot" /\ client = "gone"
  /\ serving' = "ended"
  /\ UNCHANGED <<stream, version, finish, listening, outbox, socket, view, missed, clientVars>>

-----------------------------------------------------------------------------
(* Faulty variant: the oldest message makes room.                          *)
EnqueuedOldestDropped(q, msg) ==
  IF Len(q) < QueueSize THEN Append(q, msg) ELSE <<msg>> \o Tail(q)

(* put_nowait with QueueFull suppressed.                                   *)
Enqueued(q, msg) == IF Len(q) < QueueSize THEN Append(q, msg) ELSE q

Room == listening /\ Len(outbox) < QueueSize

(* A listener is called, or the ticker writes: the message joins the queue *)
(* if there is room, and says all of item i, or is lost with the changes   *)
(* gone, for a client that has its snapshot.                               *)
Announced(i, v) ==
  /\ version' = [version EXCEPT ![i] = v]
  /\ outbox' = IF listening THEN Enqueued(outbox, Update(i, v)) ELSE outbox
  /\ missed' = IF Room THEN [missed EXCEPT ![i] = {}]
               ELSE IF serving \in {"snapshot", "streaming"}
                    THEN [missed EXCEPT ![i] = @ \cup ((version[i] + 1)..v)]
               ELSE missed

(* submit_parent_order: CREATED.                                           *)
Submitted(i) ==
  /\ i \in Orders /\ version[i] = 0
  /\ \A j \in 1..(i - 1) : version[j] > 0
  /\ Announced(i, 1)
  /\ UNCHANGED <<stream, finish, serving, listening, socket, view, clientVars>>

(* _execute_slices_async records a fill and calls the fill listeners only: *)
(* the client adds it to an order it knows.                                *)
Filled(i) ==
  /\ i \in Orders /\ version[i] \in 1..(MaxChanges[i] - 1) /\ finish[i] = "open"
  /\ LET v == version[i] + 1
         told == Room /\ 1 \notin missed[i]
     IN  /\ version' = [version EXCEPT ![i] = v]
         /\ outbox' = IF listening THEN Enqueued(outbox, ChildFill(i, v)) ELSE outbox
         /\ missed' = IF serving \in {"snapshot", "streaming"} /\ ~told
                      THEN [missed EXCEPT ![i] = @ \cup {v}] ELSE missed
  /\ UNCHANGED <<stream, finish, serving, listening, socket, view, clientVars>>

(* cancel_order: CANCELLED, again at every call, until the order is        *)
(* complete; fills of a slice under way may follow.                        *)
Cancelled(i) ==
  /\ i \in Orders /\ version[i] \in 1..(MaxChanges[i] - 1)
  /\ Announced(i, version[i])
  /\ UNCHANGED <<stream, finish, serving, listening, socket, view, clientVars>>

(* The end of _execute_slices_async: COMPLETED or UPDATED.                 *)
SlicesEnd(i) ==
  /\ i \in Orders /\ version[i] > 0 /\ finish[i] = "open"
  /\ finish' = [finish EXCEPT ![i] = IF Room THEN "told" ELSE "untold"]
  /\ Announced(i, version[i])
  /\ UNCHANGED <<stream, serving, listening, socket, view, clientVars>>

(* An operator resets the kill switch through RiskService.                 *)
SwitchReset ==
  /\ stream = "risk" /\ version[1] < MaxChanges[1]
  /\ Announced(1, version[1] + 1)
  /\ UNCHANGED <<stream, finish, serving, listening, socket, view, clientVars>>

(* A fill, a tick or a panic changes the risk state: RiskService's         *)
(* listeners hear nothing.                                                 *)
ChangeUnheard ==
  /\ stream = "risk" /\ version[1] < MaxChanges[1]
  /\ version' = [version EXCEPT ![1] = @ + 1]
  /\ missed' = IF serving \in {"snapshot", "streaming"}
               THEN [missed EXCEPT ![1] = @ \cup {version[1] + 1}] ELSE missed
  /\ UNCHANGED <<stream, finish, serving, listening, outbox, socket, view, clientVars>>

(* RiskService.trigger_panic, once the sweep it awaits is over, calls the  *)
(* listeners with the state as it is by then.                              *)
PanicAnnounced ==
  /\ stream = "risk" /\ listening
  /\ Announced(1, version[1])
  /\ UNCHANGED <<stream, finish, serving, listening, socket, view, clientVars>>

(* Faulty variant: the ticker repeats the state the client has.            *)
TelemetryTickStale ==
  /\ stream = "risk" /\ serving = "streaming"
  /\ outbox' = Enqueued(outbox, Update(1, Cardinality(view[1])))
  /\ missed' = IF Room THEN [missed EXCEPT ![1] = {}] ELSE missed
  /\ UNCHANGED <<stream, version, finish, serving, listening, socket, view, clientVars>>

(* telemetry_ticker.                                                       *)
TelemetryTick ==
  /\ stream = "risk" /\ serving = "streaming"
  /\ Announced(1, version[1])
  /\ UNCHANGED <<stream, finish, serving, listening, socket, view, clientVars>>

-----------------------------------------------------------------------------
(* The reader: a PING, the room for its answer.                            *)
Ping ==
  /\ serving = "streaming" /\ ~ponging /\ client = "there"
  /\ pings < MaxPings /\ pings' = pings + 1
  /\ ponging' = TRUE
  /\ UNCHANGED <<stream, version, finish, serving, listening, outbox, socket, view, missed,
                 client, shown>>

Pong ==
  /\ serving = "streaming" /\ ponging
  /\ Len(outbox) < QueueSize
  /\ outbox' = Append(outbox, PONG)
  /\ ponging' = FALSE
  /\ UNCHANGED <<stream, version, finish, serving, listening, socket, view, missed, client,
                 pings, shown>>

ClientLeaves ==
  /\ client # "gone" /\ serving \notin {"none", "ended"}
  /\ client' = "gone"
  /\ UNCHANGED <<stream, version, finish, serving, listening, outbox, socket, view, missed,
                 ponging, pings, shown>>

ClientGarbles ==
  /\ client = "there" /\ serving \notin {"none", "ended"}
  /\ client' = "garbled"
  /\ UNCHANGED <<stream, version, finish, serving, listening, outbox, socket, view, missed,
                 ponging, pings, shown>>

(* receive_json raises WebSocketDisconnect, or JSONDecodeError or KeyError *)
(* for the frame of a client that stays; the reader notices neither while  *)
(* it is waiting for room.                                                 *)
ReaderRaises ==
  /\ serving = "streaming" /\ client # "there" /\ ~ponging
  /\ serving' = "raised"
  /\ UNCHANGED <<stream, version, finish, listening, outbox, socket, view, missed, clientVars>>

-----------------------------------------------------------------------------
(* The writer.                                                             *)
WriterTakes ==
  /\ serving = "streaming"
  /\ socket = <<>> /\ outbox # <<>>
  /\ socket' = <<Head(outbox)>> /\ outbox' = Tail(outbox)
  /\ UNCHANGED <<stream, version, finish, serving, listening, view, missed, clientVars>>

(* What the client makes of a message: a state replaces what it has, a fill*)
(* joins an order it knows.                                                *)
Learned(known, msg) ==
  IF msg.kind = "update" THEN 1..msg.version
  ELSE IF 1 \in known THEN known \cup {msg.version} ELSE known

Delivered(msg) ==
  IF msg = PONG THEN view ELSE [view EXCEPT ![msg.item] = Learned(@, msg)]

WriterSends ==
  /\ serving = "streaming" /\ client # "gone"
  /\ socket # <<>>
  /\ view' = Delivered(Head(socket))
  /\ socket' = <<>>
  /\ UNCHANGED <<stream, version, finish, serving, listening, outbox, missed, clientVars>>

WriterRaises ==
  /\ serving = "streaming" /\ client = "gone"
  /\ socket # <<>>
  /\ serving' = "raised"
  /\ UNCHANGED <<stream, version, finish, listening, outbox, socket, view, missed, clientVars>>

(* asyncio.wait returns on the first exception: the tasks are cancelled,   *)
(* the listeners are removed.                                              *)
StreamEnds ==
  /\ serving = "raised"
  /\ serving' = "ended"
  /\ listening' = FALSE
  /\ outbox' = <<>> /\ socket' = <<>> /\ ponging' = FALSE
  /\ missed' = [i \in 1..MaxItems |-> {}]
  /\ UNCHANGED <<stream, version, finish, view, client, pings, shown>>

-----------------------------------------------------------------------------
StreamNext ==
  \/ Accept \/ ReadSnapshot \/ SnapshotSent \/ SnapshotFails
  \/ /\ serving # "ended"    \* bound: the server goes on, but for nobody here
     /\ \/ \E i \in Orders : Submitted(i) \/ Filled(i) \/ Cancelled(i) \/ SlicesEnd(i)
        \/ SwitchReset \/ ChangeUnheard
  \/ PanicAnnounced \/ TelemetryTick
  \/ Ping \/ Pong \/ ClientLeaves \/ ClientGarbles \/ ReaderRaises
  \/ WriterTakes \/ WriterSends \/ WriterRaises \/ StreamEnds

(* Each task runs when it can, the network takes what is sent.  Room comes *)
(* and goes, but the ticker and the listeners do not refill the queue      *)
(* before every turn of a reader that was woken for room.                  *)
StreamFairness ==
  /\ WF_streamVars(ReadSnapshot) /\ WF_streamVars(SnapshotSent) /\ WF_streamVars(SnapshotFails)
  /\ SF_streamVars(Pong) /\ WF_streamVars(TelemetryTick)
  /\ WF_streamVars(ReaderRaises) /\ WF_streamVars(WriterTakes)
  /\ WF_streamVars(WriterSends) /\ WF_streamVars(WriterRaises) /\ WF_streamVars(StreamEnds)

StreamSpec == StreamInit /\ [][StreamNext]_streamVars /\ StreamFairness

-----------------------------------------------------------------------------
(* A client with nothing left to receive knows of every item exactly the   *)
(* changes but those beyond the snapshot, between the snapshot and the     *)
(* registration, met by a full queue or no listener, and the fills of an   *)
(* order it does not know; a later ORDER_UPDATE or risk message makes up   *)
(* for all of them, a later fill for none.                                 *)
StreamCatchesUp ==
  serving = "streaming" /\ outbox = <<>> /\ socket = <<>> =>
    \A i \in Items : view[i] = (1..version[i]) \ missed[i]

(* What the client is told is never taken back: snapshot first, then fills *)
(* and states in the order of the changes.                                 *)
NeverToldBackwards ==
  serving = "streaming" => \A i \in 1..MaxItems : view[i] \subseteq view'[i]

(* What a client is told is in order and, after every step and but for the *)
(* changes the first part names, complete (no client has anything at first)*)
StreamHonest == [][StreamCatchesUp' /\ NeverToldBackwards]_streamVars

(* The risk stream repairs itself: whatever was missed, a client that stays*)
(* and sends nothing but JSON is in the end told the state the system      *)
(* settles in.                                                             *)
RiskStreamSettles ==
  stream = "risk" => <>[](serving = "none" \/ client # "there" \/ view[1] = 1..version[1])

(* The order stream does only for the orders whose end met room in the     *)
(* queue: whatever fills such a client missed, it has them in the end.     *)
EndedOrdersSettle ==
  \A i \in 1..MaxItems : finish[i] = "told" ~> (client # "there" \/ view[i] = 1..version[i])

(* A client that leaves, or sends a frame the reader cannot parse, takes   *)
(* its listeners with it: even when the reader waits for room in a full    *)
(* queue.                                                                  *)
ListenerLeaves ==
  client # "there" ~> (serving = "ended" /\ ~listening)

(* In the end a client that stays knows the state and one that left has no *)
(* listener.                                                               *)
StreamSettles ==
  /\ RiskStreamSettles
  /\ EndedOrdersSettle
  /\ ListenerLeaves
=============================================================================

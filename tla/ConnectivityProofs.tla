-------------------------- MODULE ConnectivityProofs --------------------------
(***************************************************************************)
(* Proofs about what connects the system: the window that recognises       *)
(* repeated orders, for every set of ids and capacity, the heartbeat       *)
(* watchdog, for every interval, timeout and number of tolerated misses,   *)
(* the registry of gateways, for any gateways and watchdogs, and the       *)
(* client of the model context protocol, for any number of tasks, calls,   *)
(* child processes and token expiries.                                     *)
(*                                                                         *)
(* Each part has an inductive invariant: WindowInvariant, the watchdog's   *)
(* and the registry's typed invariants, and McpInvariant.                  *)
(***************************************************************************)
EXTENDS DedupWindow, HeartbeatWatchdog, GatewayRegistry, McpClient, SequenceTheorems, TLAPS

-----------------------------------------------------------------------------
(* The duplicate window.                                                   *)

(* The ring is the tail of the history of closed ids, and it is shorter    *)
(* than the capacity only while the whole history fits.                    *)
RingIsTail ==
  /\ Len(router.ring) <= Len(closed)
  /\ Len(router.ring) < Capacity => Len(router.ring) = Len(closed)
  /\ \A k \in 1..Len(router.ring) :
       router.ring[k] = closed[Len(closed) - Len(router.ring) + k]

(* The inductive invariant.                                                *)
WindowInvariant == DedupTypeOK /\ RingMirrorsSet /\ RingIsTail

LEMMA InitWindow == DedupInit => WindowInvariant
BY CapacityAssumption
   DEF DedupInit, WindowInvariant, DedupTypeOK, RingMirrorsSet, RingIsTail, EmptyRouter

(* Closing an active id, in the two cases the code distinguishes.          *)
LEMMA DeregisterStep ==
  ASSUME WindowInvariant, NEW id \in Ids, id \in router.active,
         router' = Deregister(router, id), closed' = Append(closed, id)
  PROVE  WindowInvariant'
<1> USE CapacityAssumption
<1> DEFINE ring == router.ring
           n == Len(router.ring)
<1>1. /\ DedupTypeOK /\ RingMirrorsSet /\ RingIsTail
      /\ ring \in Seq(Ids) /\ n \in Nat /\ n <= Capacity
      /\ closed \in Seq(Ids) /\ Len(closed) \in Nat
      /\ id \notin router.hist
  BY DEF WindowInvariant, DedupTypeOK, RingMirrorsSet
<1>2. \A k \in 1..n : ring[k] # id
  BY <1>1 DEF RingMirrorsSet
<1>3. /\ closed' \in Seq(Ids)
      /\ Len(closed') = Len(closed) + 1
      /\ \A k \in 1..Len(closed) : closed'[k] = closed[k]
      /\ closed'[Len(closed) + 1] = id
  BY <1>1
<1>4. router'.active = router.active \ {id}
  BY DEF Deregister
<1>5. CASE n < Capacity
  <2>0. ~(Len(router.ring) >= Capacity)
    BY <1>1, <1>5
  <2>1. /\ router' = [active |-> router.active \ {id},
                      ring |-> Append(ring, id), hist |-> router.hist \cup {id}]
        /\ router'.ring = Append(ring, id)
        /\ router'.hist = router.hist \cup {id}
    BY <2>0 DEF Deregister
  <2>2. /\ Len(router'.ring) = n + 1
        /\ \A k \in 1..n : router'.ring[k] = ring[k]
        /\ router'.ring[n + 1] = id
    BY <1>1, <2>1
  <2>3. DedupTypeOK'
    BY <1>1, <1>3, <2>1 DEF DedupTypeOK
  <2>4. RingIsTail'
    <3>1. n = Len(closed)
      BY <1>1, <1>5 DEF RingIsTail
    <3>2. \A k \in 1..n : ring[k] = closed[k]
      BY <1>1, <3>1 DEF RingIsTail
    <3>3. \A k \in 1..(n + 1) : router'.ring[k] = closed'[k]
      BY <1>1, <1>3, <2>2, <3>1, <3>2
    <3>4. \A k \in 1..(n + 1) : Len(closed') - Len(router'.ring) + k = k
      BY <1>1, <1>3, <2>2, <3>1
    <3> QED
      BY <1>1, <1>3, <2>2, <3>1, <3>3, <3>4 DEF RingIsTail
  <2>5. RingMirrorsSet'
    BY <1>1, <1>2, <1>4, <1>5, <2>1, <2>2, SMTT(30) DEF RingMirrorsSet
  <2> QED
    BY <2>3, <2>4, <2>5 DEF WindowInvariant
<1>6. CASE n = Capacity
  <2>0. ring # <<>>
    BY <1>1, <1>6
  <2>1. /\ router' = [active |-> router.active \ {id},
                      ring |-> Append(Tail(ring), id),
                      hist |-> (router.hist \ {Head(ring)}) \cup {id}]
        /\ router'.ring = Append(Tail(ring), id)
        /\ router'.hist = (router.hist \ {ring[1]}) \cup {id}
    BY <1>1, <1>6 DEF Deregister
  <2>2. /\ Tail(ring) \in Seq(Ids)
        /\ Len(Tail(ring)) = n - 1
        /\ \A k \in 1..(n - 1) : Tail(ring)[k] = ring[k + 1]
    BY <1>1, <2>0
  <2>3. /\ Len(router'.ring) = n
        /\ \A k \in 1..(n - 1) : router'.ring[k] = ring[k + 1]
        /\ router'.ring[n] = id
        /\ ring[1] \in Ids
        /\ 1 \in 1..n
    BY <1>1, <1>6, <2>1, <2>2
  <2>4. DedupTypeOK'
    BY <1>1, <1>3, <2>1, <2>2 DEF DedupTypeOK
  <2>5. RingIsTail'
    <3> DEFINE m == Len(closed)
    <3>1. n <= m /\ \A k \in 1..n : ring[k] = closed[m - n + k]
      BY <1>1 DEF RingIsTail
    <3>2. ASSUME NEW k \in 1..n
          PROVE  router'.ring[k] = closed'[m + 1 - n + k]
      <4>1. CASE k = n
        <5>1. m + 1 - n + k = m + 1
          BY <1>1, <4>1
        <5> QED
          BY <1>3, <2>3, <4>1, <5>1
      <4>2. CASE k < n
        <5>1. k + 1 \in 1..n /\ k \in 1..(n - 1) /\ m - n + (k + 1) \in 1..m
              /\ m + 1 - n + k = m - n + (k + 1)
          <6>1. m \in Nat /\ n \in Nat /\ n <= m /\ k \in 1..n
            BY <1>1, <3>1
          <6> HIDE DEF m, n, ring
          <6> QED
            BY <4>2, <6>1
        <5>2. router'.ring[k] = closed[m - n + (k + 1)]
          BY <2>3, <3>1, <5>1
        <5> QED
          BY <1>3, <5>1, <5>2
      <4>3. k = n \/ k < n
        BY <1>1
      <4> QED
        BY <4>1, <4>2, <4>3
    <3>3. Len(closed') - Len(router'.ring) = m + 1 - n
      BY <1>1, <1>3, <2>3
    <3>4. Len(router'.ring) <= Len(closed') /\ ~(Len(router'.ring) < Capacity)
      BY <1>1, <1>3, <1>6, <2>3, <3>1
    <3>5. \A k \in 1..Len(router'.ring) :
            router'.ring[k] = closed'[Len(closed') - Len(router'.ring) + k]
      <4> HIDE DEF m, n, ring
      <4> QED
        BY <2>3, <3>2, <3>3
    <3> QED
      BY <3>4, <3>5 DEF RingIsTail
  <2>6. RingMirrorsSet'
    <3>1. \A j, k \in 1..n : router'.ring[j] = router'.ring[k] => j = k
      <4>1. SUFFICES ASSUME NEW j \in 1..n, NEW k \in 1..n,
                            router'.ring[j] = router'.ring[k]
                     PROVE  j = k
        OBVIOUS
      <4>2. \A i \in 1..n : i < n => router'.ring[i] = ring[i + 1] /\ i + 1 \in 1..n
        BY <1>1, <2>3
      <4>3. \A i \in 1..n : i = n \/ i < n
        BY <1>1
      <4>4. router'.ring[n] = id /\ \A i \in 1..n : ring[i] # id
        BY <1>1, <1>2, <2>3
      <4>5. \A a, b \in 1..n : ring[a] = ring[b] => a = b
        BY <1>1 DEF RingMirrorsSet
      <4>6. CASE j < n /\ k < n
        <5>1. /\ ring[j + 1] = ring[k + 1] /\ j + 1 \in 1..n /\ k + 1 \in 1..n
              /\ j \in Int /\ k \in Int
          BY <1>1, <4>1, <4>2, <4>6
        <5>2. j + 1 = k + 1
          BY <4>5, <5>1, Zenon
        <5> QED
          BY <5>1, <5>2
      <4>7. CASE j = n /\ k < n
        BY <4>1, <4>2, <4>4, <4>7
      <4>8. CASE j < n /\ k = n
        BY <4>1, <4>2, <4>4, <4>8
      <4> QED
        BY <4>3, <4>6, <4>7, <4>8
    <3>2. router'.hist = {router'.ring[k] : k \in 1..n}
      <4>1. ASSUME NEW x \in router'.hist
            PROVE  \E k \in 1..n : x = router'.ring[k]
        <5>1. CASE x = id
          BY <1>1, <1>6, <2>3, <5>1
        <5>2. CASE x # id
          <6>1. PICK j \in 1..n : x = ring[j] /\ x # ring[1]
            BY <1>1, <2>1, <4>1, <5>2 DEF RingMirrorsSet
          <6>2. j - 1 \in 1..(n - 1) /\ router'.ring[j - 1] = x
            BY <1>1, <2>3, <6>1
          <6> QED
            BY <1>1, <6>2
        <5> QED
          BY <5>1, <5>2
      <4>2. ASSUME NEW k \in 1..n
            PROVE  router'.ring[k] \in router'.hist
        <5>1. CASE k = n
          BY <2>1, <2>3, <5>1
        <5>2. CASE k < n
          <6>1. router'.ring[k] = ring[k + 1] /\ k + 1 \in 1..n
            BY <1>1, <2>3, <5>2
          <6>2. ring[k + 1] \in router.hist /\ ring[k + 1] # ring[1]
            BY <1>1, <2>3, <5>2, <6>1 DEF RingMirrorsSet
          <6> QED
            BY <2>1, <6>1, <6>2
        <5> QED
          BY <1>1, <5>1, <5>2
      <4> QED
        BY <4>1, <4>2
    <3>3. router'.active \cap router'.hist = {}
      BY <1>1, <1>4, <2>1 DEF RingMirrorsSet
    <3> QED
      BY <1>1, <2>3, <3>1, <3>2, <3>3 DEF RingMirrorsSet
  <2> QED
    BY <2>4, <2>5, <2>6 DEF WindowInvariant
<1> QED
  BY <1>1, <1>5, <1>6

LEMMA NextWindow == WindowInvariant /\ [DedupNext]_dedupVars => WindowInvariant'
<1> SUFFICES ASSUME WindowInvariant, [DedupNext]_dedupVars PROVE WindowInvariant'
  OBVIOUS
<1>1. ASSUME NEW id \in Ids, RegisterOrder(id) PROVE WindowInvariant'
  <2>1. /\ router'.active = router.active \cup {id}
        /\ router'.ring = router.ring /\ router'.hist = router.hist
        /\ closed' = closed /\ id \notin router.hist
        /\ router' \in [active : SUBSET Ids, ring : Seq(Ids), hist : SUBSET Ids]
    BY <1>1 DEF RegisterOrder, Register, IsDuplicate, WindowInvariant, DedupTypeOK
  <2>2. RingMirrorsSet'
    BY <2>1 DEF WindowInvariant, RingMirrorsSet
  <2>3. RingIsTail'
    BY <2>1 DEF WindowInvariant, RingIsTail
  <2> QED
    BY <2>1, <2>2, <2>3 DEF WindowInvariant, DedupTypeOK
<1>2. ASSUME UNCHANGED dedupVars PROVE WindowInvariant'
  <2>1. DedupTypeOK' /\ RingMirrorsSet'
    BY <1>2 DEF dedupVars, WindowInvariant, DedupTypeOK, RingMirrorsSet
  <2>2. RingIsTail'
    BY <1>2 DEF dedupVars, WindowInvariant, RingIsTail
  <2> QED
    BY <2>1, <2>2 DEF WindowInvariant
<1>3. ASSUME NEW id \in Ids, DeregisterOrder(id) PROVE WindowInvariant'
  <2>1. CASE id \in router.active
    BY <1>3, <2>1, DeregisterStep DEF DeregisterOrder
  <2>2. CASE id \notin router.active
    BY <1>2, <1>3, <2>2 DEF DeregisterOrder, Deregister, dedupVars
  <2> QED
    BY <2>1, <2>2
<1>4. CASE Clear
  BY <1>4, InitWindow, CapacityAssumption
     DEF Clear, WindowInvariant, DedupTypeOK, RingMirrorsSet, RingIsTail, EmptyRouter
<1> QED
  BY <1>1, <1>2, <1>3, <1>4 DEF DedupNext

(* The ring and its lookup set never diverge, whatever is registered,      *)
(* closed, evicted, retried or cleared.                                    *)
THEOREM RingCoherent == DedupSpec => [](DedupTypeOK /\ RingMirrorsSet)
<1>1. WindowInvariant => DedupTypeOK /\ RingMirrorsSet
  BY DEF WindowInvariant
<1> QED
  BY <1>1, InitWindow, NextWindow, PTL DEF DedupSpec

(* INV-GW-002 for every capacity: the router refuses exactly the ids in    *)
(* flight and the last Capacity ids closed.                                *)
THEOREM ExactWindow == DedupSpec => []WindowExact
<1>1. WindowInvariant => WindowExact
  <2> SUFFICES ASSUME WindowInvariant PROVE router.hist = LastClosed(Capacity)
    BY DEF WindowExact, IsDuplicate
  <2> DEFINE n == Len(router.ring)
             m == Len(closed)
  <2>1. /\ n \in Nat /\ m \in Nat /\ n <= m /\ n <= Capacity /\ Capacity \in Nat
        /\ n < Capacity => n = m
    BY CapacityAssumption DEF WindowInvariant, DedupTypeOK, RingIsTail, RingMirrorsSet
  <2>2. /\ router.hist = {router.ring[k] : k \in 1..n}
        /\ \A k \in 1..n : router.ring[k] = closed[m - n + k]
    BY DEF WindowInvariant, RingIsTail, RingMirrorsSet
  <2> HIDE DEF n, m
  <2>3. ASSUME NEW k \in 1..n
        PROVE  m - n + k \in {j \in 1..m : j > m - Capacity}
    BY <2>1
  <2>4. ASSUME NEW j \in 1..m, j > m - Capacity
        PROVE  j - (m - n) \in 1..n /\ router.ring[j - (m - n)] = closed[j]
    <3>1. j - (m - n) \in 1..n
      BY <2>1, <2>4
    <3>2. m - n + (j - (m - n)) = j
      BY <2>1
    <3> QED
      BY <2>2, <3>1, <3>2
  <2> QED
    BY <2>2, <2>3, <2>4 DEF LastClosed, m
<1> QED
  BY <1>1, InitWindow, NextWindow, PTL DEF DedupSpec

(* Together: one window, kept twice, and exact, for every capacity.        *)
THEOREM WindowIsSound == DedupSpec => []WindowSound
<1>1. DedupTypeOK /\ RingMirrorsSet /\ WindowExact => WindowSound
  BY DEF WindowSound
<1> QED
  BY <1>1, RingCoherent, ExactWindow, PTL

-----------------------------------------------------------------------------
(* The heartbeat watchdog.                                                 *)

(* Notifications are counted against the losses of the connection.         *)
FiredAgainstRetries ==
  /\ linkStatus # "DISCONNECTED" => fired <= retries
  /\ linkStatus = "DISCONNECTED" => fired >= 1 /\ fired <= retries + 1

(* The watchdog's clock never runs ahead of the true silence, unless an    *)
(* overtaken heartbeat set it.                                             *)
ClockNotAhead == age # None /\ clock = "true" => age <= silence

WatchdogInvariant ==
  /\ WatchdogTypeOK
  /\ NoSilentGap
  /\ FiredAgainstRetries
  /\ ClockNotAhead
  /\ DisconnectsAreSilence

LEMMA OlderType ==
  ASSUME NEW a \in 0..MaxAge
  PROVE  Older(a) \in 0..MaxAge /\ Older(a) >= a
BY HeartbeatAssumption DEF Older, MaxAge

LEMMA OlderMonotone ==
  ASSUME NEW a \in 0..MaxAge, NEW b \in 0..MaxAge, a <= b
  PROVE  Older(a) <= Older(b)
BY HeartbeatAssumption DEF Older, MaxAge

LEMMA TimedOutMonotone ==
  ASSUME NEW a \in 0..MaxAge, NEW b \in 0..MaxAge, a <= b, TimedOut(a)
  PROVE  TimedOut(b)
<1>1. MaxMisses * Interval \in Int /\ Timeout \in Int
  BY HeartbeatAssumption
<1> QED
  BY <1>1, HeartbeatAssumption DEF TimedOut, MaxAge

LEMMA InitWatchdog == WatchdogInit => WatchdogInvariant
BY HeartbeatAssumption
   DEF WatchdogInit, WatchdogInvariant, WatchdogTypeOK, NoSilentGap, FiredAgainstRetries, ClockNotAhead,
       DisconnectsAreSilence, MaxAge

LEMMA NextWatchdog == WatchdogInvariant /\ [WatchdogNext]_watchdogVars => WatchdogInvariant'
<1> SUFFICES ASSUME WatchdogInvariant, [WatchdogNext]_watchdogVars PROVE WatchdogInvariant'
  OBVIOUS
<1> USE HeartbeatAssumption DEF WatchdogInvariant
<1>a. MaxAge \in Nat
  BY DEF MaxAge
<1>1. CASE Tick
  <2>1. silence \in 0..MaxAge /\ silence' \in 0..MaxAge /\ silence' >= silence
    BY <1>1, OlderType DEF Tick, WatchdogTypeOK
  <2>2. age' \in {None} \cup 0..MaxAge
    BY <1>1, OlderType DEF Tick, WatchdogTypeOK
  <2>3. inFlight' \subseteq [seq : 1..sent, age : 0..MaxAge]
    <3>1. ASSUME NEW m \in inFlight
          PROVE  [m EXCEPT !.age = Older(@)] \in [seq : 1..sent, age : 0..MaxAge]
      <4>1. m \in [seq : 1..sent, age : 0..MaxAge]
        BY DEF WatchdogTypeOK
      <4>2. Older(m.age) \in 0..MaxAge
        BY <4>1, OlderType
      <4> QED
        BY <4>1, <4>2
    <3> QED
      BY <1>1, <3>1 DEF Tick
  <2>4. WatchdogTypeOK'
    BY <1>1, <2>1, <2>2, <2>3 DEF Tick, WatchdogTypeOK
  <2>5. ClockNotAhead'
    BY <1>1, <2>1, OlderMonotone DEF Tick, WatchdogTypeOK, ClockNotAhead
  <2>6. DisconnectsAreSilence'
    BY <1>1, <2>1, TimedOutMonotone DEF Tick, DisconnectsAreSilence
  <2> QED
    BY <1>1, <2>4, <2>5, <2>6 DEF Tick, NoSilentGap, FiredAgainstRetries
<1>2. CASE SendHeartbeat
  <2>1. sent' \in 0..MaxSeq /\ 1..sent \subseteq 1..sent'
    BY <1>2 DEF SendHeartbeat, WatchdogTypeOK
  <2>2. inFlight' \subseteq [seq : 1..sent', age : 0..MaxAge]
    BY <1>2, <1>a, <2>1 DEF SendHeartbeat, WatchdogTypeOK
  <2>3. WatchdogTypeOK'
    BY <1>2, <2>1, <2>2 DEF SendHeartbeat, WatchdogTypeOK
  <2> QED
    BY <1>2, <2>3 DEF SendHeartbeat, NoSilentGap, FiredAgainstRetries, ClockNotAhead,
                      DisconnectsAreSilence
<1>3. ASSUME NEW m \in inFlight, LoseHeartbeat(m) PROVE WatchdogInvariant'
  BY <1>3 DEF LoseHeartbeat, WatchdogTypeOK, NoSilentGap, FiredAgainstRetries, ClockNotAhead,
              DisconnectsAreSilence
<1>4. ASSUME NEW m \in inFlight, NEW slow \in BOOLEAN, NEW bySender \in BOOLEAN,
             RecordHeartbeat(m, slow, bySender)
      PROVE  WatchdogInvariant'
  <2>1. m.seq \in 1..sent /\ m.age \in 0..MaxAge /\ sent \in 0..MaxSeq
    BY DEF WatchdogTypeOK
  <2>2. age' \in 0..MaxAge /\ silence' \in 0..MaxAge
    BY <1>4, <1>a, <2>1 DEF RecordHeartbeat, StampedAge, WatchdogTypeOK
  <2>3. expected' \in 1..(MaxSeq + 1) /\ gaps' \in Nat
    BY <1>4, <2>1 DEF RecordHeartbeat, GapsAfter, WatchdogTypeOK
  <2>4. WatchdogTypeOK'
    <3>1. linkStatus' \in {"CONNECTED", "DEGRADED", "DISCONNECTED", "RECONNECTING"}
      BY <1>4 DEF RecordHeartbeat
    <3>2. /\ inFlight' \subseteq [seq : 1..sent, age : 0..MaxAge]
          /\ received' \subseteq 1..sent
      BY <1>4, <2>1 DEF RecordHeartbeat, WatchdogTypeOK
    <3>3. /\ fired' \in Nat /\ retries' \in 0..MaxRetries /\ sent' = sent
          /\ clock' \in {"true", "back"}
      BY <1>4 DEF RecordHeartbeat
    <3> QED
      BY <2>1, <2>2, <2>3, <3>1, <3>2, <3>3 DEF WatchdogTypeOK
  <2>5. NoSilentGap'
    <3>1. CASE m.seq = expected
      <4>1. gaps' = gaps /\ expected' = expected + 1
        BY <1>4, <3>1 DEF RecordHeartbeat, GapsAfter, GapFound, WatchdogTypeOK
      <4>2. 1..expected = (1..(expected - 1)) \cup {expected}
        BY DEF WatchdogTypeOK
      <4>3. expected' - 1 = expected
        BY <4>1 DEF WatchdogTypeOK
      <4> QED
        BY <1>4, <3>1, <4>1, <4>2, <4>3 DEF RecordHeartbeat, NoSilentGap
    <3>2. CASE m.seq # expected
      BY <1>4, <3>2 DEF RecordHeartbeat, GapsAfter, GapFound, NoSilentGap, WatchdogTypeOK
    <3> QED
      BY <3>1, <3>2
  <2>6. ClockNotAhead'
    BY <1>4, <2>2 DEF RecordHeartbeat, StampedAge, ClockNotAhead
  <2>7. FiredAgainstRetries' /\ DisconnectsAreSilence'
    BY <1>4 DEF RecordHeartbeat, FiredAgainstRetries, DisconnectsAreSilence
  <2> QED
    BY <2>4, <2>5, <2>6, <2>7
<1>5. CASE CheckBaseline
  <2>1. WatchdogTypeOK'
    BY <1>5, <1>a DEF CheckBaseline, WatchdogTypeOK
  <2> QED
    BY <1>5, <2>1 DEF CheckBaseline, WatchdogTypeOK, NoSilentGap, FiredAgainstRetries, ClockNotAhead,
                      DisconnectsAreSilence
<1>6. CASE CheckTimeout
  <2>1. WatchdogTypeOK'
    BY <1>6 DEF CheckTimeout, WatchdogTypeOK
  <2>2. FiredAgainstRetries'
    BY <1>6 DEF CheckTimeout, MustNotify, FiredAgainstRetries, WatchdogTypeOK
  <2>3. DisconnectsAreSilence'
    <3>1. age \in 0..MaxAge /\ silence \in 0..MaxAge /\ clock \in {"true", "back"}
      BY <1>6 DEF CheckTimeout, WatchdogTypeOK
    <3> QED
      BY <1>6, <3>1, TimedOutMonotone
      DEF CheckTimeout, ClockNotAhead, DisconnectsAreSilence
  <2> QED
    BY <1>6, <2>1, <2>2, <2>3 DEF CheckTimeout, NoSilentGap, ClockNotAhead
<1>7. CASE CheckDegraded
  BY <1>7 DEF CheckDegraded, WatchdogTypeOK, NoSilentGap, FiredAgainstRetries, ClockNotAhead,
              DisconnectsAreSilence
<1>8. CASE MarkReconnecting
  BY <1>8 DEF MarkReconnecting, WatchdogTypeOK, NoSilentGap, FiredAgainstRetries, ClockNotAhead,
              DisconnectsAreSilence
<1>9. ASSUME NEW a \in {None, 0}, Reset(a) PROVE WatchdogInvariant'
  BY <1>9, <1>a DEF Reset, WatchdogTypeOK, NoSilentGap, FiredAgainstRetries, ClockNotAhead,
                    DisconnectsAreSilence
<1>10. CASE UNCHANGED watchdogVars
  BY <1>10 DEF watchdogVars, WatchdogTypeOK, NoSilentGap, FiredAgainstRetries, ClockNotAhead,
               DisconnectsAreSilence
<1> QED
  BY <1>1, <1>2, <1>3, <1>4, <1>5, <1>6, <1>7, <1>8, <1>9, <1>10 DEF WatchdogNext

LEMMA AlwaysWatchdog == WatchdogSpec => []WatchdogInvariant
BY InitWatchdog, NextWatchdog, PTL DEF WatchdogSpec

(* The sequence numbers hide nothing: without a reported gap every         *)
(* heartbeat below the watermark was received.                             *)
THEOREM GapsAreReported == WatchdogSpec => [](WatchdogTypeOK /\ NoSilentGap)
<1>1. WatchdogInvariant => WatchdogTypeOK /\ NoSilentGap
  BY DEF WatchdogInvariant
<1> QED
  BY <1>1, AlwaysWatchdog, PTL

(* The disconnect listeners, and with them the kill switch, are called at  *)
(* most once for each time the connection is lost.                         *)
THEOREM PanicOncePerLoss == WatchdogSpec => []OncePerLoss
<1>1. WatchdogInvariant => OncePerLoss
  BY DEF WatchdogInvariant, WatchdogTypeOK, FiredAgainstRetries, OncePerLoss
<1> QED
  BY <1>1, AlwaysWatchdog, PTL

(* A venue that was heard within the timeout is never declared             *)
(* disconnected, unless its last heartbeat was overtaken and carried its   *)
(* sender's time.                                                          *)
THEOREM NoFalseDisconnect == WatchdogSpec => []DisconnectsAreSilence
<1>1. WatchdogInvariant => DisconnectsAreSilence
  BY DEF WatchdogInvariant
<1> QED
  BY <1>1, AlwaysWatchdog, PTL

(* Together: what the orchestrator relies on when it ties the kill switch  *)
(* to the watchdog, for any timeout, number of misses and message order.   *)
THEOREM WatchdogIsSound == WatchdogSpec => []WatchdogSound
<1>1. WatchdogTypeOK /\ DisconnectsAreSilence /\ NoSilentGap /\ OncePerLoss => WatchdogSound
  BY DEF WatchdogSound
<1> QED
  BY <1>1, GapsAreReported, PanicOncePerLoss, NoFalseDisconnect, PTL

-----------------------------------------------------------------------------
(* The registry of gateways.                                               *)

(* The keys of _gateways are distinct, and its values are what the kill    *)
(* switch sweeps.                                                          *)
RegistryTyped ==
  /\ registered \in Seq(GatewayIds)
  /\ \A j, k \in 1..Len(registered) : registered[j] = registered[k] => j = k
  /\ gatewayOf \in [GatewayIds -> Gateways \cup {NoId}]
  /\ swept = gatewayOf
  /\ defaultId \in GatewayIds \cup {NoId}
  /\ watchdogOf \in [GatewayIds -> Watchdogs \cup {NoWatchdog}]
  /\ callbackOf \in [GatewayIds -> Nat]
  /\ listeners \in [Watchdogs -> SUBSET (Nat \ {0})]
  /\ registrations \in Nat
  /\ switch \in {"ARMED_STANDBY", "PANIC_TRIGGERED", "DISARMED"}
  /\ NoId \notin used

(* A disarmed switch has heard of no loss: disarming forgets them, and what*)
(* is lost while it is disarmed does not count.                            *)
DisarmedIsDeaf == heard # {} => switch # "DISARMED"

RegistryInvariant == RegistryTyped /\ LinksUnderControl /\ DisarmedIsDeaf

(* Taking a key out of the dictionary keeps the others, in their order.    *)
LEMMA KeyRemoved ==
  ASSUME NEW s \in Seq(GatewayIds), NEW k \in 1..Len(s),
         \A a, b \in 1..Len(s) : s[a] = s[b] => a = b
  PROVE  LET rest == RemoveAt(s, k)
         IN  /\ rest \in Seq(GatewayIds)
             /\ \A a, b \in 1..Len(rest) : rest[a] = rest[b] => a = b
             /\ \A i : Contains(rest, i) <=> Contains(s, i) /\ i # s[k]
<1> DEFINE rest == RemoveAt(s, k)
<1>1. /\ Len(s) \in Nat /\ k \in Nat /\ rest \in Seq(GatewayIds) /\ Len(rest) = Len(s) - 1
      /\ \A a \in 1..Len(rest) : rest[a] = IF a < k THEN s[a] ELSE s[a + 1]
  <2> DEFINE before == SubSeq(s, 1, k - 1)
             after == SubSeq(s, k + 1, Len(s))
  <2>0. Len(s) \in Nat /\ k \in Nat
    OBVIOUS
  <2>1. /\ before \in Seq(GatewayIds) /\ Len(before) = k - 1
        /\ \A a \in 1..(k - 1) : before[a] = s[a]
    OBVIOUS
  <2>2. /\ after \in Seq(GatewayIds) /\ Len(after) = Len(s) - k
        /\ \A a \in 1..(Len(s) - k) : after[a] = s[k + a]
    OBVIOUS
  <2>3. rest = before \o after
    BY DEF RemoveAt
  <2> HIDE DEF before, after, rest
  <2>4. /\ rest \in Seq(GatewayIds) /\ Len(rest) = Len(before) + Len(after)
        /\ \A a \in 1..Len(rest) :
             rest[a] = IF a <= Len(before) THEN before[a] ELSE after[a - Len(before)]
    <3>1. /\ before \o after \in Seq(GatewayIds)
          /\ Len(before \o after) = Len(before) + Len(after)
          /\ \A a \in 1..(Len(before) + Len(after)) :
               (before \o after)[a] = IF a <= Len(before) THEN before[a] ELSE after[a - Len(before)]
      <4>1. before \in Seq(GatewayIds) /\ after \in Seq(GatewayIds)
        BY <2>1, <2>2
      <4> QED
        BY <4>1, ConcatProperties, Zenon
    <3> QED
      BY <2>3, <3>1, Zenon
  <2>5. ASSUME NEW a \in 1..Len(rest) PROVE rest[a] = IF a < k THEN s[a] ELSE s[a + 1]
    <3>1. CASE a < k
      <4>1. a \in 1..(k - 1) /\ a <= Len(before)
        BY <2>0, <2>1, <3>1
      <4> QED
        BY <2>1, <2>4, <3>1, <4>1
    <3>2. CASE a >= k
      <4>1. a - Len(before) \in 1..(Len(s) - k) /\ k + (a - Len(before)) = a + 1
        BY <2>0, <2>1, <2>2, <2>4, <3>2
      <4>2. ~(a <= Len(before)) /\ ~(a < k)
        BY <2>0, <2>1, <3>2
      <4>3. rest[a] = after[a - Len(before)]
        BY <2>4, <4>2
      <4>4. after[a - Len(before)] = s[k + (a - Len(before))]
        BY <2>2, <4>1
      <4> QED
        BY <4>1, <4>2, <4>3, <4>4
    <3> QED
      BY <2>0, <3>1, <3>2
  <2>6. Len(rest) = Len(s) - 1
    BY <2>0, <2>1, <2>2, <2>4
  <2> QED
    BY <2>0, <2>4, <2>5, <2>6
<1> HIDE DEF rest
<1>2. ASSUME NEW a \in 1..Len(rest), NEW b \in 1..Len(rest), rest[a] = rest[b] PROVE a = b
  <2>1. a \in Nat /\ b \in Nat /\ a <= Len(s) - 1 /\ b <= Len(s) - 1 /\ a >= 1 /\ b >= 1
    BY <1>1
  <2>2. CASE a < k /\ b < k
    BY <1>1, <1>2, <2>1, <2>2
  <2>3. CASE a < k /\ ~(b < k)
    BY <1>1, <1>2, <2>1, <2>3
  <2>4. CASE ~(a < k) /\ b < k
    BY <1>1, <1>2, <2>1, <2>4
  <2>5. CASE ~(a < k) /\ ~(b < k)
    BY <1>1, <1>2, <2>1, <2>5
  <2> QED
    BY <2>2, <2>3, <2>4, <2>5
<1>3. ASSUME NEW i PROVE Contains(rest, i) <=> Contains(s, i) /\ i # s[k]
  <2>1. ASSUME NEW a \in 1..Len(rest), rest[a] = i PROVE Contains(s, i) /\ i # s[k]
    <3>1. PICK b \in 1..Len(s) : s[b] = i /\ b # k
      <4>1. a \in Nat /\ a >= 1 /\ a <= Len(s) - 1
        BY <1>1
      <4>2. CASE a < k
        <5>1. a \in 1..Len(s) /\ s[a] = i /\ a # k
          BY <1>1, <2>1, <4>1, <4>2
        <5> QED
          BY <5>1
      <4>3. CASE ~(a < k)
        <5>1. a + 1 \in 1..Len(s) /\ s[a + 1] = i /\ a + 1 # k
          BY <1>1, <2>1, <4>1, <4>3
        <5> QED
          BY <5>1
      <4> QED
        BY <4>2, <4>3
    <3> QED
      BY <3>1 DEF Contains
  <2>2. ASSUME NEW a \in 1..Len(s), s[a] = i, i # s[k] PROVE Contains(rest, i)
    <3>1. CASE a < k
      <4>1. a \in 1..Len(rest) /\ rest[a] = i
        BY <1>1, <2>2, <3>1
      <4> QED
        BY <4>1 DEF Contains
    <3>2. CASE a > k
      <4>1. a - 1 \in 1..Len(rest) /\ rest[a - 1] = i
        BY <1>1, <2>2, <3>2
      <4> QED
        BY <4>1 DEF Contains
    <3> QED
      BY <2>2, <3>1, <3>2
  <2> QED
    BY <2>1, <2>2 DEF Contains
<1> QED
  BY <1>1, <1>2, <1>3 DEF rest

LEMMA RegistryInvariantInit == RegistryInit => RegistryInvariant
<1> SUFFICES ASSUME RegistryInit PROVE RegistryInvariant
  OBVIOUS
<1> USE RegistryAssumption
<1>1. PICK wd \in [{PAPER, ALPACA} -> Watchdogs], live \in BOOLEAN :
        LET ids == IF live THEN <<PAPER, ALPACA>> ELSE <<PAPER>>
            first == [i \in GatewayIds |-> IF i \in ToSet(ids) THEN i ELSE NoId]
        IN /\ wd[PAPER] # wd[ALPACA]
           /\ registered = ids /\ gatewayOf = first /\ swept = first /\ defaultId = Last(ids)
           /\ watchdogOf = [i \in GatewayIds |-> IF i \in ToSet(ids) THEN wd[i] ELSE NoWatchdog]
           /\ callbackOf = [i \in GatewayIds |->
                IF i \in ToSet(ids) THEN (IF i = PAPER THEN 1 ELSE 2) ELSE NoCallback]
           /\ listeners = [w \in Watchdogs |-> {callbackOf[i] : i \in {j \in ToSet(ids) : wd[j] = w}}]
           /\ registrations = 2 /\ heard = {} /\ used = {} /\ switch = "ARMED_STANDBY"
  BY DEF RegistryInit
<1> DEFINE ids == IF live THEN <<PAPER, ALPACA>> ELSE <<PAPER>>
<1>2. /\ ids \in Seq(GatewayIds) /\ Len(ids) \in 1..2 /\ ids[1] = PAPER
      /\ Len(ids) = 2 => ids[2] = ALPACA
      /\ ToSet(ids) = {ids[k] : k \in 1..Len(ids)} /\ Last(ids) = ids[Len(ids)]
  BY DEF ToSet, Last
<1>3. ToSet(ids) \subseteq {PAPER, ALPACA} /\ ToSet(ids) \subseteq GatewayIds /\ Last(ids) \in GatewayIds
  BY <1>2
<1>4. \A i \in ToSet(ids) : Contains(ids, i)
  BY <1>2 DEF Contains
<1>5. registered = ids /\ defaultId = Last(ids)
  BY <1>1
<1>6. /\ gatewayOf \in [GatewayIds -> Gateways \cup {NoId}] /\ swept = gatewayOf
      /\ watchdogOf \in [GatewayIds -> Watchdogs \cup {NoWatchdog}]
      /\ callbackOf \in [GatewayIds -> Nat]
      /\ \A i \in ToSet(ids) : watchdogOf[i] = wd[i] /\ callbackOf[i] \in {1, 2}
      /\ listeners = [w \in Watchdogs |-> {callbackOf[i] : i \in {j \in ToSet(ids) : wd[j] = w}}]
  BY <1>1, <1>3 DEF NoCallback
<1> HIDE DEF ids
<1>7. listeners \in [Watchdogs -> SUBSET (Nat \ {0})]
  BY <1>6
<1>8. RegistryTyped
  <2>1. \A j, k \in 1..Len(ids) : ids[j] = ids[k] => j = k
    BY <1>2
  <2>2. registrations \in Nat /\ switch = "ARMED_STANDBY" /\ NoId \notin used
    BY <1>1
  <2>3. /\ registered \in Seq(GatewayIds) /\ defaultId \in GatewayIds \cup {NoId}
        /\ \A j, k \in 1..Len(registered) : registered[j] = registered[k] => j = k
    BY <1>2, <1>3, <1>5, <2>1
  <2> QED
    BY <1>6, <1>7, <2>2, <2>3 DEF RegistryTyped
<1>9. DefaultIsRegistered
  BY <1>2, <1>5 DEF DefaultIsRegistered, Registered, Contains
<1>10. StrayListenersExplained
  BY <1>3, <1>4, <1>5, <1>6 DEF StrayListenersExplained, Registered
<1> QED
  BY <1>1, <1>8, <1>9, <1>10
     DEF RegistryInvariant, LinksUnderControl, UsedIsSwept, LossIsActedOn, DisarmedIsDeaf

LEMMA RegistryInvariantStep == RegistryInvariant /\ [RegistryNext]_registryVars => RegistryInvariant'
<1> SUFFICES ASSUME RegistryInvariant, [RegistryNext]_registryVars PROVE RegistryInvariant'
  OBVIOUS
<1> USE RegistryAssumption DEF registryHistory
<1>0. /\ RegistryTyped /\ DefaultIsRegistered /\ StrayListenersExplained
      /\ UsedIsSwept /\ LossIsActedOn /\ DisarmedIsDeaf
  BY DEF RegistryInvariant, LinksUnderControl
<1>1. ASSUME NEW i \in GatewayIds, NEW g \in Gateways, NEW w \in Watchdogs \cup {NoWatchdog},
             NEW b \in BOOLEAN, RegisterGateway(i, g, w, b)
      PROVE  RegistryInvariant'
  <2>1. /\ registered' \in Seq(GatewayIds)
        /\ \A j, k \in 1..Len(registered') : registered'[j] = registered'[k] => j = k
        /\ \A j : Contains(registered', j) <=> Registered(j) \/ j = i
        /\ registered' # <<>>
    <3>1. CASE Registered(i)
      BY <1>0, <1>1, <3>1 DEF RegisterGateway, RegistryTyped, Registered, Contains
    <3>2. CASE ~Registered(i)
      <4>1. registered' = Append(registered, i) /\ registered \in Seq(GatewayIds)
        BY <1>0, <1>1, <3>2 DEF RegisterGateway, RegistryTyped
      <4>2. /\ registered' \in Seq(GatewayIds) /\ Len(registered') = Len(registered) + 1
            /\ Len(registered) \in Nat /\ registered'[Len(registered) + 1] = i
            /\ \A k \in 1..Len(registered) : registered'[k] = registered[k] /\ registered[k] # i
        BY <3>2, <4>1 DEF Registered, Contains
      <4>3. ASSUME NEW j \in 1..Len(registered'), NEW k \in 1..Len(registered'),
                   registered'[j] = registered'[k]
            PROVE  j = k
          <5>1. \A m, n \in 1..Len(registered) : registered[m] = registered[n] => m = n
            BY <1>0 DEF RegistryTyped
        <5>2. /\ j \in 1..Len(registered) \/ j = Len(registered) + 1
              /\ k \in 1..Len(registered) \/ k = Len(registered) + 1
          BY <4>2
        <5> QED
          BY <4>2, <4>3, <5>1, <5>2
      <4>4. ASSUME NEW j PROVE Contains(registered', j) <=> Registered(j) \/ j = i
        <5>1. ASSUME NEW k \in 1..Len(registered'), registered'[k] = j PROVE Registered(j) \/ j = i
          BY <4>2, <5>1 DEF Registered, Contains
        <5>2. ASSUME NEW k \in 1..Len(registered), registered[k] = j PROVE Contains(registered', j)
          <6>1. k \in 1..Len(registered') /\ registered'[k] = j
            BY <4>2, <5>2
          <6> QED
            BY <6>1 DEF Registered, Contains
        <5>3. Contains(registered', i)
          <6>1. Len(registered) + 1 \in 1..Len(registered')
            BY <4>2
          <6> QED
            BY <4>2, <6>1 DEF Registered, Contains
        <5> QED
          BY <5>1, <5>2, <5>3 DEF Registered, Contains
      <4>5. registered' # <<>>
        BY <4>2
      <4> QED
        BY <4>2, <4>3, <4>4, <4>5
    <3> QED
      BY <3>1, <3>2
  <2>2. /\ gatewayOf' = [gatewayOf EXCEPT ![i] = g] /\ swept' = gatewayOf'
        /\ registrations' = registrations + 1
        /\ defaultId' \in {i, defaultId} /\ (defaultId = NoId => defaultId' = i)
    BY <1>0, <1>1 DEF RegisterGateway, SweptAfter, RegistryTyped
  <2>3. RegistryTyped'
    <3>1. gatewayOf' \in [GatewayIds -> Gateways \cup {NoId}] /\ swept' = gatewayOf'
      BY <1>0, <2>2 DEF RegistryTyped
    <3>2. /\ watchdogOf' \in [GatewayIds -> Watchdogs \cup {NoWatchdog}]
          /\ callbackOf' \in [GatewayIds -> Nat]
          /\ listeners' \in [Watchdogs -> SUBSET (Nat \ {0})]
      <4>1. CASE w = NoWatchdog
        BY <1>0, <1>1, <4>1 DEF RegisterGateway, RegistryTyped
      <4>2. CASE w # NoWatchdog
        <5>1. /\ w \in Watchdogs /\ registrations' \in Nat \ {0}
              /\ watchdogOf' = [watchdogOf EXCEPT ![i] = w]
              /\ callbackOf' = [callbackOf EXCEPT ![i] = registrations']
              /\ listeners' = [listeners EXCEPT ![w] = @ \cup {registrations'}]
          BY <1>0, <1>1, <2>2, <4>2 DEF RegisterGateway, RegistryTyped
        <5> QED
          BY <1>0, <5>1 DEF RegistryTyped
      <4> QED
        BY <4>1, <4>2
    <3>3. defaultId' \in GatewayIds \cup {NoId} /\ registrations' \in Nat /\ switch' = switch
      BY <1>0, <1>1, <2>2 DEF RegisterGateway, RegistryTyped
    <3>4. used' = used /\ switch \in {"ARMED_STANDBY", "PANIC_TRIGGERED", "DISARMED"} /\ NoId \notin used
      BY <1>0, <1>1 DEF RegisterGateway, RegistryTyped
    <3>5. \A j, k \in 1..Len(registered') : registered'[j] = registered'[k] => j = k
      BY <2>1
    <3> QED
      BY <2>1, <3>1, <3>2, <3>3, <3>4, <3>5 DEF RegistryTyped
  <2>4. DefaultIsRegistered'
    BY <1>0, <2>1, <2>2 DEF DefaultIsRegistered, RegistryTyped, Registered
  <2>5. StrayListenersExplained'
    <3>1. CASE w = NoWatchdog
      BY <1>0, <1>1, <2>1, <3>1 DEF RegisterGateway, StrayListenersExplained, Registered
    <3>2. CASE w # NoWatchdog
      <4>1. /\ w \in Watchdogs /\ registrations' \in Nat
            /\ watchdogOf' = [watchdogOf EXCEPT ![i] = w]
            /\ callbackOf' = [callbackOf EXCEPT ![i] = registrations']
            /\ listeners' = [listeners EXCEPT ![w] = @ \cup {registrations'}]
            /\ superseded' = superseded \cup ({callbackOf[i]} \ {0})
        BY <1>0, <1>1, <2>2, <3>2 DEF RegisterGateway, RegistryTyped, NoCallback
      <4>2. ASSUME NEW v \in Watchdogs, NEW c \in listeners'[v]
            PROVE  \/ c \in superseded'
                   \/ \E j \in GatewayIds : Contains(registered', j) /\ watchdogOf'[j] = v /\ callbackOf'[j] = c
        <5>1. CASE v = w /\ c = registrations'
          <6>1. Contains(registered', i) /\ watchdogOf'[i] = v /\ callbackOf'[i] = c
            BY <1>0, <2>1, <4>1, <5>1 DEF RegistryTyped
          <6> QED
            BY <6>1
        <5>2. CASE ~(v = w /\ c = registrations')
          <6>1. c \in listeners[v] /\ c # 0
            BY <1>0, <4>1, <4>2, <5>2 DEF RegistryTyped
          <6>2. CASE c \in superseded
            BY <4>1, <6>2
          <6>3. ASSUME NEW j \in GatewayIds, Registered(j), watchdogOf[j] = v, callbackOf[j] = c
                PROVE  c \in superseded' \/ (Contains(registered', j) /\ watchdogOf'[j] = v /\ callbackOf'[j] = c)
            BY <1>0, <2>1, <4>1, <6>1, <6>3 DEF RegistryTyped
          <6> QED
            BY <1>0, <6>1, <6>2, <6>3 DEF StrayListenersExplained, Registered
        <5> QED
          BY <5>1, <5>2
      <4> QED
        BY <4>2 DEF StrayListenersExplained, Registered
    <3> QED
      BY <3>1, <3>2
  <2>6. UsedIsSwept'
    <3>1. /\ used' = used /\ dropped' = (dropped \cup ({gatewayOf[i]} \ {NoId})) \ {g}
          /\ swept' = [gatewayOf EXCEPT ![i] = g] /\ swept = gatewayOf
          /\ gatewayOf \in [GatewayIds -> Gateways \cup {NoId}]
      BY <1>0, <1>1, <2>2 DEF RegisterGateway, RegistryTyped
    <3>2. NoId \notin used
      BY <1>0 DEF RegistryTyped
    <3>3. ASSUME NEW h \in used' \ dropped' PROVE \E j \in GatewayIds : swept'[j] = h
      <4>1. CASE h = g
        BY <3>1, <4>1
      <4>2. CASE h # g
        <5>1. h \in used \ dropped /\ h # gatewayOf[i]
          BY <3>1, <3>2, <3>3, <4>2
        <5>2. PICK j \in GatewayIds : swept[j] = h
          BY <1>0, <5>1 DEF UsedIsSwept
        <5>3. swept'[j] = h
          BY <3>1, <5>1, <5>2
        <5> QED
          BY <5>3
      <4> QED
        BY <4>1, <4>2
    <3> QED
      BY <3>3 DEF UsedIsSwept
  <2>7. LossIsActedOn' /\ DisarmedIsDeaf'
    BY <1>0, <1>1 DEF RegisterGateway, LossIsActedOn, DisarmedIsDeaf
  <2> QED
    BY <2>3, <2>4, <2>5, <2>6, <2>7 DEF RegistryInvariant, LinksUnderControl
<1>2. ASSUME NEW i \in GatewayIds, UnregisterGateway(i) PROVE RegistryInvariant'
  <2>1. /\ registered' \in Seq(GatewayIds)
        /\ \A j, k \in 1..Len(registered') : registered'[j] = registered'[k] => j = k
        /\ \A j : Contains(registered', j) <=> Registered(j) /\ j # i
    <3>1. PICK k \in 1..Len(registered) : registered[k] = i /\ registered' = RemoveAt(registered, k)
      BY <1>2 DEF UnregisterGateway
    <3> QED
      BY <1>0, <3>1, KeyRemoved DEF RegistryTyped, Registered
  <2>2. RegistryTyped'
    <3>1. defaultId' \in GatewayIds \cup {NoId}
      BY <1>0, <1>2, <2>1 DEF UnregisterGateway, DefaultWithout, RegistryTyped
    <3>2. listeners' \in [Watchdogs -> SUBSET (Nat \ {0})]
      BY <1>0, <1>2 DEF UnregisterGateway, Detach, RegistryTyped
    <3> QED
      BY <1>0, <1>2, <2>1, <3>1, <3>2 DEF UnregisterGateway, RegistryTyped, NoCallback
  <2>3. DefaultIsRegistered'
    <3>1. registered' # <<>> => Contains(registered', Head(registered'))
      <4> SUFFICES ASSUME registered' # <<>>
                   PROVE  Contains(registered', Head(registered'))
        OBVIOUS
      <4>1. 1 \in 1..Len(registered') /\ Head(registered') = registered'[1]
        BY <2>1
      <4> QED
        BY <4>1 DEF Contains
    <3> QED
      <4>1. defaultId' = IF defaultId # i THEN defaultId
                         ELSE IF registered' = <<>> THEN NoId ELSE Head(registered')
        BY <1>2 DEF UnregisterGateway, DefaultWithout
      <4>2. Registered(i) /\ registered # <<>> /\ Registered(defaultId)
        <5>1. Registered(i)
          BY <1>2 DEF UnregisterGateway
        <5>2. registered # <<>>
          BY <5>1 DEF Registered, Contains
        <5> QED
          BY <1>0, <5>1, <5>2 DEF DefaultIsRegistered
      <4>3. CASE defaultId # i
        <5>1. defaultId' = defaultId /\ Contains(registered', defaultId)
          BY <2>1, <4>1, <4>2, <4>3 DEF Registered
        <5>2. registered' # <<>>
          BY <5>1 DEF Contains
        <5> QED
          BY <5>1, <5>2 DEF DefaultIsRegistered, Registered
      <4>4. CASE defaultId = i /\ registered' = <<>>
        BY <4>1, <4>4 DEF DefaultIsRegistered
      <4>5. CASE defaultId = i /\ registered' # <<>>
        <5>1. defaultId' = Head(registered') /\ registered' # <<>>
          BY <4>1, <4>5
        <5> QED
          BY <3>1, <5>1 DEF DefaultIsRegistered, Registered
      <4> QED
        BY <4>3, <4>4, <4>5
  <2>4. StrayListenersExplained'
    <3>1. /\ superseded' = superseded
          /\ watchdogOf' = [watchdogOf EXCEPT ![i] = NoWatchdog]
          /\ callbackOf' = [callbackOf EXCEPT ![i] = NoCallback]
          /\ watchdogOf \in [GatewayIds -> Watchdogs \cup {NoWatchdog}]
          /\ callbackOf \in [GatewayIds -> Nat]
      BY <1>0, <1>2 DEF UnregisterGateway, RegistryTyped
    <3>2. ASSUME NEW v \in Watchdogs, NEW c \in listeners'[v]
          PROVE  c \in listeners[v] /\ ~(v = watchdogOf[i] /\ c = callbackOf[i])
      BY <1>0, <1>2, <3>2 DEF UnregisterGateway, Detach, RegistryTyped
    <3>3. ASSUME NEW v \in Watchdogs, NEW c \in listeners'[v], c \notin superseded
          PROVE  \E j \in GatewayIds : Contains(registered', j) /\ watchdogOf'[j] = v /\ callbackOf'[j] = c
      <4>1. c \in listeners[v] /\ ~(v = watchdogOf[i] /\ c = callbackOf[i])
        BY <3>2
      <4>2. PICK j \in GatewayIds : Registered(j) /\ watchdogOf[j] = v /\ callbackOf[j] = c
        BY <1>0, <3>3, <4>1 DEF StrayListenersExplained, Registered
      <4>3. j # i
        BY <4>1, <4>2
      <4> QED
        BY <2>1, <3>1, <4>2, <4>3
    <3> QED
      BY <3>1, <3>3 DEF StrayListenersExplained, Registered
  <2>5. UsedIsSwept'
    BY <1>0, <1>2 DEF UnregisterGateway, UsedIsSwept, RegistryTyped
  <2>6. LossIsActedOn' /\ DisarmedIsDeaf'
    BY <1>0, <1>2 DEF UnregisterGateway, LossIsActedOn, DisarmedIsDeaf
  <2> QED
    BY <2>2, <2>3, <2>4, <2>5, <2>6 DEF RegistryInvariant, LinksUnderControl
<1>3. ASSUME NEW i \in GatewayIds, SetDefaultGateway(i) PROVE RegistryInvariant'
  <2>1. registered # <<>>
    BY <1>3 DEF SetDefaultGateway, Registered, Contains
  <2> QED
    BY <1>0, <1>3, <2>1
       DEF SetDefaultGateway, RegistryInvariant, LinksUnderControl, RegistryTyped, DefaultIsRegistered,
           Registered, StrayListenersExplained, UsedIsSwept, LossIsActedOn, DisarmedIsDeaf
<1>4. ASSUME NEW i \in GatewayIds \cup {NoId}, RouteTo(i) PROVE RegistryInvariant'
  <2>1. \E j \in GatewayIds : swept[j] = Resolve(i)
    <3>1. CASE registered # <<>>
      <4>1. Head(registered) \in GatewayIds
        BY <1>0, <3>1 DEF RegistryTyped
      <4> QED
        BY <1>0, <1>4, <4>1 DEF RouteTo, Resolve, RegistryTyped
    <3>2. CASE registered = <<>>
      BY <1>0, <1>4, <3>2 DEF RouteTo, Resolve, RegistryTyped
    <3> QED
      BY <3>1, <3>2
  <2>2. UsedIsSwept'
    BY <1>0, <1>4, <2>1 DEF RouteTo, UsedIsSwept
  <2> QED
    BY <1>0, <1>4, <2>2
       DEF RouteTo, RegistryInvariant, LinksUnderControl, RegistryTyped, DefaultIsRegistered,
           Registered, StrayListenersExplained, LossIsActedOn, DisarmedIsDeaf
<1>5. ASSUME NEW w \in Watchdogs, CheckLiveness(w) PROVE RegistryInvariant'
  <2>1. LossIsActedOn' /\ DisarmedIsDeaf'
    BY <1>0, <1>5 DEF CheckLiveness, LossIsActedOn, DisarmedIsDeaf
  <2> QED
    BY <1>0, <1>5, <2>1
       DEF CheckLiveness, RegistryInvariant, LinksUnderControl, RegistryTyped, DefaultIsRegistered,
           Registered, StrayListenersExplained, UsedIsSwept
<1>6. ASSUME NEW i \in GatewayIds, RecordGatewayHeartbeat(i) PROVE RegistryInvariant'
  BY <1>0, <1>6
     DEF RecordGatewayHeartbeat, RegistryInvariant, LinksUnderControl, RegistryTyped, DefaultIsRegistered,
         Registered, StrayListenersExplained, UsedIsSwept, LossIsActedOn, DisarmedIsDeaf
<1>7. ASSUME NEW c \in Callbacks, DisconnectPanic(c) PROVE RegistryInvariant'
  <2>1. switch \in {"ARMED_STANDBY", "PANIC_TRIGGERED", "DISARMED"}
    BY <1>0 DEF RegistryTyped
  <2>2. LossIsActedOn' /\ DisarmedIsDeaf'
    BY <1>0, <1>7, <2>1 DEF DisconnectPanic, LossIsActedOn, DisarmedIsDeaf
  <2> QED
    BY <1>0, <1>7, <2>1, <2>2
       DEF DisconnectPanic, RegistryInvariant, LinksUnderControl, RegistryTyped, DefaultIsRegistered,
           Registered, StrayListenersExplained, UsedIsSwept
<1>8. ASSUME EmergencyPanic \/ \E s \in {"ARMED_STANDBY", "DISARMED"} : OperateSwitch(s)
      PROVE  RegistryInvariant'
  BY <1>0, <1>8
     DEF EmergencyPanic, OperateSwitch, RegistryInvariant, LinksUnderControl, RegistryTyped,
         DefaultIsRegistered, Registered, StrayListenersExplained, UsedIsSwept, LossIsActedOn, DisarmedIsDeaf
<1>9. CASE UNCHANGED registryVars
  BY <1>0, <1>9
     DEF registryVars, RegistryInvariant, LinksUnderControl, RegistryTyped, DefaultIsRegistered,
         Registered, StrayListenersExplained, UsedIsSwept, LossIsActedOn, DisarmedIsDeaf
<1> QED
  BY <1>1, <1>2, <1>3, <1>4, <1>5, <1>6, <1>7, <1>8, <1>9 DEF RegistryNext

(* Registering and unregistering gateways in any order, with any watchdogs,*)
(* leaves no default that is gone, no listener and no used gateway         *)
(* unaccounted for, and no lost connection without its panic.              *)
THEOREM LinksUnderControlHolds == RegistrySpec => []LinksUnderControl
<1>1. RegistryInvariant => LinksUnderControl
  BY DEF RegistryInvariant
<1> QED
  BY <1>1, RegistryInvariantInit, RegistryInvariantStep, PTL DEF RegistrySpec

-----------------------------------------------------------------------------
(* The client of the model context protocol. McpInvariant is McpTyped with *)
(* RequestsWaitOnce (a request is with one task or in one pipe until it is *)
(* carried out), PipesAnswer (what the pipes of a child hold belongs to    *)
(* the task that reads there) and ChildOwned.  StepKinds sorts the steps   *)
(* of a task into seven kinds, and each part is proved kind by kind.         *)

Stages ==
  {"idle", "login", "spawning", "posting", "renewing", "reposting", "draining", "reading", "ended"}
Outcomes == {"none", "connected", "schema", "transport", "runtime", "auth", "answered"}
Tokens == {"none", "valid", "expired"}
Calls == [stage : Stages, id : 0..MaxCalls, token : Tokens, on : Nat, got : Nat, outcome : Outcomes]
Children == [alive : BOOLEAN, in : Seq(1..MaxCalls), out : Seq(1..MaxCalls)]

(* What a stage presupposes of the transport and of the request.           *)
Fits(r, ids, children, http) ==
  /\ r.id <= ids
  /\ r.outcome # "none" => r.stage = "ended"
  /\ r.stage \in {"draining", "reading"} => r.on \in 1..children
  /\ r.stage \in {"posting", "renewing", "reposting", "draining", "reading"} => r.id # 0
  /\ r.stage \in {"login", "posting", "renewing", "reposting"} => http
  /\ r.stage \in {"spawning", "draining", "reading"} => ~http

StageFits(r) == Fits(r, nextId, Len(servers), Http)

McpTyped ==
  /\ setup.transport \in {"http", "stdio"} /\ setup.credentials \in BOOLEAN
  /\ setup.admin \in BOOLEAN
  /\ nextId \in 0..MaxCalls
  /\ request \in [McpCallers -> Calls]
  /\ servers \in Seq(Children)
  /\ process \in 0..Len(servers) /\ closing \in 0..Len(servers)
  /\ session \in [open : BOOLEAN, token : Tokens]
  /\ effects \in [1..MaxCalls -> Nat]
  /\ crossed \in BOOLEAN
  /\ Http => servers = <<>>
  /\ \A c \in McpCallers : StageFits(request[c])

(* A child is replaced, or added.                                          *)
LEMMA ChildUpdated ==
  ASSUME NEW s \in Seq(Children), NEW p \in 1..Len(s), NEW v \in Children
  PROVE  /\ [s EXCEPT ![p] = v] \in Seq(Children) /\ Len([s EXCEPT ![p] = v]) = Len(s)
         /\ \A q \in 1..Len(s) : [s EXCEPT ![p] = v][q] = IF q = p THEN v ELSE s[q]
OBVIOUS

LEMMA ChildAdded ==
  ASSUME NEW s \in Seq(Children)
  PROVE  /\ Append(s, NewServer) \in Seq(Children) /\ Len(Append(s, NewServer)) = Len(s) + 1
         /\ \A q \in 1..Len(s) : Append(s, NewServer)[q] = s[q]
         /\ Append(s, NewServer)[Len(s) + 1] = NewServer
<1>1. NewServer \in Children
  BY DEF NewServer, Children
<1> QED
  BY <1>1

(* The constructor leaves no request, child or session.                    *)
LEMMA McpTypedInit == McpInit => McpTyped
<1> SUFFICES ASSUME McpInit PROVE McpTyped
  OBVIOUS
<1>1. Quiet \in Calls /\ StageFits(Quiet)
  BY McpAssumption DEF McpInit, Quiet, Calls, StageFits, Fits, Stages, Outcomes, Tokens
<1>2. /\ setup.transport \in {"http", "stdio"} /\ setup.credentials \in BOOLEAN
      /\ setup.admin \in BOOLEAN
  BY DEF McpInit
<1>3. session \in [open : BOOLEAN, token : Tokens]
  BY DEF McpInit, Tokens
<1>4. nextId \in 0..MaxCalls /\ effects \in [1..MaxCalls -> Nat]
  BY McpAssumption DEF McpInit
<1>5. servers \in Seq(Children) /\ Len(servers) = 0
  BY DEF McpInit
<1>6. /\ request = [c \in McpCallers |-> Quiet] /\ servers = <<>>
      /\ process = 0 /\ closing = 0 /\ crossed = FALSE
  BY DEF McpInit
<1>7. request \in [McpCallers -> Calls] /\ \A c \in McpCallers : StageFits(request[c])
  BY <1>1, <1>6
<1>8. process \in 0..Len(servers) /\ closing \in 0..Len(servers) /\ crossed \in BOOLEAN
  <2>1. 0 \in 0..0
    OBVIOUS
  <2> QED
    BY <1>5, <1>6, <2>1, Zenon
<1> QED
  BY <1>2, <1>3, <1>4, <1>5, <1>6, <1>7, <1>8 DEF McpTyped

(* A step gives one task its new request.                                  *)
LEMMA RequestTyped ==
  ASSUME McpTyped, NEW c \in McpCallers, NEW r \in Calls, StageFits(r)',
         request' = [request EXCEPT ![c] = r], setup' = setup,
         nextId' \in Nat, nextId <= nextId', Len(servers') \in Nat, Len(servers) <= Len(servers')
  PROVE  request' \in [McpCallers -> Calls] /\ \A d \in McpCallers : StageFits(request[d])'
<1>1. request' \in [McpCallers -> Calls]
  BY DEF McpTyped
<1>2. ASSUME NEW d \in McpCallers PROVE StageFits(request[d])'
  <2>1. CASE d = c
    <3>1. request'[d] = r
      BY <2>1 DEF McpTyped
    <3> QED
      BY <3>1 DEF StageFits, Fits, Http
  <2>2. CASE d # c
    <3>1. request'[d] = request[d] /\ StageFits(request[d]) /\ request[d].id \in Nat
      BY <2>2 DEF McpTyped, Calls
    <3>2. Len(servers) \in Nat /\ nextId \in Nat
      BY DEF McpTyped
    <3> QED
      BY <3>1, <3>2 DEF StageFits, Fits, Http
  <2> QED
    BY <2>1, <2>2
<1> QED
  BY <1>1, <1>2

(* A request that ends.                                                    *)
LEMMA EndsTyped ==
  ASSUME NEW r \in Calls, NEW o \in Outcomes
  PROVE  /\ Ends(r, o) \in Calls
         /\ Ends(r, o).stage = "ended" /\ Ends(r, o).outcome = o
         /\ Ends(r, o).id = r.id /\ Ends(r, o).on = r.on /\ Ends(r, o).got = r.got
BY DEF Ends, Calls, Stages

-----------------------------------------------------------------------------
(* Requests in the pipes of the child processes: whether i waits there, and*)
(* that each waits once.                                                   *)
QueuedIn(s, i) == \E p \in 1..Len(s) : \E k \in 1..Len(s[p].in) : s[p].in[k] = i

QueuesDiffer(s) ==
  \A p, q \in 1..Len(s) : \A j \in 1..Len(s[p].in), k \in 1..Len(s[q].in) :
    s[p].in[j] = s[q].in[k] => p = q /\ j = k

(* QueuesDiffer, for two places that hold the same request.                *)
LEMMA WaitsOnce ==
  ASSUME NEW s, QueuesDiffer(s), NEW p \in 1..Len(s), NEW q \in 1..Len(s),
         NEW j \in 1..Len(s[p].in), NEW k \in 1..Len(s[q].in), s[p].in[j] = s[q].in[k]
  PROVE  p = q /\ j = k
BY DEF QueuesDiffer

(* The line a pipe gives next.                                             *)
LEMMA FirstOfQueue ==
  ASSUME NEW S, NEW queue \in Seq(S), queue # <<>>
  PROVE  /\ Len(queue) \in Nat \ {0} /\ Len(Tail(queue)) = Len(queue) - 1
         /\ \A k \in 1..(Len(queue) - 1) : Tail(queue)[k] = queue[k + 1]
         /\ 1 \in 1..Len(queue) /\ Head(queue) = queue[1] /\ Head(queue) \in S
         /\ Tail(queue) \in Seq(S)
<1>1. Tail(queue) \in Seq(S)
  BY HeadTailProperties
<1> QED
  BY <1>1

(* The types of what the pipes of a child hold.                            *)
LEMMA InPipes ==
  ASSUME NEW s \in Seq(Children), NEW p \in 1..Len(s)
  PROVE  /\ s[p] \in Children /\ s[p].alive \in BOOLEAN
         /\ s[p].in \in Seq(1..MaxCalls) /\ Len(s[p].in) \in Nat
         /\ s[p].out \in Seq(1..MaxCalls) /\ Len(s[p].out) \in Nat
<1>1. s[p] \in Children
  OBVIOUS
<1>2. s[p].in \in Seq(1..MaxCalls) /\ s[p].out \in Seq(1..MaxCalls) /\ s[p].alive \in BOOLEAN
  BY <1>1 DEF Children
<1> QED
  BY <1>1, <1>2

(* The requests stay where they are,                                       *)
LEMMA QueuesSame ==
  ASSUME NEW s, NEW t, QueuesDiffer(s), Len(t) = Len(s),
         \A q \in 1..Len(s) : t[q].in = s[q].in
  PROVE  QueuesDiffer(t) /\ \A i : QueuedIn(t, i) => QueuedIn(s, i)
<1>1. QueuesDiffer(t)
  <2> SUFFICES ASSUME NEW p \in 1..Len(t), NEW q \in 1..Len(t),
                      NEW j \in 1..Len(t[p].in), NEW k \in 1..Len(t[q].in), t[p].in[j] = t[q].in[k]
               PROVE  p = q /\ j = k
    BY DEF QueuesDiffer
  <2>1. /\ p \in 1..Len(s) /\ q \in 1..Len(s) /\ j \in 1..Len(s[p].in) /\ k \in 1..Len(s[q].in)
        /\ s[p].in[j] = s[q].in[k]
    OBVIOUS
  <2> QED
    BY <2>1, WaitsOnce
<1>2. ASSUME NEW i, QueuedIn(t, i) PROVE QueuedIn(s, i)
  <2>1. PICK p \in 1..Len(t) : \E k \in 1..Len(t[p].in) : t[p].in[k] = i
    BY <1>2 DEF QueuedIn
  <2>2. PICK k \in 1..Len(t[p].in) : t[p].in[k] = i
    BY <2>1
  <2>3. p \in 1..Len(s) /\ k \in 1..Len(s[p].in) /\ s[p].in[k] = i
    BY <2>2
  <2> QED
    BY <2>3 DEF QueuedIn
<1> QED
  BY <1>1, <1>2

(* also when a child is added;                                             *)
LEMMA QueuesOfAdded ==
  ASSUME NEW s \in Seq(Children), QueuesDiffer(s)
  PROVE  /\ QueuesDiffer(Append(s, NewServer))
         /\ \A i : QueuedIn(Append(s, NewServer), i) => QueuedIn(s, i)
<1> DEFINE t == Append(s, NewServer)
<1>1. /\ Len(t) = Len(s) + 1 /\ Len(s) \in Nat /\ \A q \in 1..Len(s) : t[q] = s[q]
      /\ t[Len(s) + 1].in = <<>>
  BY ChildAdded DEF NewServer
<1> HIDE DEF t
<1>2. ASSUME NEW p \in 1..Len(t), NEW k \in 1..Len(t[p].in)
      PROVE  p \in 1..Len(s) /\ t[p] = s[p]
  <2>1. CASE p = Len(s) + 1
    <3>1. Len(t[p].in) = 0
      BY <1>1, <2>1
    <3> QED
      BY <3>1
  <2>2. CASE p # Len(s) + 1
    BY <1>1, <2>2
  <2> QED
    BY <2>1, <2>2
<1>3. QueuesDiffer(t)
  <2> SUFFICES ASSUME NEW p \in 1..Len(t), NEW q \in 1..Len(t),
                      NEW j \in 1..Len(t[p].in), NEW k \in 1..Len(t[q].in), t[p].in[j] = t[q].in[k]
               PROVE  p = q /\ j = k
    BY DEF QueuesDiffer
  <2>1. p \in 1..Len(s) /\ q \in 1..Len(s) /\ t[p] = s[p] /\ t[q] = s[q]
    BY <1>2
  <2>2. j \in 1..Len(s[p].in) /\ k \in 1..Len(s[q].in) /\ s[p].in[j] = s[q].in[k]
    BY <2>1
  <2> QED
    BY <2>1, <2>2, WaitsOnce
<1>4. ASSUME NEW i, QueuedIn(t, i) PROVE QueuedIn(s, i)
  <2>1. PICK p \in 1..Len(t) : \E k \in 1..Len(t[p].in) : t[p].in[k] = i
    BY <1>4 DEF QueuedIn
  <2>2. PICK k \in 1..Len(t[p].in) : t[p].in[k] = i
    BY <2>1
  <2>3. p \in 1..Len(s) /\ t[p] = s[p]
    BY <1>2
  <2> QED
    BY <2>2, <2>3 DEF QueuedIn
<1> QED
  BY <1>3, <1>4 DEF t

(* a request no pipe held is written;                                      *)
LEMMA QueuesOfWritten ==
  ASSUME NEW s \in Seq(Children), QueuesDiffer(s), NEW i \in 1..MaxCalls, ~QueuedIn(s, i),
         NEW t \in Seq(Children), NEW p \in 1..Len(s), Len(t) = Len(s),
         Len(t[p].in) = Len(s[p].in) + 1, t[p].in[Len(s[p].in) + 1] = i,
         \A k \in 1..Len(s[p].in) : t[p].in[k] = s[p].in[k],
         \A q \in 1..Len(s) : q # p => t[q] = s[q]
  PROVE  QueuesDiffer(t) /\ \A j \in Int : QueuedIn(t, j) => QueuedIn(s, j) \/ j = i
<1>1. Len(s[p].in) \in Nat
  BY InPipes
<1>2. ASSUME NEW q \in 1..Len(t), NEW k \in 1..Len(t[q].in)
      PROVE  \/ k \in 1..Len(s[q].in) /\ t[q].in[k] = s[q].in[k]
             \/ q = p /\ k = Len(s[p].in) + 1 /\ t[q].in[k] = i
  <2>1. CASE q = p
    BY <1>1, <2>1, SMTT(30)
  <2>2. CASE q # p
    BY <2>2
  <2> QED
    BY <2>1, <2>2
<1>3. ASSUME NEW q \in 1..Len(s), NEW k \in 1..Len(s[q].in) PROVE s[q].in[k] # i
  BY DEF QueuedIn
<1>4. QueuesDiffer(t)
  <2> SUFFICES ASSUME NEW u \in 1..Len(t), NEW q \in 1..Len(t),
                      NEW j \in 1..Len(t[u].in), NEW k \in 1..Len(t[q].in), t[u].in[j] = t[q].in[k]
               PROVE  u = q /\ j = k
    BY DEF QueuesDiffer
  <2>1. CASE j \in 1..Len(s[u].in) /\ t[u].in[j] = s[u].in[j]
    <3>1. k \in 1..Len(s[q].in) /\ t[q].in[k] = s[q].in[k]
      <4>1. s[u].in[j] # i
        BY <1>3, <2>1, Zenon
      <4> QED
        BY <1>2, <2>1, <4>1, Zenon
    <3>2. s[u].in[j] = s[q].in[k]
      BY <2>1, <3>1, Zenon
    <3> QED
      BY <2>1, <3>1, <3>2, WaitsOnce, SMTT(30)
  <2>2. CASE u = p /\ j = Len(s[p].in) + 1 /\ t[u].in[j] = i
    <3>1. ~(k \in 1..Len(s[q].in) /\ t[q].in[k] = s[q].in[k])
      BY <1>3, <2>2
    <3>2. q = p /\ k = Len(s[p].in) + 1
      BY <1>2, <3>1
    <3> QED
      BY <2>2, <3>2
  <2> QED
    BY <1>2, <2>1, <2>2
<1>5. ASSUME NEW j \in Int, QueuedIn(t, j), j # i PROVE QueuedIn(s, j)
  <2>1. PICK q \in 1..Len(t) : \E k \in 1..Len(t[q].in) : t[q].in[k] = j
    BY <1>5 DEF QueuedIn
  <2>2. PICK k \in 1..Len(t[q].in) : t[q].in[k] = j
    BY <2>1
  <2>3. k \in 1..Len(s[q].in) /\ s[q].in[k] = j
    BY <1>2, <1>5, <2>2
  <2> QED
    BY <2>3 DEF QueuedIn
<1> QED
  BY <1>4, <1>5

(* the server takes the first request of a pipe,                           *)
LEMMA QueuesOfTaken ==
  ASSUME NEW s \in Seq(Children), QueuesDiffer(s),
         NEW t \in Seq(Children), NEW p \in 1..Len(s), Len(t) = Len(s), s[p].in # <<>>,
         t[p].in = Tail(s[p].in), \A q \in 1..Len(s) : q # p => t[q] = s[q]
  PROVE  /\ QueuesDiffer(t) /\ Head(s[p].in) \in 1..MaxCalls /\ QueuedIn(s, Head(s[p].in))
         /\ \A j : QueuedIn(t, j) => QueuedIn(s, j) /\ j # Head(s[p].in)
<1>1. /\ Len(s[p].in) \in Nat \ {0} /\ Len(t[p].in) = Len(s[p].in) - 1
      /\ \A k \in 1..(Len(s[p].in) - 1) : t[p].in[k] = s[p].in[k + 1]
      /\ Head(s[p].in) = s[p].in[1] /\ Head(s[p].in) \in 1..MaxCalls
  <2> DEFINE queue == s[p].in
  <2>1. queue \in Seq(1..MaxCalls) /\ queue # <<>> /\ t[p].in = Tail(queue)
    BY InPipes
  <2> HIDE DEF queue
  <2>2. /\ Len(queue) \in Nat \ {0} /\ Len(Tail(queue)) = Len(queue) - 1
        /\ \A k \in 1..(Len(queue) - 1) : Tail(queue)[k] = queue[k + 1]
        /\ Head(queue) = queue[1] /\ Head(queue) \in 1..MaxCalls
    BY <2>1, FirstOfQueue
  <2> QED
    BY <2>1, <2>2, Zenon DEF queue
<1>2. ASSUME NEW q \in 1..Len(t), NEW k \in 1..Len(t[q].in)
      PROVE  IF q = p THEN k + 1 \in 1..Len(s[q].in) /\ t[q].in[k] = s[q].in[k + 1]
             ELSE k \in 1..Len(s[q].in) /\ t[q].in[k] = s[q].in[k]
  <2>1. CASE q = p
    <3>1. k \in 1..(Len(s[p].in) - 1) /\ k + 1 \in 1..Len(s[p].in)
      <4>1. k \in 1..Len(t[p].in) /\ Len(t[p].in) = Len(s[p].in) - 1 /\ Len(s[p].in) \in Nat
        BY <1>1, <2>1, Zenon
      <4> QED
        BY <4>1
    <3> QED
      BY <1>1, <2>1, <3>1, Zenon
  <2>2. CASE q # p
    BY <2>2
  <2> QED
    BY <2>1, <2>2
<1>3. QueuesDiffer(t)
  <2> SUFFICES ASSUME NEW u \in 1..Len(t), NEW q \in 1..Len(t),
                      NEW j \in 1..Len(t[u].in), NEW k \in 1..Len(t[q].in), t[u].in[j] = t[q].in[k]
               PROVE  u = q /\ j = k
    BY DEF QueuesDiffer
  <2> DEFINE a == IF u = p THEN j + 1 ELSE j
             b == IF q = p THEN k + 1 ELSE k
  <2>1. a \in 1..Len(s[u].in) /\ t[u].in[j] = s[u].in[a]
    BY <1>2
  <2>2. b \in 1..Len(s[q].in) /\ t[q].in[k] = s[q].in[b]
    BY <1>2
  <2> HIDE DEF a, b
  <2>3. u = q /\ a = b
    <3>1. u \in 1..Len(s) /\ q \in 1..Len(s) /\ s[u].in[a] = s[q].in[b]
      BY <2>1, <2>2
    <3> QED
      BY <2>1, <2>2, <3>1, WaitsOnce, SMTT(30)
  <2>4. j \in Int /\ k \in Int
    BY InPipes
  <2> QED
    BY <2>3, <2>4 DEF a, b
<1>4. ASSUME NEW j, QueuedIn(t, j) PROVE QueuedIn(s, j) /\ j # Head(s[p].in)
  <2>1. PICK q \in 1..Len(t) : \E k \in 1..Len(t[q].in) : t[q].in[k] = j
    BY <1>4 DEF QueuedIn
  <2>2. PICK k \in 1..Len(t[q].in) : t[q].in[k] = j
    BY <2>1
  <2> DEFINE b == IF q = p THEN k + 1 ELSE k
  <2>3. b \in 1..Len(s[q].in) /\ s[q].in[b] = j
    BY <1>2, <2>2
  <2>4. QueuedIn(s, j)
    BY <2>3 DEF QueuedIn
  <2>5. ASSUME j = s[p].in[1] PROVE FALSE
    <3>1. q = p /\ b = 1
      <4>1. 1 \in 1..Len(s[p].in) /\ q \in 1..Len(s) /\ s[p].in[1] = s[q].in[b]
        BY <1>1, <2>3, <2>5
      <4> QED
        BY <2>3, <4>1, WaitsOnce
    <3>2. k \in Nat \ {0}
      BY InPipes
    <3> QED
      BY <3>1, <3>2
  <2> QED
    BY <1>1, <2>4, <2>5
<1>5. QueuedIn(s, Head(s[p].in))
  BY <1>1 DEF QueuedIn
<1> QED
  BY <1>1, <1>3, <1>4, <1>5

(* or all of them are lost with it.                                        *)
LEMMA QueuesOfLost ==
  ASSUME NEW s \in Seq(Children), QueuesDiffer(s),
         NEW t \in Seq(Children), NEW p \in 1..Len(s), Len(t) = Len(s),
         t[p].in = <<>>, \A q \in 1..Len(s) : q # p => t[q] = s[q]
  PROVE  /\ QueuesDiffer(t) /\ \A j : QueuedIn(t, j) => QueuedIn(s, j)
         /\ s[p].in # <<>> => /\ Head(s[p].in) \in 1..MaxCalls /\ QueuedIn(s, Head(s[p].in))
                              /\ ~QueuedIn(t, Head(s[p].in))
<1>1. ASSUME NEW q \in 1..Len(t), NEW k \in 1..Len(t[q].in)
      PROVE  q # p /\ t[q] = s[q]
  <2>1. CASE q = p
    <3>1. Len(t[q].in) = 0
      BY <2>1
    <3> QED
      BY <3>1
  <2>2. CASE q # p
    BY <2>2
  <2> QED
    BY <2>1, <2>2
<1>2. QueuesDiffer(t)
  <2> SUFFICES ASSUME NEW u \in 1..Len(t), NEW q \in 1..Len(t),
                      NEW j \in 1..Len(t[u].in), NEW k \in 1..Len(t[q].in), t[u].in[j] = t[q].in[k]
               PROVE  u = q /\ j = k
    BY DEF QueuesDiffer
  <2>1. u \in 1..Len(s) /\ q \in 1..Len(s) /\ t[u] = s[u] /\ t[q] = s[q]
    BY <1>1
  <2>2. j \in 1..Len(s[u].in) /\ k \in 1..Len(s[q].in) /\ s[u].in[j] = s[q].in[k]
    BY <2>1
  <2> QED
    BY <2>1, <2>2, WaitsOnce, SMTT(30)
<1>3. ASSUME NEW j, QueuedIn(t, j)
      PROVE  \E q \in 1..Len(s) : q # p /\ \E k \in 1..Len(s[q].in) : s[q].in[k] = j
  <2>1. PICK q \in 1..Len(t) : \E k \in 1..Len(t[q].in) : t[q].in[k] = j
    BY <1>3 DEF QueuedIn
  <2> QED
    BY <1>1, <2>1
<1>4. ASSUME s[p].in # <<>>
      PROVE  /\ Head(s[p].in) \in 1..MaxCalls /\ QueuedIn(s, Head(s[p].in))
             /\ ~QueuedIn(t, Head(s[p].in))
  <2>1. 1 \in 1..Len(s[p].in) /\ Head(s[p].in) = s[p].in[1] /\ Head(s[p].in) \in 1..MaxCalls
    <3> DEFINE queue == s[p].in
    <3>1. queue \in Seq(1..MaxCalls) /\ queue # <<>>
      BY <1>4, InPipes
    <3> HIDE DEF queue
    <3>2. 1 \in 1..Len(queue) /\ Head(queue) = queue[1] /\ Head(queue) \in 1..MaxCalls
      BY <3>1, FirstOfQueue
    <3> QED
      BY <3>2 DEF queue
  <2>2. QueuedIn(s, Head(s[p].in))
    BY <2>1 DEF QueuedIn
  <2>3. ASSUME QueuedIn(t, Head(s[p].in)) PROVE FALSE
    <3>1. PICK q \in 1..Len(s) : q # p /\ \E k \in 1..Len(s[q].in) : s[q].in[k] = Head(s[p].in)
      BY <1>3, <2>3, Zenon
    <3>2. PICK k \in 1..Len(s[q].in) : s[q].in[k] = s[p].in[1]
      BY <2>1, <3>1
    <3> QED
      BY <2>1, <3>1, <3>2, WaitsOnce
  <2> QED
    BY <2>1, <2>2, <2>3
<1> QED
  BY <1>2, <1>3, <1>4 DEF QueuedIn

-----------------------------------------------------------------------------
(* What the handlers of a task do to its request and to the children.      *)
(* The request call_tool starts with.                                      *)
LEMMA NewCall ==
  ASSUME McpTyped, NEW i \in 0..MaxCalls
  PROVE  /\ [Quiet EXCEPT !.id = i] \in Calls
         /\ [Quiet EXCEPT !.id = i].id = i /\ [Quiet EXCEPT !.id = i].outcome = "none"
         /\ [Quiet EXCEPT !.id = i].got = 0 /\ [Quiet EXCEPT !.id = i].stage = "idle"
BY DEF Quiet, Calls, Stages, Outcomes, Tokens

(* The answer to the request r is awaited on p, unless somebody else waits *)
(* for one there.                                                          *)
LEMMA ReadsFromTyped ==
  ASSUME NEW r \in Calls, r.outcome = "none", NEW p \in Nat, NEW now
  PROVE  LET x == ReadsFrom(r, p, now) IN
         /\ x \in Calls /\ x.id = r.id /\ x.got = r.got /\ x.on = p
         /\ \/ x.stage = "reading" /\ x.outcome = "none" /\ x.stage \in {"draining", "reading"}
            \/ x.stage = "ended" /\ x.outcome = "runtime" /\ Readers(p) # {}
<1> DEFINE x == ReadsFrom(r, p, now)
<1>1. CASE now[p].out = <<>> /\ Readers(p) # {}
  <2> DEFINE y == [r EXCEPT !.on = p]
  <2>1. x = Ends(y, "runtime")
    BY <1>1 DEF ReadsFrom
  <2>2. y \in Calls /\ y.id = r.id /\ y.got = r.got /\ y.on = p
    BY DEF Calls
  <2> HIDE DEF x, y
  <2>3. /\ x \in Calls /\ x.id = r.id /\ x.got = r.got /\ x.on = p /\ x.stage = "ended"
        /\ x.outcome = "runtime"
    BY <2>1, <2>2, EndsTyped DEF Outcomes
  <2> QED
    BY <1>1, <2>3 DEF x
<1>2. CASE ~(now[p].out = <<>> /\ Readers(p) # {})
  <2>1. x = [r EXCEPT !.stage = "reading", !.on = p]
    BY <1>2 DEF ReadsFrom
  <2> HIDE DEF x
  <2>2. /\ x \in Calls /\ x.id = r.id /\ x.got = r.got /\ x.stage = "reading"
        /\ x.stage \in {"draining", "reading"} /\ x.on = p /\ x.outcome = "none"
    BY <2>1 DEF Calls, Stages
  <2> QED
    BY <2>2 DEF x
<1> QED
  BY <1>1, <1>2

(* The request r is put into the pipe of p and its answer awaited, unless  *)
(* somebody else reads there.                                              *)
LEMMA WritesDo ==
  ASSUME NEW c \in McpCallers, NEW r \in Calls, r.id # 0, r.outcome = "none",
         NEW now \in Seq(Children), NEW p \in 1..Len(now), Writes(c, r, p, now)
  PROVE  /\ \E x \in Calls :
              /\ request' = [request EXCEPT ![c] = x]
              /\ x.id = r.id /\ x.got = r.got /\ x.on = p
              /\ \/ x.stage \in {"draining", "reading"} /\ x.outcome = "none"
                 \/ x.stage = "ended" /\ x.outcome = "runtime" /\ Waiting(p) # {}
         /\ servers' \in Seq(Children) /\ Len(servers') = Len(now)
         /\ \A q \in 1..Len(now) : q # p => servers'[q] = now[q]
         /\ servers'[p].alive = now[p].alive /\ servers'[p].out = now[p].out
         /\ servers'[p].in = IF p = closing THEN now[p].in ELSE Append(now[p].in, r.id)
         /\ shifted' = IF Waiting(p) = {} THEN shifted ELSE shifted \cup {p}
<1> DEFINE full == p = closing \/ Len(now[p].in) >= PipeRoom
           x == IF full THEN [r EXCEPT !.stage = "draining", !.on = p] ELSE ReadsFrom(r, p, now)
<1>1. /\ request' = [request EXCEPT ![c] = x]
      /\ servers' = IF p = closing THEN now ELSE [now EXCEPT ![p].in = Append(@, r.id)]
      /\ shifted' = IF Waiting(p) = {} THEN shifted ELSE shifted \cup {p}
  BY DEF Writes
<1>2. p \in Nat
  OBVIOUS
<1>3. /\ x \in Calls /\ x.id = r.id /\ x.got = r.got /\ x.on = p
      /\ \/ x.stage \in {"draining", "reading"} /\ x.outcome = "none"
         \/ x.stage = "ended" /\ x.outcome = "runtime" /\ Waiting(p) # {}
  <2>1. CASE full
    <3>1. x = [r EXCEPT !.stage = "draining", !.on = p]
      BY <2>1
    <3> HIDE DEF x, full
    <3> QED
      BY <1>2, <3>1 DEF Calls, Stages
  <2>2. CASE ~full
    <3>1. x = ReadsFrom(r, p, now)
      BY <2>2
    <3>2. Readers(p) # {} => Waiting(p) # {}
      BY DEF Waiting
    <3> HIDE DEF x, full
    <3>3. /\ x \in Calls /\ x.id = r.id /\ x.got = r.got /\ x.on = p
          /\ \/ x.stage = "reading" /\ x.outcome = "none"
             \/ x.stage = "ended" /\ x.outcome = "runtime" /\ Readers(p) # {}
      BY <1>2, <3>1, ReadsFromTyped
    <3> QED
      BY <3>2, <3>3
  <2> QED
    BY <2>1, <2>2
<1>4. /\ servers' \in Seq(Children) /\ Len(servers') = Len(now)
      /\ \A q \in 1..Len(now) : q # p => servers'[q] = now[q]
      /\ servers'[p].alive = now[p].alive /\ servers'[p].out = now[p].out
      /\ servers'[p].in = IF p = closing THEN now[p].in ELSE Append(now[p].in, r.id)
  <2>1. CASE p = closing
    BY <1>1, <2>1
  <2>2. CASE p # closing
    <3> DEFINE v == [now[p] EXCEPT !.in = Append(@, r.id)]
    <3>1. now[p].in \in Seq(1..MaxCalls) /\ now[p] \in Children /\ r.id \in 1..MaxCalls
      BY InPipes DEF Calls
    <3>2. Append(now[p].in, r.id) \in Seq(1..MaxCalls)
      BY <3>1
    <3>3. /\ v \in Children /\ v.alive = now[p].alive /\ v.out = now[p].out
          /\ v.in = Append(now[p].in, r.id)
      BY <3>1, <3>2 DEF Children
    <3>4. servers' = [now EXCEPT ![p] = v]
      BY <1>1, <2>2
    <3> HIDE DEF v
    <3>5. /\ servers' \in Seq(Children) /\ Len(servers') = Len(now)
          /\ \A q \in 1..Len(now) : servers'[q] = IF q = p THEN v ELSE now[q]
      BY <3>3, <3>4, ChildUpdated
    <3> QED
      BY <2>2, <3>3, <3>5
  <2> QED
    BY <2>1, <2>2
<1> HIDE DEF x
<1> QED
  BY <1>1, <1>3, <1>4

(* connect() starts a login or a child, or there is nothing to wait for.   *)
LEMMA ConnectDoes ==
  ASSUME McpTyped, NEW c \in McpCallers, NEW r \in Calls, r.outcome = "none", Connect(c, r)
  PROVE  /\ \E x \in Calls :
              /\ request' = [request EXCEPT ![c] = x]
              /\ x.id = r.id /\ x.got = r.got
              /\ \/ x.stage = "spawning" /\ x.outcome = "none" /\ ~Http
                 \/ x.stage = "login" /\ x.outcome = "none" /\ Http
                 \/ x.stage = "posting" /\ x.outcome = "none" /\ Http /\ r.id # 0
                 \/ x.stage = "ended" /\ x.outcome = "connected" /\ Http
         /\ session' \in [open : BOOLEAN, token : Tokens]
         /\ crossed' = IF Http THEN crossed ELSE crossed \/ closing # 0 \/ At("spawning") # {}
<1>1. CASE Http
  <2> DEFINE x == IF session.token = "none" /\ setup.credentials THEN [r EXCEPT !.stage = "login"]
                  ELSE IF r.id = 0 THEN Ends(r, "connected")
                  ELSE [r EXCEPT !.stage = "posting", !.token = session.token]
  <2>1. request' = [request EXCEPT ![c] = x] /\ session' = [session EXCEPT !.open = TRUE]
        /\ crossed' = crossed
    BY <1>1 DEF Connect
  <2>2. /\ session \in [open : BOOLEAN, token : Tokens] /\ session.token \in Tokens
    BY DEF McpTyped
  <2>3. /\ x \in Calls /\ x.id = r.id /\ x.got = r.got
        /\ \/ x.stage = "login" /\ x.outcome = "none"
           \/ x.stage = "posting" /\ x.outcome = "none" /\ r.id # 0
           \/ x.stage = "ended" /\ x.outcome = "connected"
    <3>1. CASE session.token = "none" /\ setup.credentials
      BY <3>1 DEF Calls, Stages
    <3>2. CASE ~(session.token = "none" /\ setup.credentials) /\ r.id = 0
      BY <3>2 DEF Ends, Calls, Stages, Outcomes
    <3>3. CASE ~(session.token = "none" /\ setup.credentials) /\ r.id # 0
      BY <2>2, <3>3 DEF Calls, Stages
    <3> QED
      BY <3>1, <3>2, <3>3
  <2> HIDE DEF x
  <2>4. session' \in [open : BOOLEAN, token : Tokens]
    BY <2>1, <2>2
  <2> QED
    BY <1>1, <2>1, <2>3, <2>4
<1>2. CASE ~Http
  <2> DEFINE x == [r EXCEPT !.stage = "spawning"]
  <2>1. /\ request' = [request EXCEPT ![c] = x] /\ session' = session
        /\ crossed' = (crossed \/ closing # 0 \/ At("spawning") # {})
    BY <1>2 DEF Connect
  <2>2. x \in Calls /\ x.id = r.id /\ x.got = r.got /\ x.stage = "spawning" /\ x.outcome = "none"
    BY DEF Calls, Stages
  <2>3. session' \in [open : BOOLEAN, token : Tokens]
    BY <2>1 DEF McpTyped
  <2> HIDE DEF x
  <2> QED
    BY <1>2, <2>1, <2>2, <2>3
<1> QED
  BY <1>1, <1>2

(* McpTyped, for one task.                                                 *)
LEMMA RequestFacts ==
  ASSUME McpTyped, NEW c \in McpCallers
  PROVE  /\ request[c] \in Calls /\ StageFits(request[c])
         /\ request[c].stage \in Stages /\ request[c].id \in 0..MaxCalls
         /\ request[c].outcome \in Outcomes /\ request[c].got \in Nat
BY DEF McpTyped, Calls

(* What is left of McpTyped once the request is known to be of its type.   *)
LEMMA McpTypedRest ==
  ASSUME McpTyped, setup' = setup, nextId' \in 0..MaxCalls,
         request' \in [McpCallers -> Calls], \A c \in McpCallers : StageFits(request[c])',
         servers' \in Seq(Children), process' \in 0..Len(servers'), closing' \in 0..Len(servers'),
         session' \in [open : BOOLEAN, token : Tokens], effects' \in [1..MaxCalls -> Nat],
         crossed' \in BOOLEAN, Http => servers' = <<>>
  PROVE  McpTyped'
BY DEF McpTyped, Http

(* The tool is carried out once more, for one request.                     *)
LEMMA ExecutedTyped ==
  ASSUME McpTyped, NEW i \in 1..MaxCalls
  PROVE  /\ Executed(i) \in [1..MaxCalls -> Nat]
         /\ \A j \in 1..MaxCalls : Executed(i)[j] = IF j = i THEN effects[i] + (IF Permitted THEN 1 ELSE 0)
                                                    ELSE effects[j]
BY DEF Executed, McpTyped

(* The child process of p answers one request, or dies.                    *)
LEMMA ServerSteps ==
  ASSUME McpTyped, NEW p \in 1..Len(servers), ServerAnswers(p) \/ ServerDies(p)
  PROVE  \E v \in Children :
           /\ servers' = [servers EXCEPT ![p] = v]
           /\ \/ /\ ServerAnswers(p) /\ servers[p].in # <<>> /\ v.alive
                 /\ v.in = Tail(servers[p].in) /\ v.out = Append(servers[p].out, Head(servers[p].in))
              \/ ServerDies(p) /\ ~v.alive /\ v.in = <<>> /\ v.out = servers[p].out
<1>1. /\ servers \in Seq(Children) /\ servers[p] \in Children
      /\ servers[p].in \in Seq(1..MaxCalls) /\ servers[p].out \in Seq(1..MaxCalls)
      /\ servers[p].alive \in BOOLEAN
  BY InPipes DEF McpTyped
<1>2. CASE ServerAnswers(p)
  <2> DEFINE v == [servers[p] EXCEPT !.in = Tail(@), !.out = Append(@, Head(servers[p].in))]
  <2>1. /\ servers[p].in # <<>> /\ servers[p].alive
        /\ servers' = [servers EXCEPT ![p] = v]
    BY <1>1, <1>2 DEF ServerAnswers, HandleMcpRequest
  <2>2. Head(servers[p].in) \in 1..MaxCalls /\ Tail(servers[p].in) \in Seq(1..MaxCalls)
    BY <1>1, <2>1, FirstOfQueue
  <2>3. Append(servers[p].out, Head(servers[p].in)) \in Seq(1..MaxCalls)
    BY <1>1, <2>2
  <2>4. /\ v \in Children /\ v.alive /\ v.in = Tail(servers[p].in)
        /\ v.out = Append(servers[p].out, Head(servers[p].in))
    BY <1>1, <2>1, <2>2, <2>3 DEF Children
  <2> HIDE DEF v
  <2> QED
    BY <1>2, <2>1, <2>4
<1>3. CASE ServerDies(p)
  <2> DEFINE v == [servers[p] EXCEPT !.alive = FALSE, !.in = <<>>]
  <2>1. servers' = [servers EXCEPT ![p] = v]
    BY <1>1, <1>3 DEF ServerDies
  <2>2. <<>> \in Seq(1..MaxCalls)
    OBVIOUS
  <2>3. v \in Children /\ ~v.alive /\ v.in = <<>> /\ v.out = servers[p].out
    BY <1>1, <2>2 DEF Children
  <2> HIDE DEF v
  <2> QED
    BY <1>3, <2>1, <2>3
<1> QED
  BY <1>2, <1>3

-----------------------------------------------------------------------------
(* What the steps do, one operator per kind of step: x is the new request  *)
(* of the task c.  A call or a connection begins,                          *)
Moves(c, x) ==
  /\ x \in Calls /\ request' = [request EXCEPT ![c] = x] /\ Fits(x, nextId', Len(servers'), Http)
  /\ session' \in [open : BOOLEAN, token : Tokens]

Begins(c, x) ==
  /\ Free(c) /\ Moves(c, x)
  /\ UNCHANGED <<setup, servers, process, closing, effects, shifted>>
  /\ \/ x.id = 0 /\ nextId' = nextId
     \/ x.id = nextId + 1 /\ nextId' = nextId + 1
  /\ x.stage \in {"spawning", "login", "posting", "ended"}
  /\ x.outcome \in {"none", "connected", "schema"}
  /\ IF x.stage = "spawning"
     THEN ~Alive(process) /\ crossed' = (crossed \/ closing # 0 \/ At("spawning") # {})
     ELSE crossed' = crossed

(* a request goes into the pipe of p, a new child if the task was spawning *)
(* (now: the children with it),                                            *)
Sends(c, x, p, now) ==
  /\ Moves(c, x)
  /\ UNCHANGED <<setup, closing, effects, crossed>> /\ ~Http
  /\ \/ /\ Free(c) /\ nextId' = nextId + 1 /\ x.id = nextId + 1
        /\ now = servers /\ p = process /\ process' = process /\ Alive(process)
     \/ /\ request[c].stage = "spawning" /\ nextId' = nextId /\ x.id = request[c].id
        /\ now = Append(servers, NewServer) /\ p = Len(servers) + 1 /\ process' = p
  /\ x.id # 0 /\ x.on = p
  /\ \/ x.stage \in {"draining", "reading"} /\ x.outcome = "none"
     \/ x.stage = "ended" /\ x.outcome = "runtime" /\ Waiting(p) # {}
  /\ servers' \in Seq(Children) /\ Len(servers') = Len(now)
  /\ \A q \in 1..Len(now) : q # p => servers'[q] = now[q]
  /\ servers'[p].alive = now[p].alive /\ servers'[p].out = now[p].out
  /\ servers'[p].in = IF p = closing THEN now[p].in ELSE Append(now[p].in, x.id)
  /\ shifted' = IF Waiting(p) = {} THEN shifted ELSE shifted \cup {p}

(* a child is there and nothing was to be sent,                            *)
Opens(c, x) ==
  /\ Moves(c, x)
  /\ request[c].stage = "spawning" /\ x.id = 0 /\ x.stage = "ended" /\ x.outcome = "connected"
  /\ servers' = Append(servers, NewServer) /\ process' = Len(servers) + 1
  /\ UNCHANGED <<setup, nextId, closing, effects, shifted, crossed>>

(* the call goes on or gives up (its pipe is then no longer in step, is the*)
(* closed pipe of a dead child, or somebody else reads there),             *)
GivesUp(c) ==
  LET p == request[c].on IN
  \/ p \in shifted'
  \/ ~servers[p].alive /\ servers[p].out = <<>>
  \/ request[c].stage = "draining" /\ Readers(p) # {}

Advances(c, x) ==
  /\ ~Free(c) /\ Moves(c, x)
  /\ UNCHANGED <<setup, nextId, servers, process, closing, effects, crossed>>
  /\ x.id = request[c].id
  /\ x.stage \in {"ended", "renewing", "posting", "reposting"} /\ x.outcome # "answered"
  /\ shifted \subseteq shifted'
  /\ request[c].stage \in {"draining", "reading"} =>
       x.stage = "ended" /\ x.outcome \in {"transport", "runtime"} /\ GivesUp(c)

(* the call goes on behind drain(),                                        *)
Resumes(c, x) ==
  /\ Moves(c, x)
  /\ UNCHANGED <<setup, nextId, servers, process, closing, effects, crossed>>
  /\ request[c].stage = "draining" /\ x.stage = "reading" /\ x.outcome = "none"
  /\ x.id = request[c].id /\ x.on = process /\ process # 0
  /\ shifted' = IF process = request[c].on THEN shifted
                ELSE shifted \cup {request[c].on, process}

(* a line is read,                                                         *)
Receives(c, x) ==
  /\ Moves(c, x)
  /\ UNCHANGED <<setup, nextId, process, closing, effects, shifted, crossed>>
  /\ request[c].stage = "reading" /\ servers[request[c].on].out # <<>>
  /\ x.id = request[c].id /\ x.on = request[c].on /\ x.got = Head(servers[request[c].on].out)
  /\ x.stage = "ended" /\ x.outcome = "answered"
  /\ servers' = [servers EXCEPT ![request[c].on].out = Tail(@)]

(* a post comes to its end.                                                *)
Posts(c, x) ==
  /\ Moves(c, x)
  /\ UNCHANGED <<setup, nextId, servers, process, closing, shifted, crossed>>
  /\ request[c].stage \in {"posting", "reposting"}
  /\ x.id = request[c].id /\ x.stage = "ended"
  /\ x.outcome = "transport" \/ (x.outcome = "answered" /\ x.got = x.id)
  /\ effects' = effects \/ effects' = Executed(request[c].id)

(* Every step of a task is of one of these kinds.                          *)
LEMMA StepKinds ==
  ASSUME McpTyped, NEW c \in McpCallers,
         Enter(c) \/ CallRefused(c) \/ SendRpc(c) \/ Proceeds(c)
  PROVE  \/ \E x \in Calls : \/ Begins(c, x) \/ Opens(c, x) \/ Advances(c, x)
                             \/ Resumes(c, x) \/ Receives(c, x) \/ Posts(c, x)
         \/ \E x \in Calls, now \in Seq(Children) : \E p \in 1..Len(now) : Sends(c, x, p, now)
<1>0. /\ nextId \in Nat /\ MaxCalls \in Nat /\ servers \in Seq(Children) /\ Len(servers) \in Nat
      /\ process \in 0..Len(servers) /\ nextId \in 0..MaxCalls
      /\ session \in [open : BOOLEAN, token : Tokens]
  BY McpAssumption DEF McpTyped
<1>r. request[c] \in Calls /\ StageFits(request[c]) /\ request[c].stage \in Stages
  BY RequestFacts
<1>1. CASE Enter(c)
  <2>1. Quiet \in Calls /\ Quiet.outcome = "none" /\ Quiet.id = 0
    BY <1>0 DEF Quiet, Calls, Stages, Outcomes, Tokens
  <2>2. /\ Connect(c, Quiet) /\ Free(c) /\ ~Alive(process)
        /\ UNCHANGED <<setup, nextId, servers, process, closing, effects, shifted>>
    BY <1>1 DEF Enter
  <2>3. PICK x \in Calls :
          /\ request' = [request EXCEPT ![c] = x] /\ x.id = 0
          /\ \/ x.stage = "spawning" /\ x.outcome = "none" /\ ~Http
             \/ x.stage = "login" /\ x.outcome = "none" /\ Http
             \/ x.stage = "ended" /\ x.outcome = "connected" /\ Http
    BY <2>1, <2>2, ConnectDoes
  <2>4. /\ crossed' = IF Http THEN crossed ELSE crossed \/ closing # 0 \/ At("spawning") # {}
        /\ session' \in [open : BOOLEAN, token : Tokens]
    BY <2>1, <2>2, ConnectDoes
  <2>5. Fits(x, nextId', Len(servers'), Http)
    BY <1>0, <2>2, <2>3 DEF StageFits, Fits, Http
  <2>6. Begins(c, x)
    BY <2>2, <2>3, <2>4, <2>5 DEF Begins, Moves
  <2> QED
    BY <2>6
<1>2. CASE CallRefused(c)
  <2> DEFINE x == Ends(Quiet, "schema")
  <2>1. Quiet \in Calls /\ Quiet.id = 0 /\ "schema" \in Outcomes
    BY <1>0 DEF Quiet, Calls, Stages, Outcomes, Tokens
  <2>2. x \in Calls /\ x.stage = "ended" /\ x.id = 0 /\ x.outcome = "schema"
    BY <2>1, EndsTyped
  <2>3. /\ request' = [request EXCEPT ![c] = x] /\ Free(c)
        /\ UNCHANGED <<setup, nextId, servers, process, closing, session, effects, shifted, crossed>>
    BY <1>2 DEF CallRefused
  <2> HIDE DEF x
  <2>4. Fits(x, nextId', Len(servers'), Http)
    BY <1>0, <2>2, <2>3 DEF StageFits, Fits
  <2>5. Begins(c, x)
    BY <1>0, <2>2, <2>3, <2>4 DEF Begins, Moves
  <2> QED
    BY <2>2, <2>5
<1>3. CASE SendRpc(c)
  <2> DEFINE r == [Quiet EXCEPT !.id = nextId + 1]
  <2>1. /\ nextId' = nextId + 1 /\ nextId < MaxCalls /\ Free(c)
        /\ UNCHANGED <<setup, process, closing, effects>>
        /\ IF IsConnected THEN Dispatch(c, r) /\ UNCHANGED <<session, crossed>>
           ELSE Connect(c, r) /\ UNCHANGED <<servers, shifted>>
    BY <1>3 DEF SendRpc
  <2>2. r \in Calls /\ r.id = nextId + 1 /\ r.outcome = "none" /\ nextId + 1 # 0
    <3>1. nextId + 1 \in 0..MaxCalls /\ nextId + 1 # 0
      BY <1>0, <2>1
    <3> QED
      BY <3>1, NewCall
  <2> HIDE DEF r
  <2>3. CASE ~IsConnected
    <3>1. PICK x \in Calls :
            /\ request' = [request EXCEPT ![c] = x] /\ x.id = nextId + 1
            /\ \/ x.stage = "spawning" /\ x.outcome = "none" /\ ~Http
               \/ x.stage \in {"login", "posting"} /\ x.outcome = "none" /\ Http
               \/ x.stage = "ended" /\ x.outcome = "connected" /\ Http
      BY <2>1, <2>2, <2>3, ConnectDoes
    <3>2. /\ crossed' = IF Http THEN crossed ELSE crossed \/ closing # 0 \/ At("spawning") # {}
          /\ session' \in [open : BOOLEAN, token : Tokens]
      BY <2>1, <2>2, <2>3, ConnectDoes
    <3>3. Http \/ ~Alive(process)
      BY <2>3 DEF IsConnected
    <3>4. Fits(x, nextId', Len(servers'), Http)
      BY <1>0, <2>1, <2>2, <3>1 DEF StageFits, Fits, Http
    <3>5. Begins(c, x)
      BY <2>1, <2>3, <3>1, <3>2, <3>3, <3>4 DEF Begins, Moves
    <3> QED
      BY <3>5
  <2>4. CASE IsConnected /\ Http
    <3> DEFINE y == [r EXCEPT !.stage = "posting", !.token = session.token]
    <3>1. request' = [request EXCEPT ![c] = y] /\ UNCHANGED <<servers, shifted, session, crossed>>
      BY <2>1, <2>4 DEF Dispatch
    <3>2. y \in Calls /\ y.id = nextId + 1 /\ y.stage = "posting" /\ y.outcome = "none"
      <4>1. session.token \in Tokens
        BY DEF McpTyped
      <4> QED
        BY <4>1, <2>2 DEF Calls, Stages
    <3> HIDE DEF y
    <3>3. Fits(y, nextId', Len(servers'), Http)
      BY <1>0, <2>1, <2>2, <2>4, <3>2 DEF StageFits, Fits, Http
    <3>4. Begins(c, y)
      BY <1>0, <2>1, <3>1, <3>2, <3>3 DEF Begins, Moves
    <3> QED
      BY <3>2, <3>4
  <2>5. CASE IsConnected /\ ~Http
    <3>1. /\ Writes(c, r, process, servers) /\ process \in 1..Len(servers) /\ r.id # 0
          /\ Alive(process) /\ UNCHANGED <<session, crossed>>
      BY <1>0, <2>1, <2>2, <2>5 DEF Dispatch, IsConnected, Alive
    <3>a. /\ r \in Calls /\ r.id # 0 /\ r.outcome = "none"
          /\ servers \in Seq(Children) /\ process \in 1..Len(servers) /\ Writes(c, r, process, servers)
      BY <1>0, <2>2, <3>1
    <3>2. PICK x \in Calls :
            /\ request' = [request EXCEPT ![c] = x]
            /\ x.id = r.id /\ x.got = r.got /\ x.on = process
            /\ \/ x.stage \in {"draining", "reading"} /\ x.outcome = "none"
               \/ x.stage = "ended" /\ x.outcome = "runtime" /\ Waiting(process) # {}
      BY <3>a, WritesDo
    <3>3. /\ servers' \in Seq(Children) /\ Len(servers') = Len(servers)
          /\ \A q \in 1..Len(servers) : q # process => servers'[q] = servers[q]
          /\ servers'[process].alive = servers[process].alive
          /\ servers'[process].out = servers[process].out
          /\ servers'[process].in = IF process = closing THEN servers[process].in
                                    ELSE Append(servers[process].in, r.id)
          /\ shifted' = IF Waiting(process) = {} THEN shifted ELSE shifted \cup {process}
      BY <3>a, WritesDo
    <3>4. Fits(x, nextId', Len(servers'), Http)
      BY <1>0, <2>1, <2>2, <2>5, <3>1, <3>2, <3>3 DEF StageFits, Fits, Http
    <3>5. session' \in [open : BOOLEAN, token : Tokens]
      BY <1>0, <3>1
    <3>6. Sends(c, x, process, servers)
      BY <2>1, <2>2, <2>5, <3>1, <3>2, <3>3, <3>4, <3>5, Zenon DEF Sends, Moves
    <3> QED
      BY <1>0, <3>1, <3>6
  <2> QED
    BY <2>3, <2>4, <2>5
<1>4. CASE Spawned(c)
  <2> DEFINE now == Append(servers, NewServer)
             p == Len(servers) + 1
  <2>1. /\ process' = p /\ request[c].stage = "spawning" /\ request[c].outcome = "none" /\ ~Http
        /\ UNCHANGED <<setup, nextId, closing, session, effects, crossed>>
    BY <1>4, <1>r DEF Spawned, StageFits, Fits
  <2>2. now \in Seq(Children) /\ Len(now) = Len(servers) + 1 /\ p \in 1..Len(now)
    BY <1>0, ChildAdded
  <2>3. CASE request[c].id = 0
    <3> DEFINE y == Ends(request[c], "connected")
    <3>1. request' = [request EXCEPT ![c] = y] /\ servers' = now /\ shifted' = shifted
      BY <1>4, <2>3 DEF Spawned, End, McpTyped
    <3>2. y \in Calls /\ y.stage = "ended" /\ y.id = 0 /\ y.outcome = "connected"
      BY <1>r, <2>3, EndsTyped DEF Outcomes
    <3> HIDE DEF y
    <3>3. Fits(y, nextId', Len(servers'), Http)
      BY <1>0, <2>1, <3>2 DEF StageFits, Fits
    <3>4. Opens(c, y)
      BY <1>0, <2>1, <3>1, <3>2, <3>3 DEF Opens, Moves
    <3> QED
      BY <3>2, <3>4
  <2>4. CASE request[c].id # 0
    <3>1. Writes(c, request[c], p, now)
      BY <1>4, <2>4 DEF Spawned
    <3>d. now = Append(servers, NewServer) /\ p = Len(servers) + 1
      OBVIOUS
    <3> HIDE DEF now, p
    <3>2. PICK x \in Calls :
            /\ request' = [request EXCEPT ![c] = x]
            /\ x.id = request[c].id /\ x.got = request[c].got /\ x.on = p
            /\ \/ x.stage \in {"draining", "reading"} /\ x.outcome = "none"
               \/ x.stage = "ended" /\ x.outcome = "runtime" /\ Waiting(p) # {}
      BY <1>r, <2>1, <2>2, <2>4, <3>1, WritesDo
    <3>3. /\ servers' \in Seq(Children) /\ Len(servers') = Len(now)
          /\ \A q \in 1..Len(now) : q # p => servers'[q] = now[q]
          /\ servers'[p].alive = now[p].alive
          /\ servers'[p].out = now[p].out
          /\ servers'[p].in = IF p = closing THEN now[p].in
                                    ELSE Append(now[p].in, request[c].id)
          /\ shifted' = IF Waiting(p) = {} THEN shifted ELSE shifted \cup {p}
      BY <1>r, <2>1, <2>2, <2>4, <3>1, WritesDo
    <3>4. Fits(x, nextId', Len(servers'), Http)
      <4>1. p \in 1..Len(servers')
        BY <2>2, <3>3
      <4> QED
        BY <1>0, <1>r, <2>1, <2>4, <3>2, <4>1 DEF StageFits, Fits, Http
    <3>5. session' \in [open : BOOLEAN, token : Tokens]
      BY <1>0, <2>1
    <3>6. Sends(c, x, p, now)
      BY <2>1, <2>4, <3>2, <3>3, <3>4, <3>5, <3>d, Zenon DEF Sends, Moves
    <3> QED
      BY <2>2, <3>6
  <2> QED
    BY <2>3, <2>4
<1>5. ASSUME NEW o \in Outcomes, o # "answered", ~Free(c), request' = [request EXCEPT ![c] = Ends(@, o)],
             UNCHANGED <<setup, nextId, servers, process, closing, session, effects, crossed>>,
             shifted \subseteq shifted',
             request[c].stage \in {"draining", "reading"} => o \in {"transport", "runtime"} /\ GivesUp(c)
      PROVE  \E x \in Calls : Advances(c, x)
  <2> DEFINE y == Ends(request[c], o)
  <2>1. /\ request' = [request EXCEPT ![c] = y]
        /\ y \in Calls /\ y.stage = "ended" /\ y.id = request[c].id /\ y.outcome = o
    BY <1>5, <1>r, EndsTyped DEF McpTyped
  <2> HIDE DEF y
  <2>2. Fits(y, nextId', Len(servers'), Http)
    BY <1>5, <1>r, <2>1 DEF StageFits, Fits
  <2>3. Advances(c, y)
    BY <1>0, <1>5, <2>1, <2>2 DEF Advances, Moves
  <2> QED
    BY <2>1, <2>3
<1>6. CASE SpawnFails(c) \/ DrainFails(c) \/ ReadsEof(c) \/ TimesOut(c) \/ LoginFails(c)
  <2>1. ~Free(c) /\ UNCHANGED <<setup, nextId, servers, process, closing, session, effects, crossed>>
    BY <1>6 DEF SpawnFails, DrainFails, ReadsEof, TimesOut, LoginFails, Free
  <2>2. PICK o \in {"auth", "transport"} :
          /\ request' = [request EXCEPT ![c] = Ends(@, o)]
          /\ request[c].stage \in {"draining", "reading"} => o = "transport"
    BY <1>6 DEF SpawnFails, DrainFails, ReadsEof, TimesOut, LoginFails, End
  <2>3. shifted \subseteq shifted' /\ (request[c].stage \in {"draining", "reading"} => GivesUp(c))
    BY <1>6 DEF SpawnFails, DrainFails, ReadsEof, TimesOut, LoginFails, GivesUp
  <2>4. o \in Outcomes /\ o # "answered"
    BY <2>2 DEF Outcomes
  <2> QED
    BY <1>5, <2>1, <2>2, <2>3, <2>4
<1>12. CASE Drained(c)
  <2>1. /\ request[c].stage = "draining" /\ request[c].on \in 1..Len(servers) /\ ~Free(c)
        /\ request[c].outcome = "none" /\ request[c].id # 0 /\ ~Http
        /\ UNCHANGED <<setup, nextId, servers, process, closing, session, effects, crossed>>
        /\ shifted' = IF process = request[c].on THEN shifted
                      ELSE shifted \cup {request[c].on, process}
    BY <1>12, <1>r DEF Drained, Free, StageFits, Fits
  <2>2. CASE process = 0
    <3>1. request' = [request EXCEPT ![c] = Ends(@, "runtime")]
      BY <1>12, <2>2 DEF Drained
    <3>2. shifted \subseteq shifted' /\ GivesUp(c) /\ "runtime" \in Outcomes
      BY <2>1, <2>2 DEF GivesUp, Outcomes
    <3> QED
      BY <1>5, <2>1, <3>1, <3>2
  <2>3. CASE process # 0
    <3> DEFINE y == ReadsFrom(request[c], process, servers)
    <3>1. request' = [request EXCEPT ![c] = y]
      BY <1>12, <2>3 DEF Drained, McpTyped
    <3>2. process \in Nat
      BY <1>0
    <3>3. /\ y \in Calls /\ y.id = request[c].id
          /\ \/ y.stage = "reading" /\ y.on = process /\ y.outcome = "none"
             \/ y.stage = "ended" /\ y.outcome = "runtime" /\ Readers(process) # {}
      BY <1>r, <2>1, <3>2, ReadsFromTyped
    <3> HIDE DEF y
    <3>4. Fits(y, nextId', Len(servers'), Http)
      BY <1>0, <1>r, <2>1, <2>3, <3>3 DEF StageFits, Fits
    <3>5. Moves(c, y)
      BY <1>0, <2>1, <3>1, <3>3, <3>4 DEF Moves
    <3>6. CASE y.stage = "reading" /\ y.on = process /\ y.outcome = "none"
      BY <2>1, <2>3, <3>3, <3>5, <3>6 DEF Resumes
    <3>7. CASE y.stage = "ended" /\ y.outcome = "runtime" /\ Readers(process) # {}
      <4>1. GivesUp(c) /\ shifted \subseteq shifted'
        BY <2>1, <3>7 DEF GivesUp
      <4> QED
        BY <2>1, <3>3, <3>5, <3>7, <4>1 DEF Advances
    <3> QED
      BY <3>3, <3>6, <3>7
  <2> QED
    BY <2>2, <2>3
<1>7. CASE PostLost(c)
  <2> DEFINE y == Ends(request[c], "transport")
  <2>1. /\ request' = [request EXCEPT ![c] = y]
        /\ y \in Calls /\ y.stage = "ended" /\ y.id = request[c].id /\ y.outcome = "transport"
    BY <1>7, <1>r, EndsTyped DEF PostLost, End, Outcomes, McpTyped
  <2>2. /\ request[c].stage \in {"posting", "reposting"}
        /\ UNCHANGED <<setup, nextId, servers, process, closing, session, shifted, crossed>>
        /\ effects' = effects \/ effects' = Executed(request[c].id)
    BY <1>7 DEF PostLost
  <2> HIDE DEF y
  <2>3. Fits(y, nextId', Len(servers'), Http)
    BY <1>r, <2>1, <2>2 DEF StageFits, Fits
  <2>4. Posts(c, y)
    BY <1>0, <2>1, <2>2, <2>3 DEF Posts, Moves
  <2> QED
    BY <2>1, <2>4
<1>8. CASE Reads(c)
  <2> DEFINE p == request[c].on
             y == [request[c] EXCEPT !.got = Head(servers[p].out)]
             x == Ends(y, "answered")
  <2>1. p \in 1..Len(servers) /\ servers[p].out # <<>> /\ request[c].stage = "reading"
    BY <1>8, <1>r DEF Reads, StageFits, Fits
  <2>2. /\ request' = [request EXCEPT ![c] = Ends([@ EXCEPT !.got = Head(servers[p].out)], "answered")]
        /\ servers' = [servers EXCEPT ![p].out = Tail(@)]
        /\ UNCHANGED <<setup, nextId, process, closing, session, effects, shifted, crossed>>
    BY <1>8 DEF Reads
  <2>3. Head(servers[p].out) \in Nat
    <3>1. servers[p].out \in Seq(1..MaxCalls)
      BY <1>0, <2>1, InPipes
    <3>2. Head(servers[p].out) \in 1..MaxCalls
      BY <2>1, <3>1, FirstOfQueue
    <3> QED
      BY <3>2
  <2>4. y \in Calls /\ y.id = request[c].id /\ y.on = p /\ y.got = Head(servers[p].out)
    BY <1>r, <2>3 DEF Calls
  <2>5. request' = [request EXCEPT ![c] = x]
    BY <2>2 DEF McpTyped
  <2> HIDE DEF y
  <2>6. /\ x \in Calls /\ x.stage = "ended" /\ x.outcome = "answered" /\ x.id = request[c].id
        /\ x.on = p /\ x.got = Head(servers[p].out)
    BY <2>4, EndsTyped DEF Outcomes
  <2> HIDE DEF x
  <2>7. Fits(x, nextId', Len(servers'), Http)
    BY <1>r, <2>2, <2>6 DEF StageFits, Fits
  <2>8. Receives(c, x)
    BY <1>0, <2>1, <2>2, <2>5, <2>6, <2>7 DEF Receives, Moves
  <2> QED
    BY <2>6, <2>8
<1>9. CASE PostRefused(c)
  <2>1. /\ ~Free(c)
        /\ UNCHANGED <<setup, nextId, servers, process, closing, session, effects, shifted, crossed>>
        /\ "auth" \in Outcomes /\ request[c].stage \notin {"draining", "reading"}
    BY <1>9 DEF PostRefused, Free, Outcomes
  <2>2. CASE End(c, "auth")
    BY <1>5, <2>1, <2>2 DEF End
  <2>3. CASE request[c].stage = "posting" /\ request' = [request EXCEPT ![c].stage = "renewing"]
    <3> DEFINE y == [request[c] EXCEPT !.stage = "renewing"]
    <3>1. /\ y \in Calls /\ y.stage = "renewing" /\ y.id = request[c].id
          /\ y.outcome = request[c].outcome
      BY <1>r DEF Calls, Stages
    <3>2. request' = [request EXCEPT ![c] = y]
      BY <2>3
    <3>3. request[c].outcome # "answered"
      BY <2>3, <1>r DEF StageFits, Fits
    <3> HIDE DEF y
    <3>4. Fits(y, nextId', Len(servers'), Http)
      BY <1>r, <2>1, <2>3, <3>1 DEF StageFits, Fits, Http
    <3>5. Advances(c, y)
      BY <1>0, <2>1, <3>1, <3>2, <3>3, <3>4 DEF Advances, Moves
    <3> QED
      BY <3>1, <3>5
  <2> QED
    BY <1>9, <2>2, <2>3 DEF PostRefused
<1>10. CASE PostAnswered(c)
  <2> DEFINE y == [request[c] EXCEPT !.got = request[c].id]
             x == Ends(y, "answered")
  <2>1. y \in Calls /\ y.id = request[c].id /\ y.got = request[c].id
    BY <1>r DEF Calls
  <2>2. /\ request' = [request EXCEPT ![c] = x] /\ effects' = Executed(request[c].id)
        /\ request[c].stage \in {"posting", "reposting"}
        /\ UNCHANGED <<setup, nextId, servers, process, closing, session, shifted, crossed>>
    BY <1>10 DEF PostAnswered, HandleMcpRequest, McpTyped
  <2> HIDE DEF y
  <2>3. /\ x \in Calls /\ x.stage = "ended" /\ x.outcome = "answered" /\ x.id = request[c].id
        /\ x.got = request[c].id
    BY <2>1, EndsTyped DEF Outcomes
  <2> HIDE DEF x
  <2>4. Fits(x, nextId', Len(servers'), Http)
    BY <1>r, <2>2, <2>3 DEF StageFits, Fits
  <2>5. Posts(c, x)
    BY <1>0, <2>2, <2>3, <2>4 DEF Posts, Moves
  <2> QED
    BY <2>3, <2>5
<1>11. CASE LoggedIn(c)
  <2> DEFINE y == CASE request[c].stage = "renewing" ->
                         [request[c] EXCEPT !.stage = "reposting", !.token = "valid"]
                    [] request[c].id = 0 -> Ends(request[c], "connected")
                    [] OTHER -> [request[c] EXCEPT !.stage = "posting", !.token = "valid"]
  <2>1. /\ request' = [request EXCEPT ![c] = y] /\ request[c].stage \in {"login", "renewing"}
        /\ UNCHANGED <<setup, nextId, servers, process, closing, effects, shifted, crossed>>
        /\ session' \in [open : BOOLEAN, token : Tokens]
        /\ request[c].outcome = "none" /\ ~Free(c)
    BY <1>11, <1>r DEF LoggedIn, StageFits, Fits, McpTyped, Free, Tokens
  <2>2. /\ y \in Calls /\ y.id = request[c].id /\ y.outcome \in {"none", "connected"}
        /\ \/ y.stage = "ended"
           \/ y.stage \in {"posting", "reposting"} /\ y.id # 0 /\ y.outcome = "none"
    <3>1. CASE request[c].stage = "renewing"
      <4>1. request[c].id # 0
        BY <3>1, <1>r DEF StageFits, Fits
      <4>2. y = [request[c] EXCEPT !.stage = "reposting", !.token = "valid"]
        BY <3>1, <4>1
      <4> HIDE DEF y
      <4> QED
        BY <1>r, <2>1, <4>1, <4>2 DEF Calls, Stages, Tokens
    <3>2. CASE request[c].stage = "login" /\ request[c].id = 0
      <4>1. y = Ends(request[c], "connected")
        BY <3>2
      <4> HIDE DEF y
      <4> QED
        BY <1>r, <4>1, EndsTyped DEF Outcomes
    <3>3. CASE request[c].stage = "login" /\ request[c].id # 0
      <4>1. y = [request[c] EXCEPT !.stage = "posting", !.token = "valid"]
        BY <3>3
      <4> HIDE DEF y
      <4> QED
        BY <1>r, <2>1, <3>3, <4>1 DEF Calls, Stages, Tokens
    <3> QED
      BY <2>1, <3>1, <3>2, <3>3
  <2> HIDE DEF y
  <2>3. Fits(y, nextId', Len(servers'), Http)
    BY <1>r, <2>1, <2>2 DEF StageFits, Fits, Http
  <2>4. Advances(c, y)
    BY <1>0, <2>1, <2>2, <2>3 DEF Advances, Moves
  <2> QED
    BY <2>2, <2>4
<1> QED
  BY <1>1, <1>2, <1>3, <1>4, <1>6, <1>7, <1>8, <1>9, <1>10, <1>11, <1>12 DEF Proceeds

(* Every step keeps McpTyped,                                              *)
LEMMA McpTypedStep == McpTyped /\ [McpNext]_mcpVars => McpTyped'
<1> SUFFICES ASSUME McpTyped, [McpNext]_mcpVars PROVE McpTyped'
  OBVIOUS
<1>0. /\ nextId \in 0..MaxCalls /\ nextId <= nextId /\ nextId \in Nat /\ MaxCalls \in Nat
      /\ servers \in Seq(Children) /\ Len(servers) \in Nat
      /\ process \in 0..Len(servers) /\ closing \in 0..Len(servers)
      /\ session \in [open : BOOLEAN, token : Tokens] /\ effects \in [1..MaxCalls -> Nat]
      /\ crossed \in BOOLEAN /\ (Http => servers = <<>>)
  BY McpAssumption DEF McpTyped
<1>1. ASSUME NEW c \in McpCallers, NEW x \in Calls, Moves(c, x), setup' = setup,
             nextId' \in 0..MaxCalls, nextId <= nextId',
             servers' \in Seq(Children), Len(servers) <= Len(servers'),
             process' \in 0..Len(servers'), closing' = closing,
             effects' \in [1..MaxCalls -> Nat], crossed' \in BOOLEAN, Http => servers' = <<>>
      PROVE  McpTyped'
  <2>1. request' = [request EXCEPT ![c] = x] /\ StageFits(x)' /\ session' \in [open : BOOLEAN, token : Tokens]
    BY <1>1 DEF Moves, StageFits, Http
  <2>2. nextId' \in Nat /\ Len(servers') \in Nat
    BY <1>0, <1>1
  <2>3. request' \in [McpCallers -> Calls] /\ \A d \in McpCallers : StageFits(request[d])'
    BY <1>1, <2>1, <2>2, RequestTyped
  <2>4. closing' \in 0..Len(servers')
    BY <1>0, <1>1, <2>2
  <2> QED
    BY <1>1, <2>1, <2>3, <2>4, McpTypedRest
<1>2. ASSUME NEW c \in McpCallers, NEW x \in Calls, Begins(c, x) PROVE McpTyped'
  <2>1. /\ Moves(c, x) /\ UNCHANGED <<setup, servers, process, closing, effects>>
        /\ crossed' \in BOOLEAN
    BY <1>0, <1>2 DEF Begins
  <2>2. nextId' \in 0..MaxCalls /\ nextId <= nextId'
    BY <1>0, <1>2 DEF Begins, Calls
  <2>3. servers' \in Seq(Children) /\ Len(servers) <= Len(servers')
    BY <1>0, <2>1
  <2> QED
    BY <1>0, <1>1, <2>1, <2>2, <2>3
<1>3. ASSUME NEW c \in McpCallers, NEW x \in Calls, Advances(c, x) \/ Resumes(c, x) \/ Posts(c, x)
      PROVE  McpTyped'
  <2>1. /\ Moves(c, x) /\ UNCHANGED <<setup, nextId, servers, process, closing, crossed>>
        /\ \/ effects' = effects
           \/ request[c].stage \in {"posting", "reposting"} /\ effects' = Executed(request[c].id)
    BY <1>3 DEF Advances, Resumes, Posts
  <2>2. effects' \in [1..MaxCalls -> Nat]
    <3>1. request[c].stage \in {"posting", "reposting"} => request[c].id \in 1..MaxCalls
      BY RequestFacts DEF StageFits, Fits
    <3> QED
      BY <1>0, <2>1, <3>1, ExecutedTyped
  <2>3. servers' \in Seq(Children) /\ Len(servers) <= Len(servers')
    BY <1>0, <2>1
  <2> QED
    BY <1>0, <1>1, <2>1, <2>2, <2>3
<1>4. ASSUME NEW c \in McpCallers, NEW x \in Calls, Opens(c, x) PROVE McpTyped'
  <2>1. /\ Moves(c, x) /\ UNCHANGED <<setup, nextId, closing, effects, crossed>> /\ ~Http
        /\ servers' = Append(servers, NewServer) /\ process' = Len(servers) + 1
    BY <1>4, RequestFacts DEF Opens, StageFits, Fits
  <2>2. servers' \in Seq(Children) /\ Len(servers') = Len(servers) + 1
    BY <1>0, <2>1, ChildAdded
  <2>3. Len(servers) <= Len(servers') /\ process' \in 0..Len(servers')
    BY <1>0, <2>1, <2>2
  <2> QED
    BY <1>0, <1>1, <2>1, <2>2, <2>3
<1>5. ASSUME NEW c \in McpCallers, NEW x \in Calls, Receives(c, x) PROVE McpTyped'
  <2> DEFINE p == request[c].on
             v == [servers[p] EXCEPT !.out = Tail(@)]
  <2>1. /\ Moves(c, x) /\ UNCHANGED <<setup, nextId, process, closing, effects, crossed>>
        /\ ~Http /\ p \in 1..Len(servers) /\ servers[p].out # <<>>
        /\ servers' = [servers EXCEPT ![p] = v]
    BY <1>5, RequestFacts DEF Receives, StageFits, Fits
  <2> HIDE DEF p
  <2>2. servers[p] \in Children /\ servers[p].out \in Seq(1..MaxCalls)
    BY <1>0, <2>1, InPipes
  <2>3. Tail(servers[p].out) \in Seq(1..MaxCalls)
    BY <2>1, <2>2, FirstOfQueue
  <2>4. v \in Children
    BY <2>2, <2>3 DEF Children
  <2> HIDE DEF v
  <2>5. servers' \in Seq(Children) /\ Len(servers') = Len(servers)
    BY <1>0, <2>1, <2>4, ChildUpdated
  <2>6. Len(servers) <= Len(servers') /\ process' \in 0..Len(servers')
    BY <1>0, <2>1, <2>5
  <2> QED
    BY <1>0, <1>1, <2>1, <2>5, <2>6
<1>6. ASSUME NEW c \in McpCallers, NEW x \in Calls, NEW now \in Seq(Children),
             NEW p \in 1..Len(now), Sends(c, x, p, now)
      PROVE  McpTyped'
  <2>1. /\ Moves(c, x) /\ UNCHANGED <<setup, closing, effects, crossed>> /\ ~Http
        /\ servers' \in Seq(Children) /\ Len(servers') = Len(now)
        /\ \/ nextId' = nextId + 1 /\ x.id = nextId + 1 /\ now = servers /\ process' = process
           \/ /\ nextId' = nextId /\ now = Append(servers, NewServer)
              /\ p = Len(servers) + 1 /\ process' = p
    BY <1>6 DEF Sends
  <2>2. now = Append(servers, NewServer) => Len(now) = Len(servers) + 1
    BY <1>0, ChildAdded
  <2>3. nextId' \in 0..MaxCalls /\ nextId <= nextId'
    BY <1>0, <2>1 DEF Calls
  <2>4. Len(servers) <= Len(servers') /\ process' \in 0..Len(servers')
    BY <1>0, <2>1, <2>2
  <2> QED
    BY <1>0, <1>1, <2>1, <2>3, <2>4
<1>7. ASSUME NEW p \in DOMAIN servers, ServerAnswers(p) \/ ServerDies(p) PROVE McpTyped'
  <2>1. p \in 1..Len(servers) /\ UNCHANGED <<setup, nextId, request, process, closing, session, crossed>>
    BY <1>0, <1>7 DEF ServerAnswers, ServerDies
  <2>2. effects' \in [1..MaxCalls -> Nat]
    <3>1. servers[p].in \in Seq(1..MaxCalls)
      BY <1>0, <2>1, InPipes
    <3>2. servers[p].in # <<>> => Head(servers[p].in) \in 1..MaxCalls
      BY <3>1, FirstOfQueue
    <3>3. \/ effects' = effects
          \/ servers[p].in # <<>> /\ effects' = Executed(Head(servers[p].in))
      BY <1>7 DEF ServerAnswers, ServerDies
    <3> QED
      BY <1>0, <3>2, <3>3, ExecutedTyped
  <2>3. PICK v \in Children : servers' = [servers EXCEPT ![p] = v]
    BY <1>7, <2>1, ServerSteps
  <2>4. servers' \in Seq(Children) /\ Len(servers') = Len(servers)
    BY <1>0, <2>1, <2>3, ChildUpdated
  <2>5. request' \in [McpCallers -> Calls] /\ \A d \in McpCallers : StageFits(request[d])'
    BY <2>1, <2>4 DEF McpTyped, StageFits, Fits, Http
  <2>6. Http => servers' = <<>>
    BY <1>0, <2>3
  <2> QED
    BY <1>0, <2>1, <2>2, <2>4, <2>5, <2>6, McpTypedRest
<1>8. CASE Close \/ CloseReturns
  <2>1. /\ UNCHANGED <<setup, nextId, request, servers, effects>>
        /\ process' \in 0..Len(servers) /\ closing' \in 0..Len(servers)
        /\ session' \in [open : BOOLEAN, token : Tokens] /\ crossed' \in BOOLEAN
    <3>1. UNCHANGED <<setup, nextId, request, servers, effects>> /\ crossed' \in BOOLEAN
      BY <1>0, <1>8, Zenon DEF Close, CloseReturns
    <3>2. process' \in {0, process} /\ closing' \in {0, process}
      BY <1>8 DEF Close, CloseReturns
    <3>3. session' \in [open : BOOLEAN, token : Tokens]
      BY <1>0, <1>8 DEF Close, CloseReturns
    <3> QED
      BY <1>0, <3>1, <3>2, <3>3
  <2>2. \A d \in McpCallers : StageFits(request[d])'
    BY <2>1 DEF McpTyped, StageFits, Fits, Http
  <2> QED
    BY <1>0, <2>1, <2>2, McpTypedRest DEF McpTyped
<1>9. CASE TokensExpire
  <2>1. /\ UNCHANGED <<setup, nextId, servers, process, closing, effects, crossed>>
        /\ session' \in [open : BOOLEAN, token : Tokens]
        /\ request' = [d \in McpCallers |->
             [request[d] EXCEPT !.token = IF @ = "valid" THEN "expired" ELSE @]]
    BY <1>0, <1>9 DEF TokensExpire, Tokens
  <2>2. ASSUME NEW d \in McpCallers PROVE request'[d] \in Calls /\ StageFits(request[d])'
    <3>1. /\ request'[d] \in Calls /\ request'[d].id = request[d].id
          /\ request'[d].stage = request[d].stage /\ request'[d].on = request[d].on
          /\ request'[d].outcome = request[d].outcome
      BY <2>1, RequestFacts DEF Calls, Tokens
    <3> QED
      BY <2>1, <3>1, RequestFacts DEF StageFits, Fits, Http
  <2>3. request' \in [McpCallers -> Calls]
    BY <2>1, <2>2
  <2> QED
    BY <1>0, <2>1, <2>2, <2>3, McpTypedRest
<1>10. CASE UNCHANGED mcpVars
  BY <1>10 DEF mcpVars, McpTyped, StageFits, Fits, Http
<1>11. ASSUME NEW c \in McpCallers, Enter(c) \/ CallRefused(c) \/ SendRpc(c) \/ Proceeds(c)
      PROVE  McpTyped'
  <2>1. \/ \E x \in Calls : \/ Begins(c, x) \/ Opens(c, x) \/ Advances(c, x)
                            \/ Resumes(c, x) \/ Receives(c, x) \/ Posts(c, x)
        \/ \E x \in Calls, now \in Seq(Children) : \E p \in 1..Len(now) : Sends(c, x, p, now)
    BY <1>11, StepKinds, Zenon
  <2> QED
    BY <1>2, <1>3, <1>4, <1>5, <1>6, <2>1, Zenon
<1> QED
  BY <1>7, <1>8, <1>9, <1>10, <1>11 DEF McpNext

-----------------------------------------------------------------------------
(* A request no server has seen: the task has it, and no pipe does.        *)
Unserved(r) ==
  /\ r.id # 0
  /\ \/ r.stage \in {"spawning", "login", "posting", "renewing", "reposting"}
     \/ r.outcome = "auth"

(* At most one task and at most one pipe hold a request, a pipe only one   *)
(* that was not carried out yet.                                           *)
RequestsWaitOnce ==
  /\ \A c, d \in McpCallers : c # d /\ request[c].id # 0 => request[c].id # request[d].id
  /\ \A i \in 1..MaxCalls : effects[i] <= (IF Permitted THEN 1 ELSE 0)
  /\ \A i \in 1..MaxCalls : i > nextId => effects[i] = 0
  /\ \A i \in 1..MaxCalls : QueuedIn(servers, i) => i <= nextId /\ effects[i] = 0
  /\ \A c \in McpCallers :
       Unserved(request[c]) => effects[request[c].id] = 0 /\ ~QueuedIn(servers, request[c].id)
  /\ QueuesDiffer(servers)

(* A task changes its request; what the pipes hold more is that request.   *)
LEMMA MovedWaitOnce ==
  ASSUME McpTyped, RequestsWaitOnce, NEW c \in McpCallers, NEW x \in Calls, Moves(c, x),
         setup' = setup, effects' = effects,
         nextId' \in Nat, nextId <= nextId', x.id <= nextId',
         x.id # 0 => x.id = request[c].id \/ x.id > nextId,
         Unserved(x) => x.id > nextId \/ Unserved(request[c]),
         QueuesDiffer(servers'),
         \A i \in Int : QueuedIn(servers', i) =>
           QueuedIn(servers, i) \/ (i = x.id /\ ~Unserved(x) /\ (i > nextId \/ Unserved(request[c])))
  PROVE  RequestsWaitOnce'
<1>0. /\ nextId \in Nat /\ \A d \in McpCallers : request[d] \in Calls /\ request[d].id \in 0..MaxCalls
                                                 /\ request[d].id <= nextId
      /\ x.id \in 0..MaxCalls /\ MaxCalls \in Nat
      /\ request' = [request EXCEPT ![c] = x] /\ request'[c] = x
      /\ \A d \in McpCallers : d # c => request'[d] = request[d]
  BY McpAssumption DEF McpTyped, Calls, StageFits, Fits, Moves
<1>1. ASSUME NEW a \in McpCallers, NEW d \in McpCallers, a # d, request'[a].id # 0
      PROVE  request'[a].id # request'[d].id
  <2>0. /\ request[a].id # 0 => request[a].id # request[d].id
        /\ request[d].id # 0 => request[a].id # request[d].id
    BY <1>1 DEF RequestsWaitOnce
  <2>1. CASE a = c
    BY <1>0, <1>1, <2>0, <2>1
  <2>2. CASE a # c /\ d = c
    BY <1>0, <1>1, <2>0, <2>2
  <2>3. CASE a # c /\ d # c
    BY <1>0, <1>1, <2>0, <2>3
  <2> QED
    BY <2>1, <2>2, <2>3
<1>2. ASSUME NEW i \in 1..MaxCalls PROVE effects'[i] <= (IF Permitted THEN 1 ELSE 0)'
  BY DEF RequestsWaitOnce, Permitted, Http
<1>3. ASSUME NEW i \in 1..MaxCalls, i > nextId' PROVE effects'[i] = 0
  <2>1. i > nextId
    BY <1>0, <1>3
  <2> QED
    BY <2>1 DEF RequestsWaitOnce
<1>4. ASSUME NEW i \in 1..MaxCalls, QueuedIn(servers', i) PROVE i <= nextId' /\ effects'[i] = 0
  <2>1. CASE QueuedIn(servers, i)
    <3>1. i <= nextId /\ effects[i] = 0
      BY <2>1 DEF RequestsWaitOnce
    <3> QED
      BY <1>0, <3>1
  <2>2. CASE ~QueuedIn(servers, i)
    <3>1. i = x.id /\ ~Unserved(x) /\ (i > nextId \/ Unserved(request[c]))
      BY <1>4, <2>2
    <3>2. i <= nextId'
      BY <3>1
    <3>3. i > nextId => effects[i] = 0
      BY DEF RequestsWaitOnce
    <3>4. ~(i > nextId) => i = request[c].id /\ effects[request[c].id] = 0
      BY <3>1 DEF RequestsWaitOnce
    <3> QED
      BY <3>2, <3>3, <3>4
  <2> QED
    BY <2>1, <2>2
<1>5. ASSUME NEW d \in McpCallers, Unserved(request'[d])
      PROVE  effects'[request'[d].id] = 0 /\ ~QueuedIn(servers', request'[d].id)
  <2>1. CASE d = c
    <3>1. request'[d] = x /\ Unserved(x) /\ x.id # 0 /\ x.id \in 1..MaxCalls
      BY <1>0, <1>5, <2>1 DEF Unserved
    <3>2. effects[x.id] = 0 /\ ~QueuedIn(servers, x.id)
      <4>1. CASE x.id > nextId
        BY <1>0, <3>1, <4>1 DEF RequestsWaitOnce
      <4>2. CASE ~(x.id > nextId)
        BY <3>1, <4>2 DEF RequestsWaitOnce
      <4> QED
        BY <4>1, <4>2
    <3>3. ~QueuedIn(servers', x.id)
      BY <1>0, <3>1, <3>2
    <3> QED
      BY <3>1, <3>2, <3>3
  <2>2. CASE d # c
    <3>1. request'[d] = request[d] /\ Unserved(request[d]) /\ request[d].id # 0
      BY <1>0, <1>5, <2>2 DEF Unserved
    <3>2. effects[request[d].id] = 0 /\ ~QueuedIn(servers, request[d].id)
      BY <3>1 DEF RequestsWaitOnce
    <3>3. request[d].id # x.id
      <4>1. request[d].id # request[c].id
        BY <2>2, <3>1 DEF RequestsWaitOnce
      <4> QED
        BY <1>0, <3>1, <4>1
    <3>4. ~QueuedIn(servers', request[d].id)
      BY <1>0, <3>2, <3>3
    <3> QED
      BY <3>1, <3>2, <3>4
  <2> QED
    BY <2>1, <2>2
<1>6. /\ \A a, d \in McpCallers : a # d /\ request'[a].id # 0 => request'[a].id # request'[d].id
      /\ \A i \in 1..MaxCalls : effects'[i] <= (IF Permitted THEN 1 ELSE 0)'
      /\ \A i \in 1..MaxCalls : i > nextId' => effects'[i] = 0
      /\ \A i \in 1..MaxCalls : QueuedIn(servers', i) => i <= nextId' /\ effects'[i] = 0
      /\ \A d \in McpCallers : Unserved(request'[d]) =>
           effects'[request'[d].id] = 0 /\ ~QueuedIn(servers', request'[d].id)
  BY <1>1, <1>2, <1>3, <1>4, <1>5
<1> QED
  BY <1>6 DEF RequestsWaitOnce, QueuedIn, QueuesDiffer, Unserved, Permitted, Http

(* Nothing is sent; one request, which nobody holds any longer, may be     *)
(* carried out.                                                            *)
LEMMA CarriedWaitOnce ==
  ASSUME McpTyped, RequestsWaitOnce, setup' = setup, nextId' = nextId, NEW e \in 1..MaxCalls,
         \A d \in McpCallers : /\ request'[d].id = request[d].id
                               /\ Unserved(request'[d]) => Unserved(request[d]),
         QueuesDiffer(servers'), \A i : QueuedIn(servers', i) => QueuedIn(servers, i),
         \/ effects' = effects
         \/ /\ effects' = Executed(e) /\ effects[e] = 0 /\ e <= nextId
            /\ ~QueuedIn(servers', e)
            /\ \A d \in McpCallers : Unserved(request'[d]) => request[d].id # e
  PROVE  RequestsWaitOnce'
<1>0. /\ nextId \in Nat /\ MaxCalls \in Nat /\ effects \in [1..MaxCalls -> Nat]
      /\ \A d \in McpCallers : request[d].id \in 0..MaxCalls
  BY McpAssumption DEF McpTyped, Calls
<1>1. ASSUME NEW i \in 1..MaxCalls
      PROVE  \/ effects'[i] = effects[i]
             \/ /\ i = e /\ effects'[i] = (IF Permitted THEN 1 ELSE 0) /\ i <= nextId
                /\ ~QueuedIn(servers', i)
                /\ \A d \in McpCallers : Unserved(request'[d]) => request[d].id # i
  <2>1. CASE effects' = effects
    BY <2>1
  <2>2. CASE effects' = Executed(e) /\ effects' # effects
    <3>1. /\ effects[e] = 0 /\ e <= nextId /\ ~QueuedIn(servers', e)
          /\ \A d \in McpCallers : Unserved(request'[d]) => request[d].id # e
      BY <2>2
    <3>2. effects'[i] = IF i = e THEN effects[e] + (IF Permitted THEN 1 ELSE 0) ELSE effects[i]
      BY <2>2, ExecutedTyped
    <3> QED
      BY <3>1, <3>2
  <2> QED
    BY <2>1, <2>2
<1>2. ASSUME NEW i \in 1..MaxCalls PROVE effects'[i] <= (IF Permitted THEN 1 ELSE 0)
  <2>1. effects[i] <= (IF Permitted THEN 1 ELSE 0)
    BY DEF RequestsWaitOnce
  <2>2. (IF Permitted THEN 1 ELSE 0) \in Nat
    OBVIOUS
  <2> QED
    BY <1>1, <2>1, <2>2
<1>3. ASSUME NEW i \in 1..MaxCalls, i > nextId PROVE effects'[i] = 0
  <2>1. effects[i] = 0
    BY <1>3 DEF RequestsWaitOnce
  <2>2. ~(i <= nextId)
    BY <1>0, <1>3
  <2> QED
    BY <1>1, <2>1, <2>2
<1>4. ASSUME NEW i \in 1..MaxCalls, QueuedIn(servers', i) PROVE i <= nextId /\ effects'[i] = 0
  <2>1. i <= nextId /\ effects[i] = 0
    BY <1>4 DEF RequestsWaitOnce
  <2> QED
    BY <1>1, <1>4, <2>1
<1>5. ASSUME NEW d \in McpCallers, Unserved(request'[d])
      PROVE  effects'[request'[d].id] = 0 /\ ~QueuedIn(servers', request'[d].id)
  <2>1. Unserved(request[d]) /\ request'[d].id = request[d].id /\ request[d].id \in 1..MaxCalls
    BY <1>0, <1>5 DEF Unserved
  <2>2. effects[request[d].id] = 0 /\ ~QueuedIn(servers, request[d].id)
    BY <2>1 DEF RequestsWaitOnce
  <2> QED
    BY <1>1, <1>5, <2>1, <2>2
<1>6. /\ \A a, d \in McpCallers : a # d /\ request'[a].id # 0 => request'[a].id # request'[d].id
      /\ \A i \in 1..MaxCalls : effects'[i] <= (IF Permitted THEN 1 ELSE 0)
      /\ \A i \in 1..MaxCalls : i > nextId => effects'[i] = 0
      /\ \A i \in 1..MaxCalls : QueuedIn(servers', i) => i <= nextId /\ effects'[i] = 0
      /\ \A d \in McpCallers : Unserved(request'[d]) =>
           effects'[request'[d].id] = 0 /\ ~QueuedIn(servers', request'[d].id)
  <2>1. \A a, d \in McpCallers : a # d /\ request'[a].id # 0 => request'[a].id # request'[d].id
    BY DEF RequestsWaitOnce
  <2> QED
    BY <1>2, <1>3, <1>4, <1>5, <2>1
<1> QED
  BY <1>6 DEF RequestsWaitOnce, QueuedIn, QueuesDiffer, Unserved, Permitted, Http

(* Every step keeps RequestsWaitOnce: what _send_rpc sends is new, and what*)
(* is carried out leaves its pipe, or its task, with that.                 *)
LEMMA RequestsWaitOnceStep ==
  McpTyped /\ RequestsWaitOnce /\ [McpNext]_mcpVars => RequestsWaitOnce'
<1> SUFFICES ASSUME McpTyped, RequestsWaitOnce, [McpNext]_mcpVars PROVE RequestsWaitOnce'
  OBVIOUS
<1>0. /\ nextId \in Nat /\ nextId <= nextId /\ nextId <= nextId + 1 /\ nextId + 1 \in Nat
      /\ nextId + 1 > nextId /\ MaxCalls \in Nat /\ servers \in Seq(Children)
      /\ closing \in 0..Len(servers) /\ QueuesDiffer(servers)
  BY McpAssumption DEF McpTyped, RequestsWaitOnce
<1>r. ASSUME NEW c \in McpCallers
      PROVE  /\ request[c] \in Calls /\ StageFits(request[c]) /\ request[c].id <= nextId
             /\ request[c].stage \in Stages /\ request[c].id \in 0..MaxCalls
  BY RequestFacts DEF StageFits, Fits
<1>1. ASSUME NEW c \in McpCallers, NEW x \in Calls, Begins(c, x) PROVE RequestsWaitOnce'
  <2>1. /\ Moves(c, x) /\ setup' = setup /\ effects' = effects /\ servers' = servers
        /\ nextId' \in Nat /\ nextId <= nextId' /\ x.id <= nextId'
        /\ x.id # 0 => x.id > nextId
        /\ x.outcome # "auth"
    BY <1>0, <1>1 DEF Begins
  <2>2. Unserved(x) => x.id > nextId
    BY <2>1 DEF Unserved
  <2> QED
    BY <1>0, <2>1, <2>2, MovedWaitOnce
<1>2. ASSUME NEW c \in McpCallers, NEW x \in Calls, Opens(c, x) PROVE RequestsWaitOnce'
  <2>1. /\ Moves(c, x) /\ setup' = setup /\ effects' = effects /\ servers' = Append(servers, NewServer)
        /\ nextId' = nextId /\ x.id = 0
    BY <1>2 DEF Opens
  <2>2. nextId' \in Nat /\ nextId <= nextId' /\ x.id <= nextId' /\ ~Unserved(x)
    BY <1>0, <2>1 DEF Unserved
  <2>3. QueuesDiffer(servers') /\ \A i : QueuedIn(servers', i) => QueuedIn(servers, i)
    BY <1>0, <2>1, QueuesOfAdded
  <2> QED
    BY <2>1, <2>2, <2>3, MovedWaitOnce
<1>3. ASSUME NEW c \in McpCallers, NEW x \in Calls, Advances(c, x) \/ Resumes(c, x)
      PROVE  RequestsWaitOnce'
  <2>1. /\ Moves(c, x) /\ setup' = setup /\ effects' = effects /\ servers' = servers
        /\ nextId' = nextId /\ x.id = request[c].id /\ ~Free(c)
        /\ request[c].stage \in {"draining", "reading"} =>
             x.stage \in {"reading", "ended"} /\ x.outcome # "auth"
    BY <1>3 DEF Advances, Resumes, Free
  <2>2. nextId' \in Nat /\ nextId <= nextId' /\ x.id <= nextId'
    BY <1>0, <1>r, <2>1
  <2>3. Unserved(x) => Unserved(request[c])
    BY <1>r, <2>1 DEF Unserved, Free, Stages
  <2> QED
    BY <1>0, <2>1, <2>2, <2>3, MovedWaitOnce
<1>4. ASSUME NEW c \in McpCallers, NEW x \in Calls, NEW now \in Seq(Children),
             NEW p \in 1..Len(now), Sends(c, x, p, now)
      PROVE  RequestsWaitOnce'
  <2>1. /\ Moves(c, x) /\ setup' = setup /\ effects' = effects /\ x.id # 0 /\ ~Unserved(x)
        /\ x.id \in 1..MaxCalls
    <3>1. x.id \in 0..MaxCalls
      BY DEF Calls
    <3> QED
      BY <1>4, <3>1 DEF Sends, Unserved
  <2>2. \/ nextId' = nextId + 1 /\ x.id = nextId + 1 /\ now = servers
        \/ /\ request[c].stage = "spawning" /\ nextId' = nextId /\ x.id = request[c].id
           /\ now = Append(servers, NewServer)
    BY <1>4 DEF Sends
  <2>3. /\ nextId' \in Nat /\ nextId <= nextId' /\ x.id <= nextId'
        /\ x.id > nextId \/ (x.id = request[c].id /\ Unserved(request[c]))
    BY <1>0, <1>r, <2>1, <2>2, SMTT(30) DEF Unserved
  <2>4. QueuesDiffer(now) /\ \A i : QueuedIn(now, i) => QueuedIn(servers, i)
    BY <1>0, <2>2, QueuesOfAdded
  <2>5. ~QueuedIn(now, x.id)
    <3>1. ~QueuedIn(servers, x.id)
      BY <1>0, <2>1, <2>3 DEF RequestsWaitOnce
    <3> QED
      BY <2>4, <3>1
  <2>6. /\ servers' \in Seq(Children) /\ Len(servers') = Len(now)
        /\ \A q \in 1..Len(now) : q # p => servers'[q] = now[q]
        /\ servers'[p].in = IF p = closing THEN now[p].in ELSE Append(now[p].in, x.id)
    BY <1>4 DEF Sends
  <2>7. QueuesDiffer(servers') /\ \A i \in Int : QueuedIn(servers', i) => QueuedIn(now, i) \/ i = x.id
    <3>1. CASE p = closing
      <4>1. \A q \in 1..Len(now) : servers'[q].in = now[q].in
        BY <2>6, <3>1
      <4> QED
        BY <2>4, <2>6, <4>1, QueuesSame
    <3>2. CASE p # closing
      <4>1. servers'[p].in = Append(now[p].in, x.id)
        BY <2>6, <3>2
      <4>2. /\ QueuesDiffer(now) /\ ~QueuedIn(now, x.id) /\ x.id \in 1..MaxCalls
            /\ servers' \in Seq(Children) /\ Len(servers') = Len(now)
            /\ \A q \in 1..Len(now) : q # p => servers'[q] = now[q]
        BY <2>1, <2>4, <2>5, <2>6
      <4>3. QueuesDiffer(servers') /\ \A i \in Int : QueuedIn(servers', i) => QueuedIn(now, i) \/ i = x.id
        <5>1. SUFFICES ASSUME NEW i \in 1..MaxCalls, i = x.id
                       PROVE  QueuesDiffer(servers')
                              /\ \A j \in Int : QueuedIn(servers', j) => QueuedIn(now, j) \/ j = i
          BY <4>2
        <5>2. /\ ~QueuedIn(now, i) /\ QueuesDiffer(now)
              /\ servers' \in Seq(Children) /\ Len(servers') = Len(now)
              /\ \A q \in 1..Len(now) : q # p => servers'[q] = now[q]
          BY <4>2, <5>1
        <5>3. /\ Len(servers'[p].in) = Len(now[p].in) + 1 /\ servers'[p].in[Len(now[p].in) + 1] = i
              /\ \A k \in 1..Len(now[p].in) : servers'[p].in[k] = now[p].in[k]
          <6>1. now[p].in \in Seq(1..MaxCalls) /\ servers'[p].in = Append(now[p].in, i)
            BY <4>1, <5>1, InPipes
          <6> QED
            BY <6>1, AppendProperties
        <5> QED
          BY <5>2, <5>3, QueuesOfWritten
      <4> QED
        BY <4>3
    <3> QED
      BY <3>1, <3>2
  <2>8. \A i \in Int : QueuedIn(servers', i) =>
          QueuedIn(servers, i) \/ (i = x.id /\ ~Unserved(x) /\ (i > nextId \/ Unserved(request[c])))
    BY <2>1, <2>3, <2>4, <2>7
  <2> QED
    BY <2>1, <2>3, <2>7, <2>8, MovedWaitOnce
<1>5. ASSUME NEW c \in McpCallers, NEW x \in Calls, Receives(c, x) PROVE RequestsWaitOnce'
  <2>1. /\ Moves(c, x) /\ setup' = setup /\ effects' = effects
        /\ servers' = [servers EXCEPT ![request[c].on].out = Tail(@)]
        /\ nextId' = nextId /\ x.id = request[c].id /\ ~Unserved(x)
    BY <1>5 DEF Receives, Unserved
  <2>2. nextId' \in Nat /\ nextId <= nextId' /\ x.id <= nextId'
    BY <1>0, <1>r, <2>1
  <2>3. /\ Len(servers') = Len(servers) /\ \A q \in 1..Len(servers) : servers'[q].in = servers[q].in
    BY <1>0, <2>1, SMTT(30) DEF Children
  <2>4. QueuesDiffer(servers') /\ \A i : QueuedIn(servers', i) => QueuedIn(servers, i)
    BY <1>0, <2>3, QueuesSame
  <2> QED
    BY <2>1, <2>2, <2>4, MovedWaitOnce
<1>6. ASSUME NEW c \in McpCallers, NEW x \in Calls, Posts(c, x) PROVE RequestsWaitOnce'
  <2>1. /\ Moves(c, x) /\ setup' = setup /\ servers' = servers /\ nextId' = nextId
        /\ x.id = request[c].id /\ ~Unserved(x)
        /\ effects' = effects \/ effects' = Executed(request[c].id)
        /\ request[c].stage \in {"posting", "reposting"}
    BY <1>6 DEF Posts, Unserved
  <2>2. Unserved(request[c]) /\ request[c].id \in 1..MaxCalls
    BY <1>r, <2>1 DEF Unserved, StageFits, Fits
  <2>3. effects[request[c].id] = 0 /\ ~QueuedIn(servers, request[c].id)
    BY <2>2 DEF RequestsWaitOnce
  <2>4. ASSUME NEW d \in McpCallers
        PROVE  /\ request'[d].id = request[d].id
               /\ Unserved(request'[d]) => Unserved(request[d]) /\ request[d].id # request[c].id
    <3>1. CASE d = c
      <4>1. request'[d] = x
        BY <2>1, <3>1 DEF Moves, McpTyped
      <4> QED
        BY <2>1, <3>1, <4>1
    <3>2. CASE d # c
      <4>1. request'[d] = request[d]
        BY <2>1, <3>2 DEF Moves, McpTyped
      <4>2. request[d].id # request[c].id
        BY <2>2, <3>2 DEF RequestsWaitOnce, Unserved
      <4> QED
        BY <4>1, <4>2
    <3> QED
      BY <3>1, <3>2
  <2> QED
    BY <1>0, <1>r, <2>1, <2>2, <2>3, <2>4, CarriedWaitOnce
<1>7. ASSUME NEW p \in DOMAIN servers, ServerAnswers(p) \/ ServerDies(p) PROVE RequestsWaitOnce'
  <2>1. p \in 1..Len(servers) /\ setup' = setup /\ nextId' = nextId /\ request' = request
    BY <1>0, <1>7 DEF ServerAnswers, ServerDies
  <2>2. \/ effects' = effects
        \/ servers[p].in # <<>> /\ effects' = Executed(Head(servers[p].in))
    BY <1>7 DEF ServerAnswers, ServerDies
  <2>3. PICK v \in Children :
          /\ servers' = [servers EXCEPT ![p] = v]
          /\ \/ v.in = Tail(servers[p].in) /\ servers[p].in # <<>>
             \/ v.in = <<>>
    BY <1>7, <2>1, ServerSteps
  <2>4. /\ servers' \in Seq(Children) /\ Len(servers') = Len(servers)
        /\ \A q \in 1..Len(servers) : q # p => servers'[q] = servers[q]
        /\ servers'[p].in = v.in
    <3>1. /\ servers' \in Seq(Children) /\ Len(servers') = Len(servers)
          /\ \A q \in 1..Len(servers) : servers'[q] = IF q = p THEN v ELSE servers[q]
      BY <1>0, <2>1, <2>3, ChildUpdated
    <3> QED
      BY <2>1, <3>1
  <2>5. /\ QueuesDiffer(servers') /\ \A i : QueuedIn(servers', i) => QueuedIn(servers, i)
        /\ servers[p].in # <<>> =>
             /\ Head(servers[p].in) \in 1..MaxCalls /\ QueuedIn(servers, Head(servers[p].in))
             /\ ~QueuedIn(servers', Head(servers[p].in))
    <3>1. CASE v.in = Tail(servers[p].in) /\ servers[p].in # <<>>
      <4>1. servers'[p].in = Tail(servers[p].in) /\ servers[p].in # <<>>
        BY <2>4, <3>1
      <4>2. /\ QueuesDiffer(servers') /\ Head(servers[p].in) \in 1..MaxCalls
            /\ QueuedIn(servers, Head(servers[p].in))
            /\ \A j : QueuedIn(servers', j) => QueuedIn(servers, j) /\ j # Head(servers[p].in)
        BY <1>0, <2>1, <2>4, <4>1, QueuesOfTaken
      <4> QED
        BY <4>2, Zenon
    <3>2. CASE v.in = <<>>
      <4>1. servers'[p].in = <<>>
        BY <2>4, <3>2
      <4> QED
        BY <1>0, <2>1, <2>4, <4>1, QueuesOfLost
    <3> QED
      BY <2>3, <3>1, <3>2
  <2>6. \A d \in McpCallers : /\ request'[d].id = request[d].id
                              /\ Unserved(request'[d]) => Unserved(request[d])
    BY <2>1
  <2>7. CASE effects' = effects
    <3>1. 1 \in 1..MaxCalls
      BY <1>0, McpAssumption
    <3> QED
      BY <2>1, <2>5, <2>6, <2>7, <3>1, CarriedWaitOnce
  <2>8. CASE servers[p].in # <<>> /\ effects' = Executed(Head(servers[p].in))
    <3> DEFINE e == Head(servers[p].in)
    <3>1. e \in 1..MaxCalls /\ QueuedIn(servers, e) /\ ~QueuedIn(servers', e) /\ effects' = Executed(e)
      BY <2>5, <2>8
    <3> HIDE DEF e
    <3>2. e <= nextId /\ effects[e] = 0
      BY <3>1 DEF RequestsWaitOnce
    <3>3. \A d \in McpCallers : Unserved(request'[d]) => request[d].id # e
      BY <2>1, <3>1 DEF RequestsWaitOnce
    <3> QED
      BY <2>1, <2>5, <2>6, <3>1, <3>2, <3>3, CarriedWaitOnce
  <2> QED
    BY <2>2, <2>7, <2>8
<1>8. ASSUME setup' = setup, nextId' = nextId, servers' = servers, effects' = effects,
             \A d \in McpCallers : /\ request'[d].id = request[d].id
                                   /\ Unserved(request'[d]) => Unserved(request[d])
      PROVE  RequestsWaitOnce'
  <2>1. 1 \in 1..MaxCalls
    BY <1>0, McpAssumption
  <2> QED
    BY <1>0, <1>8, <2>1, CarriedWaitOnce
<1>9. CASE Close \/ CloseReturns \/ UNCHANGED mcpVars
  <2>1. UNCHANGED <<setup, nextId, request, servers, effects>>
    BY <1>9 DEF Close, CloseReturns, mcpVars
  <2> QED
    BY <1>8, <2>1
<1>10. CASE TokensExpire
  <2>1. /\ UNCHANGED <<setup, nextId, servers, effects>>
        /\ request' = [d \in McpCallers |->
             [request[d] EXCEPT !.token = IF @ = "valid" THEN "expired" ELSE @]]
    BY <1>10 DEF TokensExpire
  <2>2. \A d \in McpCallers : /\ request'[d].id = request[d].id
                              /\ Unserved(request'[d]) => Unserved(request[d])
    BY <1>r, <2>1 DEF Unserved, Calls
  <2> QED
    BY <1>8, <2>1, <2>2
<1>11. ASSUME NEW c \in McpCallers, Enter(c) \/ CallRefused(c) \/ SendRpc(c) \/ Proceeds(c)
       PROVE  RequestsWaitOnce'
  <2>1. \/ \E x \in Calls : \/ Begins(c, x) \/ Opens(c, x) \/ Advances(c, x)
                            \/ Resumes(c, x) \/ Receives(c, x) \/ Posts(c, x)
        \/ \E x \in Calls, now \in Seq(Children) : \E p \in 1..Len(now) : Sends(c, x, p, now)
    BY <1>11, StepKinds, Zenon
  <2> QED
    BY <1>1, <1>2, <1>3, <1>4, <1>5, <1>6, <2>1, Zenon
<1> QED
  BY <1>7, <1>9, <1>10, <1>11 DEF McpNext

-----------------------------------------------------------------------------
(* A child no call gave up on and no two calls met at: at most one task    *)
(* waits there, and what its pipes hold is the request of that task, or its*)
(* answer.                                                                 *)
IsWaiting(r, p) == r.stage \in {"draining", "reading"} /\ r.on = p

Holds(pipes, i) ==
  \/ pipes.in = <<i>> /\ pipes.out = <<>>
  \/ pipes.in = <<>> /\ pipes.out = <<i>>

Clean(pipes, calls, p) ==
  /\ \A c, d \in McpCallers : IsWaiting(calls[c], p) /\ IsWaiting(calls[d], p) => c = d
  /\ \/ pipes.in = <<>> /\ pipes.out = <<>>
     \/ \E c \in McpCallers : IsWaiting(calls[c], p) /\ Holds(pipes, calls[c].id)

PipesAnswer ==
  \A p \in 1..Len(servers) :
    /\ ~servers[p].alive => servers[p].in = <<>>
    /\ p \notin shifted => Clean(servers[p], request, p)

(* A task that did not read there and does not changes nothing; one that   *)
(* leaves the pipes empty may stop.                                        *)
LEMMA CleanSame ==
  ASSUME NEW pipes, NEW calls, NEW new, NEW p, NEW c \in McpCallers, Clean(pipes, calls, p),
         \A d \in McpCallers : d # c => new[d] = calls[d],
         ~IsWaiting(calls[c], p), ~IsWaiting(new[c], p)
  PROVE  Clean(pipes, new, p)
<1>1. \A d \in McpCallers : IsWaiting(calls[d], p) <=> IsWaiting(new[d], p)
  OBVIOUS
<1>2. \A d \in McpCallers : IsWaiting(calls[d], p) => new[d] = calls[d]
  OBVIOUS
<1> QED
  BY <1>1, <1>2 DEF Clean

(* (the task that read there stops)                                        *)
LEMMA CleanEmptied ==
  ASSUME NEW pipes, NEW left, NEW calls, NEW new, NEW p, NEW c \in McpCallers, Clean(pipes, calls, p),
         \A d \in McpCallers : d # c => new[d] = calls[d], ~IsWaiting(new[c], p),
         left.in = <<>>, left.out = <<>>
  PROVE  Clean(left, new, p)
<1>1. ASSUME NEW a \in McpCallers, NEW d \in McpCallers, IsWaiting(new[a], p), IsWaiting(new[d], p)
      PROVE  a = d
  BY <1>1 DEF Clean
<1> QED
  BY <1>1 DEF Clean

(* Every step keeps PipesAnswer and AnswerIsOwn: a reader of a clean pipe  *)
(* finds the answer to its own request.                                    *)
LEMMA AnswersStep ==
  McpTyped /\ PipesAnswer /\ AnswerIsOwn /\ [McpNext]_mcpVars => PipesAnswer' /\ AnswerIsOwn'
<1> SUFFICES ASSUME McpTyped, PipesAnswer, AnswerIsOwn, [McpNext]_mcpVars
             PROVE  PipesAnswer' /\ AnswerIsOwn'
  OBVIOUS
<1>0. /\ servers \in Seq(Children) /\ Len(servers) \in Nat
      /\ process \in 0..Len(servers) /\ closing \in 0..Len(servers)
  BY DEF McpTyped
<1>r. ASSUME NEW c \in McpCallers
      PROVE  /\ request[c] \in Calls /\ request[c].stage \in Stages
             /\ request[c].stage \in {"draining", "reading"} => request[c].on \in 1..Len(servers)
  BY RequestFacts DEF StageFits, Fits
<1>m. ASSUME NEW c \in McpCallers, NEW x \in Calls, Moves(c, x)
      PROVE  request'[c] = x /\ \A d \in McpCallers : d # c => request'[d] = request[d]
  BY <1>m DEF Moves, McpTyped
<1>a. ASSUME NEW c \in McpCallers, NEW x \in Calls, Moves(c, x), shifted \subseteq shifted',
             x.outcome = "answered" /\ x.got # x.id => x.on \in shifted'
      PROVE  AnswerIsOwn'
  <2> SUFFICES ASSUME NEW d \in McpCallers, request'[d].outcome = "answered",
                      request'[d].got # request'[d].id
               PROVE  request'[d].on \in shifted'
    BY DEF AnswerIsOwn
  <2>1. CASE d = c
    BY <1>a, <1>m, <2>1
  <2>2. CASE d # c
    <3>1. request'[d] = request[d]
      BY <1>a, <1>m, <2>2
    <3>2. request[d].on \in shifted
      BY <3>1 DEF AnswerIsOwn
    <3> QED
      BY <1>a, <3>1, <3>2
  <2> QED
    BY <2>1, <2>2
(* A task that was not reading and is not: the pipes are as they were.     *)
<1>b. ASSUME NEW c \in McpCallers, NEW x \in Calls, Moves(c, x), shifted' = shifted,
             request[c].stage \notin {"draining", "reading"}, x.stage \notin {"draining", "reading"},
             NEW p \in 1..Len(servers), servers'[p] = servers[p]
      PROVE  /\ ~servers'[p].alive => servers'[p].in = <<>>
             /\ p \notin shifted' => Clean(servers'[p], request', p)
  <2>1. /\ ~servers[p].alive => servers[p].in = <<>>
        /\ p \notin shifted => Clean(servers[p], request, p)
    BY DEF PipesAnswer
  <2>2. /\ ~IsWaiting(request[c], p) /\ ~IsWaiting(request'[c], p)
        /\ \A d \in McpCallers : d # c => request'[d] = request[d]
    BY <1>b, <1>m DEF IsWaiting
  <2>3. p \notin shifted => Clean(servers[p], request', p)
    BY <2>1, <2>2, CleanSame
  <2> QED
    BY <1>b, <2>1, <2>3
<1>1. ASSUME NEW c \in McpCallers, NEW x \in Calls, Begins(c, x) \/ Posts(c, x)
      PROVE  PipesAnswer' /\ AnswerIsOwn'
  <2>1. /\ Moves(c, x) /\ servers' = servers /\ shifted' = shifted
        /\ request[c].stage \notin {"draining", "reading"} /\ x.stage \notin {"draining", "reading"}
        /\ x.outcome = "answered" => x.got = x.id
    BY <1>1 DEF Begins, Posts, Free
  <2>2. AnswerIsOwn'
    BY <1>a, <2>1
  <2>3. PipesAnswer'
    BY <1>b, <2>1 DEF PipesAnswer
  <2> QED
    BY <2>2, <2>3
<1>2. ASSUME NEW c \in McpCallers, NEW x \in Calls, Opens(c, x) PROVE PipesAnswer' /\ AnswerIsOwn'
  <2>1. /\ Moves(c, x) /\ servers' = Append(servers, NewServer) /\ shifted' = shifted
        /\ request[c].stage \notin {"draining", "reading"} /\ x.stage \notin {"draining", "reading"}
        /\ x.outcome # "answered"
    BY <1>2 DEF Opens
  <2>2. AnswerIsOwn'
    BY <1>a, <2>1
  <2>3. /\ Len(servers') = Len(servers) + 1 /\ \A q \in 1..Len(servers) : servers'[q] = servers[q]
        /\ servers'[Len(servers) + 1] = NewServer
    BY <1>0, <2>1, ChildAdded
  <2>4. ASSUME NEW p \in 1..Len(servers')
        PROVE  /\ ~servers'[p].alive => servers'[p].in = <<>>
               /\ p \notin shifted' => Clean(servers'[p], request', p)
    <3>1. CASE p \in 1..Len(servers)
      BY <1>b, <2>1, <2>3, <3>1
    <3>2. CASE p = Len(servers) + 1
      <4>1. servers'[p].alive /\ servers'[p].in = <<>> /\ servers'[p].out = <<>>
        BY <2>3, <3>2 DEF NewServer
      <4>2. ASSUME NEW d \in McpCallers PROVE ~IsWaiting(request'[d], p)
        <5>1. p \notin 1..Len(servers)
          BY <1>0, <3>2
        <5> QED
          BY <1>m, <1>r, <2>1, <5>1 DEF IsWaiting
      <4> QED
        BY <4>1, <4>2 DEF Clean
    <3> QED
      BY <1>0, <2>3, <3>1, <3>2
  <2> QED
    BY <2>2, <2>4 DEF PipesAnswer
<1>3. ASSUME NEW c \in McpCallers, NEW x \in Calls, Advances(c, x) PROVE PipesAnswer' /\ AnswerIsOwn'
  <2>1. /\ Moves(c, x) /\ servers' = servers /\ x.stage \notin {"draining", "reading"} /\ x.outcome # "answered"
        /\ shifted \subseteq shifted'
    BY <1>3 DEF Advances
  <2>2. AnswerIsOwn'
    BY <1>a, <2>1
  <2>3. ASSUME NEW p \in 1..Len(servers)
        PROVE  /\ ~servers[p].alive => servers[p].in = <<>>
               /\ p \notin shifted' => Clean(servers[p], request', p)
    <3>1. ~servers[p].alive => servers[p].in = <<>>
      BY DEF PipesAnswer
    <3>2. ASSUME p \notin shifted' PROVE Clean(servers[p], request', p)
      <4>1. Clean(servers[p], request, p)
        BY <2>1, <3>2 DEF PipesAnswer
      <4>2. ~IsWaiting(request'[c], p) /\ \A d \in McpCallers : d # c => request'[d] = request[d]
        BY <1>m, <2>1 DEF IsWaiting
      <4>3. IsWaiting(request[c], p) => servers[p].in = <<>> /\ servers[p].out = <<>>
        <5>1. SUFFICES ASSUME IsWaiting(request[c], p)
                       PROVE  servers[p].in = <<>> /\ servers[p].out = <<>>
          OBVIOUS
        <5>2. GivesUp(c) /\ request[c].on = p
          BY <1>3, <5>1 DEF Advances, IsWaiting
        <5>3. ~(request[c].stage = "draining" /\ Readers(p) # {})
          BY <4>1, <5>1 DEF Clean, IsWaiting, Readers, At
        <5> QED
          BY <3>1, <3>2, <5>2, <5>3 DEF GivesUp
      <4>4. CASE IsWaiting(request[c], p)
        <5>1. servers[p].in = <<>> /\ servers[p].out = <<>>
          BY <4>3, <4>4
        <5> QED
          BY <4>1, <4>2, <5>1, CleanEmptied
      <4>5. CASE ~IsWaiting(request[c], p)
        BY <4>1, <4>2, <4>5, CleanSame
      <4> QED
        BY <4>4, <4>5
    <3> QED
      BY <3>1, <3>2
  <2> QED
    BY <2>1, <2>2, <2>3 DEF PipesAnswer
<1>4. ASSUME NEW c \in McpCallers, NEW x \in Calls, Receives(c, x) PROVE PipesAnswer' /\ AnswerIsOwn'
  <2> DEFINE p == request[c].on
  <2>1. /\ Moves(c, x) /\ shifted' = shifted /\ x.stage = "ended" /\ x.outcome = "answered"
        /\ x.on = p /\ x.id = request[c].id /\ x.got = Head(servers[p].out)
        /\ servers[p].out # <<>> /\ IsWaiting(request[c], p)
        /\ servers' = [servers EXCEPT ![p].out = Tail(@)]
    BY <1>4 DEF Receives, IsWaiting
  <2>2. p \in 1..Len(servers)
    BY <1>r, <2>1 DEF IsWaiting
  <2> HIDE DEF p
  <2>3. /\ Len(servers') = Len(servers) /\ \A q \in 1..Len(servers) : q # p => servers'[q] = servers[q]
        /\ servers'[p].in = servers[p].in /\ servers'[p].out = Tail(servers[p].out)
        /\ servers'[p].alive = servers[p].alive
    BY <1>0, <2>1, <2>2 DEF Children
  <2>4. p \notin shifted => servers[p].in = <<>> /\ servers[p].out = <<request[c].id>>
    <3>1. SUFFICES ASSUME p \notin shifted
                   PROVE  servers[p].in = <<>> /\ servers[p].out = <<request[c].id>>
      OBVIOUS
    <3>2. Clean(servers[p], request, p)
      BY <2>2, <3>1 DEF PipesAnswer
    <3>3. PICK d \in McpCallers : IsWaiting(request[d], p) /\ Holds(servers[p], request[d].id)
      BY <2>1, <3>2 DEF Clean
    <3>4. d = c
      BY <2>1, <3>2, <3>3 DEF Clean
    <3> QED
      BY <2>1, <3>3, <3>4 DEF Holds
  <2>5. AnswerIsOwn'
    <3>1. ASSUME p \notin shifted PROVE x.got = x.id
      <4>1. servers[p].out = <<request[c].id>>
        BY <2>4, <3>1
      <4>2. Head(<<request[c].id>>) = request[c].id
        OBVIOUS
      <4> QED
        BY <2>1, <4>1, <4>2
    <3> QED
      BY <1>a, <2>1, <3>1
  <2>6. ASSUME NEW q \in 1..Len(servers)
        PROVE  /\ ~servers'[q].alive => servers'[q].in = <<>>
               /\ q \notin shifted' => Clean(servers'[q], request', q)
    <3>1. ~servers'[q].alive => servers'[q].in = <<>>
      <4>1. ~servers[q].alive => servers[q].in = <<>>
        BY DEF PipesAnswer
      <4> QED
        BY <2>3, <4>1
    <3>2. ASSUME q \notin shifted' PROVE Clean(servers'[q], request', q)
      <4>1. Clean(servers[q], request, q)
        BY <2>1, <3>2 DEF PipesAnswer
      <4>2. ~IsWaiting(request'[c], q) /\ \A d \in McpCallers : d # c => request'[d] = request[d]
        BY <1>m, <2>1 DEF IsWaiting
      <4>3. CASE q = p
        <5>1. servers[p].in = <<>> /\ servers[p].out = <<request[c].id>>
          BY <2>1, <2>4, <3>2, <4>3
        <5>2. Tail(<<request[c].id>>) = <<>>
          OBVIOUS
        <5>3. servers'[q].in = <<>> /\ servers'[q].out = <<>>
          BY <2>3, <4>3, <5>1, <5>2
        <5> QED
          BY <4>1, <4>2, <5>3, CleanEmptied
      <4>4. CASE q # p
        <5>1. servers'[q] = servers[q] /\ ~IsWaiting(request[c], q)
          BY <2>1, <2>3, <4>4 DEF IsWaiting
        <5>2. Clean(servers[q], request', q)
          BY <4>1, <4>2, <5>1, CleanSame
        <5> QED
          BY <5>1, <5>2
      <4> QED
        BY <4>3, <4>4
    <3> QED
      BY <3>1, <3>2
  <2> QED
    BY <2>3, <2>5, <2>6 DEF PipesAnswer
<1>5. ASSUME NEW c \in McpCallers, NEW x \in Calls, NEW now \in Seq(Children),
             NEW p \in 1..Len(now), Sends(c, x, p, now)
      PROVE  PipesAnswer' /\ AnswerIsOwn'
  <2>1. /\ Moves(c, x) /\ x.outcome # "answered" /\ x.on = p /\ Len(servers') = Len(now)
        /\ \A q \in 1..Len(now) : q # p => servers'[q] = now[q]
        /\ servers'[p].alive = now[p].alive /\ servers'[p].out = now[p].out
        /\ servers'[p].in = IF p = closing THEN now[p].in ELSE Append(now[p].in, x.id)
        /\ shifted' = IF Waiting(p) = {} THEN shifted ELSE shifted \cup {p}
        /\ request[c].stage \notin {"draining", "reading"}
        /\ Waiting(p) = {} => x.stage \in {"draining", "reading"}
    BY <1>5 DEF Sends, Free
  <2>2. \/ now = servers /\ Alive(p)
        \/ now = Append(servers, NewServer) /\ p = Len(servers) + 1
    BY <1>5 DEF Sends
  <2>3. shifted \subseteq shifted'
    BY <2>1
  <2>4. AnswerIsOwn'
    BY <1>a, <2>1, <2>3
  <2>5. ASSUME NEW q \in 1..Len(now), q # p
        PROVE  q \in 1..Len(servers) /\ servers'[q] = servers[q]
    <3>1. CASE now = servers
      BY <2>1, <2>5, <3>1
    <3>2. CASE now = Append(servers, NewServer) /\ p = Len(servers) + 1
      <4>1. Len(now) = Len(servers) + 1 /\ \A u \in 1..Len(servers) : now[u] = servers[u]
        BY <1>0, <3>2, ChildAdded
      <4>2. q \in 1..Len(servers)
        BY <1>0, <2>5, <3>2, <4>1
      <4> QED
        BY <2>1, <2>5, <4>1, <4>2
    <3> QED
      BY <2>2, <3>1, <3>2
  <2>6. now[p].alive
    <3>1. CASE now = servers /\ Alive(p)
      BY <3>1 DEF Alive
    <3>2. CASE now = Append(servers, NewServer) /\ p = Len(servers) + 1
      BY <1>0, <3>2, ChildAdded DEF NewServer
    <3> QED
      BY <2>2, <3>1, <3>2
  <2>7. ASSUME p \notin shifted' PROVE Clean(servers'[p], request', p)
    <3>1. Waiting(p) = {} /\ x.stage \in {"draining", "reading"} /\ p \notin shifted
      BY <2>1, <2>7
    <3>2. \A d \in McpCallers : ~IsWaiting(request[d], p)
      BY <3>1 DEF Waiting, Readers, At, IsWaiting
    <3>3. now[p].in = <<>> /\ now[p].out = <<>>
      <4>1. CASE now = servers /\ Alive(p)
        <5>1. Clean(servers[p], request, p)
          BY <3>1, <4>1 DEF PipesAnswer
        <5> QED
          BY <3>2, <4>1, <5>1 DEF Clean
      <4>2. CASE now = Append(servers, NewServer) /\ p = Len(servers) + 1
        BY <1>0, <4>2, ChildAdded DEF NewServer
      <4> QED
        BY <2>2, <4>1, <4>2
    <3>4. /\ IsWaiting(request'[c], p) /\ request'[c] = x
          /\ \A d \in McpCallers : IsWaiting(request'[d], p) => d = c
      BY <1>m, <2>1, <3>1, <3>2 DEF IsWaiting
    <3>5. servers'[p].out = <<>> /\ (servers'[p].in = <<>> \/ servers'[p].in = <<x.id>>)
      <4>1. Append(<<>>, x.id) = <<x.id>>
        OBVIOUS
      <4> QED
        BY <2>1, <3>3, <4>1
    <3> QED
      BY <3>4, <3>5 DEF Clean, Holds
  <2>8. ASSUME NEW q \in 1..Len(now)
        PROVE  /\ ~servers'[q].alive => servers'[q].in = <<>>
               /\ q \notin shifted' => Clean(servers'[q], request', q)
    <3>1. CASE q = p
      BY <2>1, <2>6, <2>7, <3>1
    <3>2. CASE q # p
      <4>1. q \in 1..Len(servers) /\ servers'[q] = servers[q]
        BY <2>5, <3>2
      <4>2. /\ ~servers[q].alive => servers[q].in = <<>>
            /\ q \notin shifted => Clean(servers[q], request, q)
        BY <4>1 DEF PipesAnswer
      <4>3. /\ ~IsWaiting(request[c], q) /\ ~IsWaiting(request'[c], q)
            /\ \A d \in McpCallers : d # c => request'[d] = request[d]
        BY <1>m, <2>1, <3>2 DEF IsWaiting
      <4>4. q \notin shifted' => Clean(servers[q], request, q)
        BY <2>3, <4>2
      <4>5. q \notin shifted' => Clean(servers[q], request', q)
        BY <4>3, <4>4, CleanSame
      <4> QED
        BY <4>1, <4>2, <4>5
    <3> QED
      BY <3>1, <3>2
  <2> QED
    BY <2>1, <2>4, <2>8 DEF PipesAnswer
<1>10. ASSUME NEW c \in McpCallers, NEW x \in Calls, Resumes(c, x)
       PROVE  PipesAnswer' /\ AnswerIsOwn'
  <2>1. /\ Moves(c, x) /\ servers' = servers /\ shifted \subseteq shifted'
        /\ x.outcome # "answered" /\ x.stage = "reading" /\ request[c].stage = "draining"
        /\ x.on = process /\ x.id = request[c].id
        /\ process # request[c].on => request[c].on \in shifted' /\ process \in shifted'
    BY <1>10 DEF Resumes
  <2>2. AnswerIsOwn'
    BY <1>a, <2>1
  <2>3. ASSUME NEW p \in 1..Len(servers), p \notin shifted' PROVE Clean(servers[p], request', p)
    <3>1. Clean(servers[p], request, p)
      BY <2>1, <2>3 DEF PipesAnswer
    <3>2. request'[c] = x /\ \A d \in McpCallers : d # c => request'[d] = request[d]
      BY <1>m, <2>1
    <3>3. IsWaiting(request[c], p) <=> IsWaiting(x, p)
      BY <2>1, <2>3 DEF IsWaiting
    <3>4. \A d \in McpCallers : /\ IsWaiting(request'[d], p) <=> IsWaiting(request[d], p)
                                /\ request'[d].id = request[d].id
      BY <2>1, <3>2, <3>3
    <3> QED
      BY <3>1, <3>4 DEF Clean
  <2>4. \A p \in 1..Len(servers) : ~servers[p].alive => servers[p].in = <<>>
    BY DEF PipesAnswer
  <2> QED
    BY <2>1, <2>2, <2>3, <2>4 DEF PipesAnswer
<1>6. ASSUME NEW p \in DOMAIN servers, ServerAnswers(p) \/ ServerDies(p)
      PROVE  PipesAnswer' /\ AnswerIsOwn'
  <2>1. p \in 1..Len(servers) /\ request' = request /\ shifted' = shifted
    BY <1>0, <1>6 DEF ServerAnswers, ServerDies
  <2>2. AnswerIsOwn'
    BY <2>1 DEF AnswerIsOwn
  <2>3. PICK v \in Children :
          /\ servers' = [servers EXCEPT ![p] = v]
          /\ \/ /\ servers[p].in # <<>> /\ v.alive
                /\ v.in = Tail(servers[p].in) /\ v.out = Append(servers[p].out, Head(servers[p].in))
             \/ ~v.alive /\ v.in = <<>> /\ v.out = servers[p].out
    BY <1>6, <2>1, ServerSteps
  <2>4. /\ Len(servers') = Len(servers)
        /\ \A q \in 1..Len(servers) : servers'[q] = IF q = p THEN v ELSE servers[q]
    BY <1>0, <2>1, <2>3, ChildUpdated
  <2>5. ~v.alive => v.in = <<>>
    BY <2>3
  <2>6. ASSUME p \notin shifted PROVE Clean(v, request, p)
    <3>1. Clean(servers[p], request, p)
      BY <2>1, <2>6 DEF PipesAnswer
    <3>2. CASE servers[p].in = <<>> /\ servers[p].out = <<>>
      <4>1. v.in = <<>> /\ v.out = <<>>
        BY <2>3, <3>2
      <4> QED
        BY <3>1, <4>1 DEF Clean
    <3>3. CASE ~(servers[p].in = <<>> /\ servers[p].out = <<>>)
      <4>1. PICK d \in McpCallers : IsWaiting(request[d], p) /\ Holds(servers[p], request[d].id)
        BY <3>1, <3>3 DEF Clean
      <4>2. (v.in = <<>> /\ v.out = <<>>) \/ Holds(v, request[d].id)
        <5> DEFINE i == request[d].id
        <5>1. Tail(<<i>>) = <<>> /\ Append(<<>>, Head(<<i>>)) = <<i>> /\ <<i>> # <<>>
          OBVIOUS
        <5>2. Holds(servers[p], i)
          BY <4>1
        <5> SUFFICES (v.in = <<>> /\ v.out = <<>>) \/ Holds(v, i)
          OBVIOUS
        <5> HIDE DEF i
        <5>3. CASE servers[p].in = <<i>> /\ servers[p].out = <<>>
          <6>1. CASE v.in = <<>> /\ v.out = servers[p].out
            BY <5>3, <6>1
          <6>2. CASE v.in = Tail(servers[p].in) /\ v.out = Append(servers[p].out, Head(servers[p].in))
            <7>1. v.in = Tail(<<i>>) /\ v.out = Append(<<>>, Head(<<i>>))
              BY <5>3, <6>2, Zenon
            <7> QED
              BY <5>1, <7>1, Zenon DEF Holds
          <6> QED
            BY <2>3, <6>1, <6>2
        <5>4. CASE servers[p].in = <<>> /\ servers[p].out = <<i>>
          <6>1. v.in = <<>> /\ v.out = servers[p].out
            BY <2>3, <5>4
          <6> QED
            BY <5>4, <6>1, Zenon DEF Holds
        <5> QED
          BY <5>2, <5>3, <5>4 DEF Holds
      <4> QED
        BY <3>1, <4>1, <4>2 DEF Clean
    <3> QED
      BY <3>2, <3>3
  <2>7. PipesAnswer'
    <3> SUFFICES ASSUME NEW q \in 1..Len(servers)
                 PROVE  /\ ~servers'[q].alive => servers'[q].in = <<>>
                        /\ q \notin shifted => Clean(servers'[q], request, q)
      BY <2>1, <2>4 DEF PipesAnswer
    <3>1. CASE q = p
      BY <2>4, <2>5, <2>6, <3>1
    <3>2. CASE q # p
      BY <2>4, <3>2 DEF PipesAnswer
    <3> QED
      BY <3>1, <3>2
  <2> QED
    BY <2>2, <2>7
<1>7. CASE Close \/ CloseReturns \/ UNCHANGED mcpVars
  <2>1. UNCHANGED <<request, servers, shifted>>
    BY <1>7 DEF Close, CloseReturns, mcpVars
  <2> QED
    BY <2>1 DEF PipesAnswer, AnswerIsOwn
<1>8. CASE TokensExpire
  <2>1. UNCHANGED <<servers, shifted>>
        /\ request' = [d \in McpCallers |->
             [request[d] EXCEPT !.token = IF @ = "valid" THEN "expired" ELSE @]]
    BY <1>8 DEF TokensExpire
  <2>2. ASSUME NEW d \in McpCallers
        PROVE  /\ request'[d].id = request[d].id /\ request'[d].got = request[d].got
               /\ request'[d].on = request[d].on /\ request'[d].outcome = request[d].outcome
               /\ request'[d].stage = request[d].stage
    BY <1>r, <2>1 DEF Calls
  <2>3. AnswerIsOwn'
    BY <2>1, <2>2 DEF AnswerIsOwn
  <2>4. ASSUME NEW p \in 1..Len(servers), Clean(servers[p], request, p)
        PROVE  Clean(servers[p], request', p)
    <3>1. \A d \in McpCallers : /\ IsWaiting(request'[d], p) <=> IsWaiting(request[d], p)
                                /\ request'[d].id = request[d].id
      BY <2>2 DEF IsWaiting
    <3> QED
      BY <2>4, <3>1 DEF Clean
  <2> QED
    BY <2>1, <2>3, <2>4 DEF PipesAnswer
<1>9. ASSUME NEW c \in McpCallers, Enter(c) \/ CallRefused(c) \/ SendRpc(c) \/ Proceeds(c)
      PROVE  PipesAnswer' /\ AnswerIsOwn'
  <2>1. \/ \E x \in Calls : \/ Begins(c, x) \/ Opens(c, x) \/ Advances(c, x)
                            \/ Resumes(c, x) \/ Receives(c, x) \/ Posts(c, x)
        \/ \E x \in Calls, now \in Seq(Children) : \E p \in 1..Len(now) : Sends(c, x, p, now)
    BY <1>9, StepKinds, Zenon
  <2> QED
    BY <1>1, <1>2, <1>3, <1>4, <1>5, <1>10, <2>1, Zenon
<1> QED
  BY <1>6, <1>7, <1>8, <1>9 DEF McpNext

-----------------------------------------------------------------------------
(* As long as nothing overlapped: only the child _process names lives, it  *)
(* is the one that is closed, and a task spawns alone, when none lives.    *)
ChildOwned ==
  ~crossed =>
    /\ \A p \in 1..Len(servers) : servers[p].alive => p = process
    /\ closing # 0 => process = closing
    /\ \A c \in At("spawning") : closing = 0 /\ ~Alive(process) /\ At("spawning") = {c}

(* Every step keeps ChildOwned, unless a spawn overlaps.                   *)
LEMMA ChildOwnedStep == McpTyped /\ ChildOwned /\ [McpNext]_mcpVars => ChildOwned'
<1> SUFFICES ASSUME McpTyped, ChildOwned, [McpNext]_mcpVars, ~crossed' PROVE ChildOwned'
  BY DEF ChildOwned
<1>0. /\ servers \in Seq(Children) /\ Len(servers) \in Nat
      /\ process \in 0..Len(servers) /\ closing \in 0..Len(servers)
      /\ crossed \in BOOLEAN
  BY DEF McpTyped
<1>o. ASSUME ~crossed
      PROVE  /\ \A p \in 1..Len(servers) : servers[p].alive => p = process
             /\ closing # 0 => process = closing
             /\ \A c \in At("spawning") : closing = 0 /\ ~Alive(process) /\ At("spawning") = {c}
  BY <1>o DEF ChildOwned
<1>m. ASSUME NEW c \in McpCallers, NEW x \in Calls, Moves(c, x)
      PROVE  /\ request'[c] = x /\ \A d \in McpCallers : d # c => request'[d] = request[d]
             /\ At("spawning")' = IF x.stage = "spawning" THEN At("spawning") \cup {c}
                                  ELSE At("spawning") \ {c}
  <2>1. request'[c] = x /\ \A d \in McpCallers : d # c => request'[d] = request[d]
    BY <1>m DEF Moves, McpTyped
  <2> QED
    BY <2>1 DEF At
(* No child changes, and no task spawns that did not.                      *)
<1>s. ASSUME servers' = servers, process' = process, closing' = closing, crossed' = crossed,
             At("spawning")' \subseteq At("spawning")
      PROVE  ChildOwned'
  BY <1>o, <1>s DEF ChildOwned, Alive
<1>1. ASSUME NEW c \in McpCallers, NEW x \in Calls, Begins(c, x) PROVE ChildOwned'
  <2>1. /\ Moves(c, x) /\ UNCHANGED <<servers, process, closing>> /\ c \notin At("spawning")
        /\ IF x.stage = "spawning"
           THEN ~Alive(process) /\ crossed' = (crossed \/ closing # 0 \/ At("spawning") # {})
           ELSE crossed' = crossed
    BY <1>1 DEF Begins, Free, At
  <2>2. CASE x.stage # "spawning"
    <3>1. At("spawning")' \subseteq At("spawning")
      BY <1>m, <2>1, <2>2
    <3> QED
      BY <1>s, <2>1, <2>2, <3>1
  <2>3. CASE x.stage = "spawning"
    <3>1. ~crossed /\ closing = 0 /\ At("spawning") = {} /\ ~Alive(process)
      BY <1>0, <2>1, <2>3
    <3>2. At("spawning")' = {c}
      BY <1>m, <2>1, <2>3, <3>1
    <3> QED
      BY <1>o, <2>1, <3>1, <3>2 DEF ChildOwned, Alive
  <2> QED
    BY <2>2, <2>3
<1>2. ASSUME NEW c \in McpCallers, NEW x \in Calls, Moves(c, x),
             request[c].stage = "spawning", x.stage # "spawning",
             servers' \in Seq(Children), Len(servers') = Len(servers) + 1, process' = Len(servers) + 1,
             \A q \in 1..Len(servers) : servers'[q].alive = servers[q].alive,
             closing' = closing, crossed' = crossed
      PROVE  ChildOwned'
  <2>1. c \in At("spawning") /\ ~crossed
    BY <1>2 DEF At
  <2>2. closing = 0 /\ ~Alive(process) /\ At("spawning") = {c}
    BY <1>o, <2>1
  <2>3. At("spawning")' = {}
    BY <1>2, <1>m, <2>2
  <2>4. ASSUME NEW q \in 1..Len(servers'), servers'[q].alive PROVE q = process'
    <3>1. CASE q \in 1..Len(servers)
      <4>1. servers[q].alive /\ q = process
        BY <1>2, <1>o, <2>1, <2>4, <3>1
      <4> QED
        BY <2>2, <3>1, <4>1 DEF Alive
    <3>2. CASE q \notin 1..Len(servers)
      BY <1>0, <1>2, <3>2
    <3> QED
      BY <3>1, <3>2
  <2> QED
    BY <1>2, <2>2, <2>3, <2>4 DEF ChildOwned
<1>3. ASSUME NEW c \in McpCallers, NEW x \in Calls, Opens(c, x) PROVE ChildOwned'
  <2>1. /\ Moves(c, x) /\ request[c].stage = "spawning" /\ x.stage # "spawning"
        /\ process' = Len(servers) + 1 /\ closing' = closing /\ crossed' = crossed
        /\ servers' = Append(servers, NewServer)
    BY <1>3 DEF Opens
  <2>2. /\ servers' \in Seq(Children) /\ Len(servers') = Len(servers) + 1
        /\ \A q \in 1..Len(servers) : servers'[q].alive = servers[q].alive
    BY <1>0, <2>1, ChildAdded
  <2> QED
    BY <1>2, <2>1, <2>2
<1>4. ASSUME NEW c \in McpCallers, NEW x \in Calls, NEW now \in Seq(Children),
             NEW p \in 1..Len(now), Sends(c, x, p, now)
      PROVE  ChildOwned'
  <2>1. /\ Moves(c, x) /\ closing' = closing /\ crossed' = crossed /\ x.stage # "spawning"
        /\ servers' \in Seq(Children) /\ Len(servers') = Len(now)
        /\ \A q \in 1..Len(now) : q # p => servers'[q] = now[q]
        /\ servers'[p].alive = now[p].alive
    BY <1>4 DEF Sends
  <2>2. \A q \in 1..Len(now) : servers'[q].alive = now[q].alive
    BY <2>1
  <2>3. CASE Free(c) /\ now = servers /\ process' = process
    <3>1. At("spawning")' = At("spawning")
      BY <1>m, <2>1, <2>3 DEF At, Free
    <3> QED
      BY <1>0, <1>o, <2>1, <2>2, <2>3, <3>1 DEF ChildOwned, Alive
  <2>4. CASE /\ request[c].stage = "spawning" /\ now = Append(servers, NewServer)
             /\ p = Len(servers) + 1 /\ process' = p
    <3>1. Len(now) = Len(servers) + 1 /\ \A q \in 1..Len(servers) : now[q] = servers[q]
      BY <1>0, <2>4, ChildAdded
    <3>2. \A q \in 1..Len(servers) : servers'[q].alive = servers[q].alive
      BY <1>0, <2>2, <3>1
    <3> QED
      BY <1>2, <2>1, <2>4, <3>1, <3>2
  <2> QED
    BY <1>4, <2>3, <2>4 DEF Sends
<1>5. ASSUME NEW c \in McpCallers, NEW x \in Calls,
             Advances(c, x) \/ Resumes(c, x) \/ Receives(c, x) \/ Posts(c, x)
      PROVE  ChildOwned'
  <2>1. /\ Moves(c, x) /\ UNCHANGED <<process, closing, crossed>> /\ x.stage # "spawning"
        /\ \/ servers' = servers
           \/ /\ request[c].stage = "reading"
              /\ servers' = [servers EXCEPT ![request[c].on].out = Tail(@)]
    BY <1>5 DEF Advances, Resumes, Receives, Posts
  <2>2. At("spawning")' \subseteq At("spawning")
    BY <1>m, <2>1
  <2>3. CASE servers' = servers
    BY <1>s, <2>1, <2>2, <2>3
  <2>4. CASE request[c].stage = "reading" /\ servers' = [servers EXCEPT ![request[c].on].out = Tail(@)]
    <3>1. request[c].on \in 1..Len(servers)
      BY <2>4, RequestFacts DEF StageFits, Fits
    <3>2. /\ Len(servers') = Len(servers)
          /\ \A q \in 1..Len(servers) : servers'[q].alive = servers[q].alive
      BY <1>0, <2>4, <3>1 DEF Children
    <3> QED
      BY <1>0, <1>o, <2>1, <2>2, <3>2 DEF ChildOwned, Alive
  <2> QED
    BY <2>1, <2>3, <2>4
<1>6. ASSUME NEW p \in DOMAIN servers, ServerAnswers(p) \/ ServerDies(p) PROVE ChildOwned'
  <2>1. p \in 1..Len(servers) /\ UNCHANGED <<request, process, closing, crossed>> /\ servers[p].alive
    BY <1>0, <1>6 DEF ServerAnswers, ServerDies
  <2>2. PICK v \in Children : servers' = [servers EXCEPT ![p] = v]
    BY <1>6, <2>1, ServerSteps
  <2>3. /\ Len(servers') = Len(servers)
        /\ \A q \in 1..Len(servers) : servers'[q] = IF q = p THEN v ELSE servers[q]
    BY <1>0, <2>1, <2>2, ChildUpdated
  <2>4. \A q \in 1..Len(servers) : servers'[q].alive => servers[q].alive
    BY <2>1, <2>3
  <2>5. At("spawning")' = At("spawning")
    BY <2>1 DEF At
  <2> QED
    BY <1>0, <1>o, <2>1, <2>3, <2>4, <2>5 DEF ChildOwned, Alive
<1>7. CASE Close
  <2>1. /\ closing = 0 /\ servers' = servers /\ request' = request
        /\ closing' = (IF Alive(process) THEN process ELSE 0)
        /\ process' = (IF Alive(process) THEN process ELSE 0)
        /\ crossed' = (crossed \/ (Alive(process) /\ At("spawning") # {}))
    BY <1>7 DEF Close
  <2>2. At("spawning")' = At("spawning") /\ ~crossed
    BY <1>0, <2>1 DEF At
  <2>3. CASE Alive(process)
    <3>1. At("spawning") = {}
      BY <2>1, <2>3
    <3> QED
      BY <1>o, <2>1, <2>2, <2>3, <3>1 DEF ChildOwned
  <2>4. CASE ~Alive(process)
    <3>1. \A p \in 1..Len(servers) : ~servers[p].alive
      BY <1>0, <1>o, <2>2, <2>4 DEF Alive
    <3> QED
      BY <1>o, <2>1, <2>2, <2>4, <3>1 DEF ChildOwned, Alive
  <2> QED
    BY <2>3, <2>4
<1>8. CASE CloseReturns
  <2>1. /\ closing # 0 /\ ~servers[closing].alive /\ process' = 0 /\ closing' = 0
        /\ UNCHANGED <<request, servers, crossed>>
    BY <1>8 DEF CloseReturns
  <2>2. At("spawning")' = At("spawning") /\ ~crossed
    BY <2>1 DEF At
  <2>3. At("spawning") = {}
    BY <1>o, <2>1, <2>2
  <2>4. \A p \in 1..Len(servers) : ~servers[p].alive
    BY <1>o, <2>1, <2>2
  <2> QED
    BY <2>1, <2>2, <2>3, <2>4 DEF ChildOwned
<1>9. CASE TokensExpire
  <2>1. /\ UNCHANGED <<servers, process, closing, crossed>>
        /\ request' = [d \in McpCallers |->
             [request[d] EXCEPT !.token = IF @ = "valid" THEN "expired" ELSE @]]
    BY <1>9 DEF TokensExpire
  <2>2. \A d \in McpCallers : request'[d].stage = request[d].stage
    BY <2>1, RequestFacts DEF Calls
  <2>3. At("spawning")' \subseteq At("spawning")
    BY <2>2 DEF At
  <2> QED
    BY <1>s, <2>1, <2>3
<1>10. CASE UNCHANGED mcpVars
  <2>1. UNCHANGED <<servers, process, closing, crossed, request>>
    BY <1>10 DEF mcpVars
  <2>2. At("spawning")' \subseteq At("spawning")
    BY <2>1 DEF At
  <2> QED
    BY <1>s, <2>1, <2>2
<1>11. ASSUME NEW c \in McpCallers, Enter(c) \/ CallRefused(c) \/ SendRpc(c) \/ Proceeds(c)
       PROVE  ChildOwned'
  <2>1. \/ \E x \in Calls : \/ Begins(c, x) \/ Opens(c, x) \/ Advances(c, x)
                            \/ Resumes(c, x) \/ Receives(c, x) \/ Posts(c, x)
        \/ \E x \in Calls, now \in Seq(Children) : \E p \in 1..Len(now) : Sends(c, x, p, now)
    BY <1>11, StepKinds, Zenon
  <2> QED
    BY <1>1, <1>3, <1>4, <1>5, <2>1, Zenon
<1> QED
  BY <1>6, <1>7, <1>8, <1>9, <1>10, <1>11 DEF McpNext

-----------------------------------------------------------------------------
McpInvariant == McpTyped /\ RequestsWaitOnce /\ PipesAnswer /\ AnswerIsOwn /\ ChildOwned

(* The invariant holds at first, and means what CallsSafe says.            *)
LEMMA McpInvariantInit == McpInit => McpInvariant
<1> SUFFICES ASSUME McpInit PROVE McpInvariant
  OBVIOUS
<1>1. McpTyped
  BY McpTypedInit
<1>2. /\ \A c \in McpCallers : request[c] = Quiet
      /\ servers = <<>> /\ Len(servers) = 0 /\ closing = 0 /\ process = 0
      /\ \A i \in 1..MaxCalls : effects[i] = 0
  BY DEF McpInit
<1>3. \A p \in 1..Len(servers) : FALSE
  BY <1>2
<1>4. \A c \in McpCallers : /\ request[c].id = 0 /\ request[c].outcome = "none"
                            /\ request[c].stage = "idle"
  BY <1>2 DEF Quiet
<1>5. RequestsWaitOnce
  <2>1. \A c \in McpCallers : ~Unserved(request[c])
    BY <1>4 DEF Unserved
  <2>2. QueuesDiffer(servers) /\ \A i : ~QueuedIn(servers, i)
    BY <1>3 DEF QueuesDiffer, QueuedIn
  <2>3. \A i \in 1..MaxCalls : effects[i] <= (IF Permitted THEN 1 ELSE 0)
    BY <1>2
  <2> QED
    BY <1>2, <1>4, <2>1, <2>2, <2>3 DEF RequestsWaitOnce
<1>6. PipesAnswer
  BY <1>3 DEF PipesAnswer
<1>7. AnswerIsOwn
  BY <1>4 DEF AnswerIsOwn
<1>8. ChildOwned
  BY <1>2, <1>3, <1>4 DEF ChildOwned, At
<1> QED
  BY <1>1, <1>5, <1>6, <1>7, <1>8 DEF McpInvariant

LEMMA McpInvariantMeans == McpInvariant => CallsSafe
<1> SUFFICES ASSUME McpInvariant PROVE CallsSafe
  OBVIOUS
<1>1. AnswerIsOwn
  BY DEF McpInvariant
<1>2. CarriedOutOnce
  <2>1. ASSUME NEW c \in McpCallers, request[c].outcome = "auth", request[c].id # 0
        PROVE  effects[request[c].id] = 0
    BY <2>1 DEF McpInvariant, RequestsWaitOnce, Unserved
  <2> QED
    BY <2>1 DEF McpInvariant, RequestsWaitOnce, CarriedOutOnce
<1>3. ChildrenAreOwned
  <2>1. DOMAIN servers = 1..Len(servers)
    BY DEF McpInvariant, McpTyped
  <2> QED
    BY <2>1 DEF McpInvariant, ChildOwned, ChildrenAreOwned
<1> QED
  BY <1>1, <1>2, <1>3 DEF CallsSafe

(* A call gets its own answer, is carried out at most once, and leaves no  *)
(* child process behind, but for the give-ups and overlaps that the parts  *)
(* of CallsSafe name: _send_rpc, connect and close, over both transports.  *)
THEOREM CallsSafeHolds == McpSpec => []CallsSafe
<1>1. McpInvariant /\ [McpNext]_mcpVars => McpInvariant'
  BY McpTypedStep, RequestsWaitOnceStep, AnswersStep, ChildOwnedStep DEF McpInvariant
<1> QED
  BY <1>1, McpInvariantInit, McpInvariantMeans, PTL DEF McpSpec

=============================================================================

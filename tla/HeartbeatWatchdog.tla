-------------------------- MODULE HeartbeatWatchdog --------------------------
(***************************************************************************)
(* HeartbeatWatchdog (execution/heartbeat.py) listening to a venue whose   *)
(* heartbeats may be lost, delayed and reordered.                          *)
(*                                                                         *)
(* Only differences of timestamps matter, so the clock is relative: age is *)
(* what check_liveness computes from last_heartbeat_timestamp_ns, and the  *)
(* heartbeats on the wire carry the time since they were sent.  Ages stop  *)
(* growing at MaxAge, where every threshold has been passed.  A heartbeat  *)
(* is recorded with its sender's time if it carries one and with the time  *)
(* of its arrival otherwise (RiskService.record_heartbeat).                *)
(***************************************************************************)
EXTENDS Integers

CONSTANTS
  Interval,   \* heartbeat_interval_seconds
  Timeout,    \* timeout_seconds
  MaxMisses,  \* max_consecutive_misses
  MaxSeq,     \* bound: heartbeats per session
  MaxRetries, \* bound: mark_reconnecting calls in one silence
  None

ASSUME HeartbeatAssumption ==
  /\ Interval \in Nat \ {0} /\ Timeout \in Nat /\ Interval <= Timeout
  /\ MaxMisses \in Nat \ {0} /\ MaxMisses * Interval \in Nat
  /\ MaxSeq \in Nat /\ MaxRetries \in Nat
  /\ None \notin Nat

VARIABLES
  linkStatus,    \* status
  age,       \* time since last_heartbeat_timestamp_ns; None while that is 0
  expected,  \* expected_sequence_number
  gaps,      \* sequence_gaps_count
  fired,     \* disconnect notifications since the last heartbeat or reset
  sent,      \* the venue: heartbeats sent in this session
  inFlight       \* heartbeats under way: [seq, age]

(* History.                                                                *)
VARIABLES
  received,  \* sequence numbers recorded in this session
  silence,   \* time since the freshest received heartbeat was sent
  clock,     \* "back" if the last heartbeat recorded, overtaken by a younger
             \* one, set the clock to its sender's time; else "true"
  retries    \* mark_reconnecting calls since the last heartbeat or reset

watchdogVars == <<linkStatus, age, expected, gaps, fired, sent, inFlight, received, silence, clock, retries>>

MaxAge == Timeout
Older(a) == IF a < MaxAge THEN a + 1 ELSE MaxAge

(* elapsed >= timeout, or floor(elapsed / interval) >= max_misses.         *)
TimedOut(a) == a >= Timeout \/ a >= MaxMisses * Interval

WatchdogInit ==
  /\ linkStatus = "CONNECTED"
  /\ age = None
  /\ expected = 1
  /\ gaps = 0 /\ fired = 0
  /\ sent = 0 /\ inFlight = {}
  /\ received = {} /\ silence = 0 /\ clock = "true" /\ retries = 0

-----------------------------------------------------------------------------
(* Time and the venue.                                                     *)
Tick ==
  /\ age' = IF age = None THEN None ELSE Older(age)
  /\ silence' = Older(silence)
  /\ inFlight' = {[m EXCEPT !.age = Older(@)] : m \in inFlight}
  /\ UNCHANGED <<linkStatus, expected, gaps, fired, sent, received, clock, retries>>

SendHeartbeat ==
  /\ sent < MaxSeq
  /\ sent' = sent + 1
  /\ inFlight' = inFlight \cup {[seq |-> sent + 1, age |-> 0]}
  /\ UNCHANGED <<linkStatus, age, expected, gaps, fired, received, silence, clock, retries>>

LoseHeartbeat(m) ==
  /\ inFlight' = inFlight \ {m}
  /\ UNCHANGED <<linkStatus, age, expected, gaps, fired, sent, received, silence, clock,
                 retries>>

-----------------------------------------------------------------------------
(* Faulty variant: only a heartbeat in sequence moves the clock.           *)
StampedAgeInSequence(m, bySender) ==
  IF m.seq # expected /\ age # None THEN age
  ELSE IF bySender THEN m.age ELSE 0

GapFound(seq) == seq # expected

GapsAfter(seq) == IF GapFound(seq) THEN gaps + 1 ELSE gaps

StampedAge(m, bySender) == IF bySender THEN m.age ELSE 0

(* record_heartbeat: the timestamp is taken as it comes, the sequence      *)
(* number only moves the watermark forward, and any heartbeat revives the  *)
(* connection.  slow: the latency reached the warning threshold.           *)
RecordHeartbeat(m, slow, bySender) ==
  /\ age' = StampedAge(m, bySender)
  /\ gaps' = GapsAfter(m.seq)
  /\ expected' = IF m.seq >= expected THEN m.seq + 1 ELSE expected
  /\ linkStatus' = IF slow THEN "DEGRADED" ELSE "CONNECTED"
  /\ fired' = 0 /\ retries' = 0
  /\ inFlight' = inFlight \ {m}
  /\ received' = received \cup {m.seq}
  /\ silence' = IF m.age < silence THEN m.age ELSE silence
  /\ clock' = IF bySender /\ m.age > silence THEN "back" ELSE "true"
  /\ UNCHANGED sent

(* The disconnect listeners are told when the status changes.              *)
MustNotify == linkStatus # "DISCONNECTED"

(* check_liveness: the first check without a baseline only sets it; then   *)
(* timeout, soft degradation, or nothing.                                  *)
CheckBaseline ==
  /\ age = None
  /\ age' = 0
  /\ UNCHANGED <<linkStatus, expected, gaps, fired, sent, inFlight, received, silence, clock,
                 retries>>

CheckTimeout ==
  /\ age # None /\ TimedOut(age)
  /\ MustNotify
  /\ linkStatus' = "DISCONNECTED"
  /\ fired' = fired + 1
  /\ UNCHANGED <<age, expected, gaps, sent, inFlight, received, silence, clock, retries>>

CheckDegraded ==
  /\ age # None /\ ~TimedOut(age)
  /\ age >= Interval /\ linkStatus = "CONNECTED"
  /\ linkStatus' = "DEGRADED"
  /\ UNCHANGED <<age, expected, gaps, fired, sent, inFlight, received, silence, clock, retries>>

MarkReconnecting ==
  /\ linkStatus # "RECONNECTING"
  /\ retries < MaxRetries
  /\ linkStatus' = "RECONNECTING"
  /\ retries' = retries + 1
  /\ UNCHANGED <<age, expected, gaps, fired, sent, inFlight, received, silence, clock>>

(* reset, with the current time or without (current_timestamp_ns = 0): a   *)
(* new session, whose sequence numbers start again.                        *)
Reset(a) ==
  /\ linkStatus' = "CONNECTED"
  /\ age' = a
  /\ expected' = 1
  /\ gaps' = 0 /\ fired' = 0 /\ retries' = 0
  /\ sent' = 0 /\ inFlight' = {} /\ received' = {}
  /\ silence' = 0 /\ clock' = "true"

WatchdogNext ==
  \/ Tick \/ SendHeartbeat
  \/ \E m \in inFlight : LoseHeartbeat(m) \/ \E slow, bySender \in BOOLEAN : RecordHeartbeat(m, slow, bySender)
  \/ CheckBaseline \/ CheckTimeout \/ CheckDegraded
  \/ MarkReconnecting
  \/ \E a \in {None, 0} : Reset(a)

WatchdogSpec == WatchdogInit /\ [][WatchdogNext]_watchdogVars

-----------------------------------------------------------------------------
WatchdogTypeOK ==
  /\ linkStatus \in {"CONNECTED", "DEGRADED", "DISCONNECTED", "RECONNECTING"}
  /\ age \in {None} \cup 0..MaxAge
  /\ expected \in 1..(MaxSeq + 1)
  /\ gaps \in Nat
  /\ fired \in Nat /\ retries \in 0..MaxRetries
  /\ sent \in 0..MaxSeq
  /\ inFlight \subseteq [seq : 1..sent, age : 0..MaxAge]
  /\ received \subseteq 1..sent
  /\ silence \in 0..MaxAge /\ clock \in {"true", "back"}

(* "Silence exceeding timeout_seconds or max_consecutive_misses transitions*)
(* state to DISCONNECTED" (heartbeat.py), and nothing else does: the       *)
(* connection is never given up while a heartbeat younger than the timeout *)
(* has been received, unless the last one was overtaken by a younger one   *)
(* and recorded with its sender's time, which moves the clock back.        *)
DisconnectsAreSilence ==
  linkStatus = "DISCONNECTED" => TimedOut(silence) \/ clock = "back"

(* No lost heartbeat goes unnoticed: as long as no gap was reported, the   *)
(* heartbeats received are exactly those below the expected number.        *)
NoSilentGap == gaps = 0 => received = 1..(expected - 1)

(* One silence raises at most one panic per loss of the connection: one,   *)
(* and one more for each attempt to reconnect that it outlasts.            *)
OncePerLoss ==
  /\ fired <= retries + 1
  /\ linkStatus = "DISCONNECTED" => fired >= 1

(* The watchdog gives a connection up only for silence, misses no gap, and *)
(* panics once per loss.                                                   *)
WatchdogSound ==
  /\ WatchdogTypeOK
  /\ DisconnectsAreSilence
  /\ NoSilentGap
  /\ OncePerLoss
=============================================================================

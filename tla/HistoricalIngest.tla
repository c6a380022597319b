--------------------------- MODULE HistoricalIngest ---------------------------
(***************************************************************************)
(* The historical data lake: scripts/ingest_historical_data.py fetches each*)
(* symbol through HistoricalDataHub (Polygon, then Alpaca, then Yahoo with *)
(* retries), the provider's parser makes a batch of the rows, and          *)
(* DuckDBHistoricalRepository stores it, keyed by symbol and timestamp, and*)
(* aligns the stored prices into a matrix of returns.                      *)
(*                                                                         *)
(* A day has one timestamp per provider.  A split changes the adjusted     *)
(* prices of the days before it: what a provider serves belongs to an era. *)
(***************************************************************************)
EXTENDS Integers, TLC, SequencesExt, FiniteSetsExt

CONSTANTS
  Symbols,        \* the universe, a sequence
  Credentials,    \* the sets of providers that may have credentials
  Days,           \* trading days, integers
  IngestWindows,  \* first and last day of a run
  Responses,      \* what a page may hold: sequences of rows
  Hours,          \* of each provider: when in the day it dates a daily bar
  YahooRetries,   \* max_retries of the Yahoo provider
  MaxPages,       \* bound: pages of one answer
  MaxRuns,        \* bound: ingestion runs
  MaxEras         \* bound: splits

ASSUME IngestAssumption ==
  /\ {YahooRetries, MaxEras} \subseteq Nat /\ {MaxPages, MaxRuns} \subseteq Nat \ {0}
  /\ Days \subseteq Nat \ {0} /\ IsInjective(Symbols)
  /\ \A c \in Credentials : c \subseteq {"polygon", "alpaca"}
  /\ \A v \in DOMAIN Hours : Hours[v] \in 0..23

VARIABLES
  configured,  \* the providers that have credentials; Yahoo needs none
  stored,      \* historical_bars: symbol and timestamp to price, era and provider
  pending,     \* symbols still to fetch in this run
  window,      \* first and last day asked for
  ingest,      \* where the run stands
  source,      \* the provider being asked
  attempt,     \* of the Yahoo loop
  pages, rows, \* pages received, and their rows
  outcome      \* of each symbol in this run: its status

(* History.                                                                *)
VARIABLES
  runs,
  era,         \* splits so far
  before,      \* stored when the run began
  saved        \* the last batch saved for each symbol

ingestVars == <<configured, stored, pending, window, ingest, source, attempt, pages, rows, outcome,
                runs, era, before, saved>>

Universe == Range(Symbols)
Empty == [price |-> 0, era |-> 0, by |-> "nobody"]
Stamp(v, d) == 24 * d + Hours[v]
Stamps == {Stamp(v, d) : v \in DOMAIN Hours, d \in Days}
DayOf(t) == t \div 24
Observed(s, table) == {t \in Stamps : table[s][t] # Empty}

IngestInit ==
  /\ configured \in Credentials
  /\ stored = [s \in Universe |-> [t \in Stamps |-> Empty]]
  /\ pending = <<>> /\ window \in IngestWindows /\ ingest = "idle" /\ source = "yahoo"
  /\ attempt = 0 /\ pages = 0 /\ rows = <<>>
  /\ outcome = [s \in Universe |-> "none"]
  /\ runs = 0 /\ era = 0 /\ before = stored
  /\ saved = [s \in Universe |-> [era |-> 0, by |-> "nobody", stamps |-> {}]]

-----------------------------------------------------------------------------
(* A provider's parser: rows that are not usable are dropped, the others   *)
(* are sorted by timestamp, and of rows with one timestamp the last stays. *)
UsableRow(row) == row.good
Kept(rs) == SelectSeq(rs, UsableRow)

DaysOf(rs) == {rs[i].day : i \in DOMAIN rs}
LastOf(rs, d) == rs[Max({i \in DOMAIN rs : rs[i].day = d})]

Batch(rs) ==
  LET ks == Kept(rs)
      ds == DaysOf(ks) IN
    [i \in 1..Cardinality(ds) |->
       LastOf(ks, CHOOSE d \in ds : Cardinality({e \in ds : e < d}) = i - 1)]

(* HistoricalBarBatch.__post_init__.                                       *)
ValidBatch(b) == b # <<>> /\ \A i \in 2..Len(b) : b[i - 1].day < b[i].day

(* INSERT OR REPLACE.  The column adj_close is NOT NULL, and only Yahoo    *)
(* leaves it out: one such bar refuses the whole statement.                *)
Refused(b, v) == v = "yahoo" /\ \E i \in DOMAIN b : ~b[i].adjusted

Bars(b, v) ==
  [t \in {Stamp(v, d) : d \in DaysOf(b)} |->
     [price |-> LastOf(b, DayOf(t)).price, era |-> era, by |-> v]]

(* INSERT OR REPLACE: the new bars win.                                    *)
Inserted(s, b, v) == Bars(b, v) @@ stored[s]

-----------------------------------------------------------------------------
(* HistoricalDataHub.fetch_bars: the providers in their order.             *)
After(v) ==
  IF v = "start" /\ "polygon" \in configured THEN "polygon"
  ELSE IF v \in {"start", "polygon"} /\ "alpaca" \in configured THEN "alpaca"
  ELSE "yahoo"

Asks(v) == source' = v /\ attempt' = 1 /\ pages' = 0 /\ rows' = <<>>

StartIngest ==
  /\ ingest = "idle" /\ runs < MaxRuns
  /\ runs' = runs + 1
  /\ window' \in IngestWindows
  /\ pending' = Symbols
  /\ outcome' = [s \in Universe |-> "none"]
  /\ before' = stored
  /\ \/ ingest' = "fetch" /\ Asks(After("start"))
     \/ ingest' = "idle" /\ UNCHANGED <<source, attempt, pages, rows>>   \* DatabaseLockedError
  /\ UNCHANGED <<configured, stored, era, saved>>

(* The loop goes on to the next symbol, or to the summary.                 *)
NextSymbol(status) ==
  /\ outcome' = [outcome EXCEPT ![Head(pending)] = status]
  /\ pending' = Tail(pending)
  /\ ingest' = IF Len(pending) = 1 THEN "summary" ELSE "fetch"
  /\ Asks(After("start"))

(* Polygon is asked for dates, the last one included; the others for times,*)
(* so that the last day, which begins at midnight, is left out.            *)
InWindow(rs) ==
  SelectSeq(rs, LAMBDA r : /\ window[1] <= r.day
                          /\ IF source = "polygon" THEN r.day <= window[2]
                             ELSE Stamp(source, r.day) <= 24 * window[2])

(* A page arrives and another follows.                                     *)
Page(rs) ==
  /\ ingest = "fetch" /\ source # "yahoo" /\ pages + 1 < MaxPages
  /\ pages' = pages + 1
  /\ rows' = rows \o InWindow(rs)
  /\ UNCHANGED <<configured, stored, pending, window, ingest, source, attempt, outcome, runs,
                 era, before, saved>>

(* The last page arrives and the batch is built.  An empty batch is an     *)
(* error like any other: the next provider is asked.                       *)
LastPage(rs) ==
  /\ ingest = "fetch"
  /\ LET b == Batch(rows \o InWindow(rs)) IN
       \/ /\ ValidBatch(b)
          /\ ingest' = "save" /\ rows' = b
          /\ UNCHANGED <<pending, source, attempt, pages, outcome>>
       \/ /\ ~ValidBatch(b)
          /\ IF source = "yahoo" THEN NextSymbol("FAILED")
             ELSE Asks(After(source)) /\ UNCHANGED <<pending, ingest, outcome>>
  /\ UNCHANGED <<configured, stored, window, runs, era, before, saved>>

(* save_batch_sync, and the query that reads the batch back.               *)
Save ==
  /\ ingest = "save"
  /\ IF Refused(rows, source)
     THEN NextSymbol("FAILED") /\ UNCHANGED <<stored, saved>>
     ELSE /\ stored' = [stored EXCEPT ![Head(pending)] = Inserted(Head(pending), rows, source)]
          /\ saved' = [saved EXCEPT ![Head(pending)] =
               [era |-> era, by |-> source, stamps |-> {Stamp(source, d) : d \in DaysOf(rows)}]]
          /\ NextSymbol("SUCCESS")
  /\ UNCHANGED <<configured, window, runs, era, before>>

(* Polygon or Alpaca fails: its pages are dropped and the next one is asked*)
FallsBack ==
  /\ ingest = "fetch" /\ source # "yahoo"
  /\ Asks(After(source))
  /\ UNCHANGED <<configured, stored, pending, window, ingest, outcome, runs, era, before,
                 saved>>

(* Faulty variant: the number of attempts is not counted.                  *)
BacksOffForever ==
  /\ ingest = "fetch" /\ source = "yahoo"
  /\ attempt' = IF attempt <= YahooRetries THEN attempt + 1 ELSE 1
  /\ UNCHANGED <<configured, stored, pending, window, ingest, source, pages, rows, outcome,
                 runs, era, before, saved>>

(* Yahoo answers 429 or 5xx, or does not answer: wait and try again.       *)
BacksOff ==
  /\ ingest = "fetch" /\ source = "yahoo"
  /\ IF attempt <= YahooRetries
     THEN attempt' = attempt + 1 /\ UNCHANGED <<pending, ingest, source, pages, rows, outcome>>
     ELSE NextSymbol("FAILED")
  /\ UNCHANGED <<configured, stored, window, runs, era, before, saved>>

(* 404 or another status: no further attempt.                              *)
YahooRefuses ==
  /\ ingest = "fetch" /\ source = "yahoo"
  /\ NextSymbol("FAILED")
  /\ UNCHANGED <<configured, stored, window, runs, era, before, saved>>

(* The report and, for two symbols or more, the matrix of returns.         *)
Summary ==
  /\ ingest = "summary"
  /\ ingest' = "idle"
  /\ UNCHANGED <<configured, stored, pending, window, source, attempt, pages, rows, outcome,
                 runs, era, before, saved>>

Split ==
  /\ era < MaxEras /\ ingest = "idle"
  /\ era' = era + 1
  /\ UNCHANGED <<configured, stored, pending, window, ingest, source, attempt, pages, rows,
                 outcome, runs, before, saved>>

IngestStep ==
  \/ \E rs \in Responses : Page(rs) \/ LastPage(rs)
  \/ Save \/ FallsBack \/ BacksOff \/ YahooRefuses \/ Summary

IngestNext == StartIngest \/ IngestStep \/ Split

IngestSpec == IngestInit /\ [][IngestNext]_ingestVars

-----------------------------------------------------------------------------
(* get_aligned_returns_matrix of a table: all the timestamps any symbol    *)
(* has, prices carried forward, no change before a symbol's first price.   *)
Times(table) == UNION {Observed(s, table) : s \in Universe}

Filled(s, t, table) ==
  LET seen == {u \in Observed(s, table) : u <= t} IN
    IF seen = {} THEN 0 ELSE table[s][Max(seen)].price

(* The change of price between two timestamps that follow each other.      *)
Change(s, p, t, table) ==
  LET prev == Filled(s, p, table)
      curr == Filled(s, t, table) IN
    IF prev > 0 /\ curr > 0 THEN curr - prev ELSE 0

(* The rows of the matrix: every timestamp but the first.                  *)
Matrix(table) ==
  LET ts == Times(table) IN
    [t \in ts \ (IF ts = {} THEN {} ELSE {Min(ts)}) |->
       [s \in Universe |-> Change(s, Max({u \in ts : u < t}), t, table)]]

Between(table, from, to) ==
  [s \in Universe |-> [t \in Stamps |-> IF from <= t /\ t <= to THEN table[s][t] ELSE Empty]]

(* The script asks for its own window, whose last day ends at midnight.    *)
Asked == Between(stored, 24 * window[1], 24 * window[2])

-----------------------------------------------------------------------------
(* What the matrix says up to a time does not change when later bars are   *)
(* added to the store: no price is carried backwards.                      *)
ZeroLookahead ==
  ingest = "summary" =>
    LET whole == Matrix(Asked) IN
    \A t \in Stamps :
      LET past == Matrix(Between(Asked, 0, t)) IN
        past = [u \in {v \in DOMAIN whole : v <= t} |-> whole[u]]

(* The changes of a symbol add up to the whole move from its first price to*)
(* its last, whichever days it was missing while others traded.            *)
NoMoveIsLost ==
  ingest = "summary" =>
    LET table == Asked
        whole == Matrix(table) IN
    \A s \in Universe :
      LET seen == Observed(s, table) IN
      seen # {} =>
        MapThenSumSet(LAMBDA t : whole[t][s], DOMAIN whole)
          = table[s][Max(seen)].price - table[s][Min(seen)].price

(* A batch is never refused for its order or for duplicates (INV-DATA-004).*)
BatchesAreMonotone ==
  ingest = "fetch" => \A rs \in Responses :
    LET b == Batch(rows \o InWindow(rs)) IN b = <<>> \/ ValidBatch(b)

(* Within the days of its last successful ingest, a symbol has bars of an  *)
(* earlier era only where that answer had none, or under the timestamps of *)
(* another provider.                                                       *)
StaleBarsExplained ==
  \A s \in Universe, t \in Stamps :
    stored[s][t] # Empty /\ stored[s][t].era < saved[s].era =>
      t \notin saved[s].stamps

(* A symbol reported as failed is as it was before the run, although some  *)
(* of its pages had arrived.                                               *)
FailedIsUntouched ==
  \A s \in Universe : outcome[s] \in {"none", "FAILED"} /\ ingest # "idle" => stored[s] = before[s]

(* How much of a run is left at most: of each symbol still to fetch, the   *)
(* providers, their pages and their attempts.                              *)
Effort ==
  LET room == MaxPages + YahooRetries + 1
      left == [polygon |-> 2, alpaca |-> 1, yahoo |-> 0]
  IN  IF ingest = "save" THEN 0
      ELSE room * left[source] + (MaxPages - pages) + (YahooRetries + 2 - attempt)

Remaining ==
  CASE ingest = "idle" -> 0
    [] ingest = "summary" -> 1
    [] OTHER -> 2 + Effort + (Len(pending) - 1) * (3 * (MaxPages + YahooRetries + 1) + 1)

(* Every run ends, whatever the providers answer, as long as an answer has *)
(* finitely many pages: each step of a run uses up some of it, across      *)
(* retries, fallbacks and refused batches,                                 *)
RunsAdvance == [][ingest # "idle" => Remaining' < Remaining]_ingestVars

(* and no run is ever left without a next step.                            *)
RunsNeverStick == ingest # "idle" => ENABLED IngestStep

(* The store holds what the providers last said, no more: failed symbols   *)
(* untouched, stale bars only where an answer had none; the matrix looks   *)
(* neither ahead nor away; and every run ends.                             *)
IngestFaithful ==
  /\ []ZeroLookahead
  /\ []NoMoveIsLost
  /\ []BatchesAreMonotone
  /\ []StaleBarsExplained
  /\ []FailedIsUntouched
  /\ []RunsNeverStick
  /\ RunsAdvance
=============================================================================

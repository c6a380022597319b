--------------------------- MODULE LedgerService ---------------------------
(***************************************************************************)
(* LedgerService (services/ledger_service.py) over the tax-lot engine and  *)
(* the financing model (execution/financing.py), for one portfolio and one *)
(* symbol.                                                                 *)
(*                                                                         *)
(* Every call has a database session of its own: it reads committed rows,  *)
(* its writes are absolute values, sent and made visible together by its   *)
(* commit, and only for attributes whose value it changed.  The lots in    *)
(* memory are shared: record_fill changes them before its first await.  A  *)
(* rehydration replaces the lot objects; a call under way holds the old    *)
(* ones.                                                                   *)
(*                                                                         *)
(* total_equity, NAV and the P&L columns are reports nothing reads back.   *)
(***************************************************************************)
EXTENDS TaxLots

CONSTANTS
  MaxFills,        \* bound: calls of record_fill
  MaxAccruals,     \* bound: calls of accrue_daily_eod
  Dates,           \* their dates
  FillRequests,    \* what record_fill is called with
  Prices,          \* of the symbol at an accrual
  Cash0,           \* cash_balance of a new account
  MarginRate, BorrowRate,   \* daily, per unit borrowed and per unit of short value
  MaxCalls,        \* bound: calls of either
  MaxOpenCalls,    \* bound: calls under way at once
  MaxLedgerFaults  \* bound: failing commits, restarts, reloads

ASSUME LedgerAssumption ==
  /\ {MaxFills, MaxAccruals, MaxCalls, MaxOpenCalls, MaxLedgerFaults} \subseteq Nat
  /\ {MarginRate, BorrowRate} \subseteq Nat
  /\ Cash0 \in Nat /\ Prices \subseteq Nat \ {0}
  /\ FillRequests \subseteq [side : {-1, 1}, quantity : Nat \ {0}, price : Nat \ {0},
                             time : Nat, lifo : BOOLEAN]

FillIds == 1..MaxFills
AccrualIds == (MaxFills + 1)..(MaxFills + MaxAccruals)
Calls == FillIds \cup AccrualIds
InFlight == {"lots", "account", "trades", "commit"}
NoCall == [held |-> <<>>, todo |-> {}, rows |-> <<>>, opens |-> {}, flows |-> <<>>,
           cashIn |-> 0, cash |-> 0, debt |-> 0, wrote |-> {}, date |-> 0, lifo |-> FALSE]

VARIABLES
  shorting,   \* the engine's allow_shorting
  memory,     \* the engine's lots
  call,       \* where each call stands: idle, lots, account, commit, done, failed
  work,       \* what it has read and will write
  rows,       \* the committed tax lots, by id
  account,    \* the committed account row: cash_balance and margin_debt
  journal,    \* the committed journal: balances of its accounts
  accrued,    \* the committed snapshots: the calls and their dates
  reload      \* rows read by a rehydration under way, or {} and off

(* History.                                                                *)
VARIABLES
  ledgerFaults,
  ahead,      \* memory holds a fill that was never committed
  overlapped, \* a fill or a reload began while another call was under way
  overtaken,  \* calls whose account row was rewritten after they read it
  lostUpdate, \* such a call has committed
  lag         \* the drag not counted in margin_debt by the last accrual

ledgerHistory == <<ledgerFaults, ahead, overlapped, overtaken, lostUpdate, lag>>
ledgerVars == <<shorting, memory, call, work, rows, account, journal, accrued, reload, ledgerHistory>>

Busy == {c \in Calls : call[c] \in InFlight}
WithinBounds ==
  /\ Cardinality(Busy) < MaxOpenCalls
  /\ Cardinality({c \in Calls : call[c] # "idle"}) < MaxCalls

LedgerInit ==
  /\ shorting \in BOOLEAN /\ memory = <<>>
  /\ call = [c \in Calls |-> "idle"]
  /\ work = [c \in Calls |-> NoCall]
  /\ rows = [i \in {} |-> 0]
  /\ account = [cash |-> Cash0, debt |-> 0]
  /\ journal = [cash |-> 0, inventory |-> 0, short |-> 0, result |-> 0]
  /\ accrued = {} /\ reload = [on |-> FALSE, rows |-> {}]
  /\ ledgerFaults = 0 /\ ahead = FALSE /\ overlapped = FALSE
  /\ overtaken = {} /\ lostUpdate = FALSE /\ lag = 0

Borrowed(cash) == Max({0, -cash})

----------------------------------------------------------------------------
(* record_fill                                                             *)

(* The journal entries of a fill: cash against inventory or short          *)
(* liability at cost, the difference to the realized result; then the lot  *)
(* it opens, at its notional.                                              *)
EntriesOf(lots, side, quantity, price, lifo) ==
  LET taken == Taken(lots, side, quantity, lifo)
      proceeds == SumFunctionOnSet([i \in DOMAIN lots |-> taken[i] * price], DOMAIN lots)
      cost == SumFunctionOnSet([i \in DOMAIN lots |-> taken[i] * lots[i].cost], DOMAIN lots)
      opened == Leftover(lots, side, quantity) * price
      long == side = 1
  IN  [cash |-> IF long THEN -proceeds - opened ELSE proceeds + opened,
       inventory |-> IF long THEN opened ELSE -cost,
       short |-> IF long THEN -cost ELSE opened,
       result |-> IF long THEN cost - proceeds ELSE proceeds - cost]

FillEntries(lots, side, quantity, price, lifo) == EntriesOf(lots, side, quantity, price, lifo)

(* Up to the first await.  A fill the engine refuses has no session work,  *)
(* but what it did to the lots stays.                                      *)
RecordFill(c, request) ==
  LET side == request.side
      quantity == request.quantity
      price == request.price
      lifo == request.lifo
      after == AfterFill(memory, c, side, quantity, price, request.time, lifo, shorting)
      raises == Orphaned(memory, side, quantity, shorting) \/ ~Verified(after)
      taken == Taken(memory, side, quantity, lifo)
      todo == {memory[i].id : i \in {j \in DOMAIN memory : taken[j] > 0}}
      fresh == {i \in DOMAIN after : after[i].id = c}
  IN  /\ c \in FillIds /\ call[c] = "idle" /\ WithinBounds
      /\ \A d \in FillIds : d < c => call[d] # "idle"
      /\ memory' = after
      /\ call' = [call EXCEPT ![c] = IF raises THEN "failed"
                                     ELSE IF todo = {} THEN "account" ELSE "lots"]
      /\ work' = IF raises THEN work
                 ELSE [work EXCEPT ![c] =
                   [NoCall EXCEPT !.todo = todo, !.lifo = lifo,
                      !.opens = {after[i] : i \in fresh},
                      !.flows = FillEntries(memory, side, quantity, price, lifo),
                      !.cashIn = -side * quantity * price]]
      /\ ahead' = (ahead \/ (raises /\ after # memory))
      /\ overlapped' = (overlapped \/ Busy # {} \/ reload.on)
      /\ UNCHANGED <<rows, account, journal, accrued, reload,
                     ledgerFaults, overtaken, lostUpdate, lag>>

Noted(notes, id, left) ==
  [x \in DOMAIN notes \cup {id} |-> IF x = id THEN left ELSE notes[x]]

(* The select of one depleted lot: its row takes what is left of the lot   *)
(* in memory by now; a row not committed yet is skipped.                   *)
DepletedRow(c) ==
  \E id \in work[c].todo :
    LET w == work[c]
        lots == IF w.held = <<>> THEN memory ELSE w.held
        left == lots[CHOOSE i \in DOMAIN lots : lots[i].id = id].remaining
    IN  /\ call[c] = "lots"
        /\ \A other \in w.todo : other = id \/ id < other
        /\ work' = [work EXCEPT ![c] =
             [w EXCEPT !.todo = @ \ {id},
                       !.rows = IF id \in DOMAIN rows /\ rows[id].remaining # left
                                THEN Noted(@, id, left) ELSE @]]
        /\ call' = [call EXCEPT ![c] = IF w.todo = {id} THEN "account" ELSE "lots"]
        /\ UNCHANGED <<memory, rows, account, journal, accrued, reload, ledgerHistory>>

(* The select of the account row, and the new balances.                    *)
AccountOfFill(c) ==
  LET cash == account.cash + work[c].cashIn
  IN  /\ c \in FillIds /\ call[c] = "account"
      /\ work' = [work EXCEPT ![c] =
           [@ EXCEPT !.cash = cash, !.debt = Borrowed(cash),
                     !.wrote = {"cash"} \cup IF Borrowed(cash) # account.debt THEN {"debt"} ELSE {}]]
      /\ call' = [call EXCEPT ![c] = "commit"]
      /\ overtaken' = overtaken \ {c}
      /\ UNCHANGED <<memory, rows, account, journal, accrued, reload,
                     ledgerFaults, ahead, overlapped, lostUpdate, lag>>

----------------------------------------------------------------------------
(* accrue_daily_eod and the financing model                                *)

MarginInterest(cash) == MarginRate * Borrowed(cash)
BorrowFees(position, price) == BorrowRate * price * Max({0, -position})

(* The account row, the drag on what it says and on the lots in memory.    *)
(* margin_debt is what was borrowed BEFORE the drag.                       *)
AccrueEod(c, date, price) ==
  LET drag == MarginInterest(account.cash) + BorrowFees(Position(memory), price)
      cash == account.cash - drag
  IN  /\ c \in AccrualIds /\ call[c] = "idle" /\ WithinBounds
      /\ \A d \in AccrualIds : d < c => call[d] # "idle"
      /\ call' = [call EXCEPT ![c] = "commit"]
      /\ work' = [work EXCEPT ![c] =
           [NoCall EXCEPT !.date = date, !.cash = cash, !.debt = Borrowed(account.cash),
              !.wrote = {a \in {"cash", "debt"} :
                           IF a = "cash" THEN drag # 0
                           ELSE Borrowed(account.cash) # account.debt},
              !.flows = [cash |-> -drag, inventory |-> 0, short |-> 0, result |-> -drag],
              !.cashIn = -drag]]
      /\ UNCHANGED <<memory, rows, account, journal, accrued, reload, ledgerHistory>>

----------------------------------------------------------------------------
(* The commit of either call: all of its writes, or none.  The index of    *)
(* the snapshots refuses a second one of a date.                           *)
Refused(c) == c \in AccrualIds /\ \E s \in accrued : s.date = work[c].date

Commit(c) ==
  LET w == work[c]
      opened == {lot.id : lot \in w.opens}
      total(k) == journal[k] + w.flows[k]
  IN  /\ call[c] = "commit" /\ ~Refused(c)
      /\ rows' = [id \in DOMAIN rows \cup opened |->
                    IF id \in opened THEN CHOOSE lot \in w.opens : lot.id = id
                    ELSE IF id \in DOMAIN w.rows
                    THEN [rows[id] EXCEPT !.remaining = w.rows[id]] ELSE rows[id]]
      /\ account' = [k \in DOMAIN account |-> IF k \in w.wrote THEN w[k] ELSE account[k]]
      /\ journal' = [k \in DOMAIN journal |-> total(k)]
      /\ accrued' = IF c \in AccrualIds THEN accrued \cup {[by |-> c, date |-> w.date]} ELSE accrued
      /\ call' = [call EXCEPT ![c] = "done"]
      /\ work' = [work EXCEPT ![c] = NoCall]
      /\ overtaken' = (overtaken \cup Busy) \ {c}
      /\ lostUpdate' = (lostUpdate \/ c \in overtaken)
      /\ lag' = IF c \in AccrualIds THEN -w.cashIn ELSE 0
      /\ overlapped' = (overlapped \/ (ahead /\ c \in FillIds))
      /\ UNCHANGED <<memory, reload, ledgerFaults, ahead>>

(* Nothing is written; the lots in memory keep the fill.                   *)
CommitFails(c) ==
  /\ call[c] = "commit"
  /\ overtaken' = overtaken \ {c}
  /\ Refused(c) \/ ledgerFaults < MaxLedgerFaults
  /\ call' = [call EXCEPT ![c] = "failed"]
  /\ work' = [work EXCEPT ![c] = NoCall]
  /\ ledgerFaults' = IF Refused(c) THEN ledgerFaults ELSE ledgerFaults + 1
  /\ ahead' = (ahead \/ c \in FillIds)
  /\ UNCHANGED <<memory, rows, account, journal, accrued, reload,
                 overlapped, lostUpdate, lag>>

----------------------------------------------------------------------------
(* initialize_or_rehydrate                                                 *)

OpenRows == {rows[id] : id \in {i \in DOMAIN rows : rows[i].remaining > 0}}

OpenedBefore(a, b) == a.opened < b.opened \/ (a.opened = b.opened /\ a.id < b.id)
PlaceOf(lot, lots) == 1 + Cardinality({a \in lots : OpenedBefore(a, lot)})
ByTime(lots) == [n \in 1..Cardinality(lots) |-> CHOOSE lot \in lots : PlaceOf(lot, lots) = n]

(* In a running process: the rows are read, and later replace the lots.    *)
RehydrateReads ==
  /\ ~reload.on /\ ledgerFaults < MaxLedgerFaults
  /\ ledgerFaults' = ledgerFaults + 1
  /\ reload' = [on |-> TRUE, rows |-> OpenRows]
  /\ overlapped' = (overlapped \/ Busy # {})
  /\ UNCHANGED <<memory, call, work, rows, account, journal, accrued,
                 ahead, overtaken, lostUpdate, lag>>

HeldLots ==
  [c \in Calls |-> IF call[c] = "lots" /\ work[c].held = <<>>
                   THEN [work[c] EXCEPT !.held = memory] ELSE work[c]]

RehydrateLoads ==
  /\ reload.on
  /\ memory' = ByTime(reload.rows)
  /\ work' = HeldLots
  /\ reload' = [on |-> FALSE, rows |-> {}]
  /\ ahead' = FALSE
  /\ UNCHANGED <<call, rows, account, journal, accrued,
                 ledgerFaults, overlapped, overtaken, lostUpdate, lag>>

(* The process dies and a new one rehydrates before it does anything else. *)
LedgerRestart ==
  /\ ledgerFaults < MaxLedgerFaults
  /\ ledgerFaults' = ledgerFaults + 1
  /\ call' = [c \in Calls |-> IF c \in Busy THEN "failed" ELSE call[c]]
  /\ work' = [c \in Calls |-> NoCall]
  /\ memory' = ByTime(OpenRows)
  /\ reload' = [on |-> FALSE, rows |-> {}]
  /\ ahead' = FALSE
  /\ overtaken' = {}
  /\ UNCHANGED <<rows, account, journal, accrued, overlapped, lostUpdate, lag>>

----------------------------------------------------------------------------
LedgerNext ==
  /\ UNCHANGED shorting
  /\ \/ \E c \in FillIds, request \in FillRequests : RecordFill(c, request)
     \/ \E c \in AccrualIds, date \in Dates, p \in Prices : AccrueEod(c, date, p)
     \/ \E c \in Calls : DepletedRow(c) \/ AccountOfFill(c) \/ Commit(c) \/ CommitFails(c)
     \/ RehydrateReads \/ RehydrateLoads \/ LedgerRestart

LedgerSpec == LedgerInit /\ [][LedgerNext]_ledgerVars

----------------------------------------------------------------------------
(* Properties                                                              *)

CostOf(lots, side) ==
  SumFunctionOnSet([lot \in lots |-> lot.remaining * lot.cost], {lot \in lots : lot.side = side})

LedgerQuiet == Busy = {} /\ ~reload.on

(* INV-LDG-001 over every commit: what the journal says of cash, of the    *)
(* inventory and the short liability at cost, and of the results balances, *)
(* through flips, losses, drags, failed commits and overlapping calls.     *)
JournalBalanced ==
  journal.cash + journal.inventory - journal.short - journal.result = 0

(* The account's cash is its opening balance plus the journal's cash, as   *)
(* long as no call wrote back an account row rewritten since it read it    *)
(* (line 494 reads it without a version).                                  *)
CashMatchesJournal == lostUpdate \/ account.cash = Cash0 + journal.cash

(* With no call under way, and unless calls overlapped or a fill was booked *)
(* over one that had failed, the committed lots are the lots in memory and *)
(* the journal's inventory and short accounts are their cost: also after   *)
(* reloads and restarts, which repair what a failed commit left in memory. *)
BooksAgree ==
  LedgerQuiet /\ ~overlapped =>
    /\ ahead \/ {memory[i] : i \in {j \in DOMAIN memory : memory[j].remaining > 0}} = OpenRows
    /\ journal.inventory = CostOf(OpenRows, 1)
    /\ journal.short = CostOf(OpenRows, -1)

(* INV-LDG-002: the open lots are all long or all short, so that the       *)
(* position, which takes the side of the first, is their sum.              *)
LotsOneSided == ~overlapped => OneSided(memory)

(* margin_debt is what the account owes; after an accrual, what it owed    *)
(* before the drag was taken.                                              *)
DebtLagsByDrag == lostUpdate \/ account.debt = Borrowed(account.cash + lag)

(* A date's financing is charged once, however often and however closely   *)
(* accruals of the date are run.                                           *)
AccruedOnce == \A s, t \in accrued : s.date = t.date => s = t

(* A FIFO fill takes nothing from a lot while an older one is still open.  *)
OldestFirst ==
  [][\A c \in FillIds :
       call[c] = "idle" /\ call'[c] = "lots" /\ ~work'[c].lifo =>
         \A i, j \in DOMAIN memory :
           memory[i].opened < memory[j].opened /\ memory'[j].remaining < memory[j].remaining
             => memory'[i].remaining = 0]_ledgerVars

(* Journal, account, committed lots and the engine's lots reconcile        *)
(* through flips, failed commits, restarts and repeated accruals, but for  *)
(* the overlapping calls the parts name.                                   *)
LedgerReconciles ==
  /\ []JournalBalanced
  /\ []CashMatchesJournal
  /\ []BooksAgree
  /\ []LotsOneSided
  /\ []DebtLagsByDrag
  /\ []AccruedOnce
  /\ OldestFirst
=============================================================================

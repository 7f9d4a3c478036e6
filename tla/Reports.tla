------------------------------ MODULE Reports -------------------------------
(***************************************************************************)
(* ReportsService: the sales report by day, week or month, the sales,      *)
(* profit and stock figures of the dashboard, and the low-stock list.      *)
(*                                                                         *)
(* Time is counted in half-days, so that a moment has a day and a time of  *)
(* day, in UTC: the report's days are UTC's, the dashboard's those of the  *)
(* server, which is taken to run in UTC.  A label is identified with the   *)
(* first day of its period.  The figures of the dashboard are those of a   *)
(* moment when nothing changes: it reads them by statements of their own,  *)
(* which sales may fall between.                                           *)
(***************************************************************************)
EXTENDS Integers, FiniteSetsExt

CONSTANTS
  WeekLength,    \* 7
  LongDays,      \* 30
  FirstDays,     \* the days a month begins on
  SaleSizes,     \* total and cost of a sale
  Wares,         \* variants
  Shelves,       \* stock locations
  ReorderPoint,  \* of every variant
  Buffer,        \* reorderBuffer of every variant
  MaxClock,      \* bound: half-days
  MaxSaleRows,   \* bound: sales
  MaxSpent,      \* bound: expenses
  MaxOnShelf     \* bound: pieces of a variant in a location

ASSUME ReportsAssumption ==
  /\ WeekLength \in Nat \ {0} /\ LongDays \in Nat \ {0}
  /\ FirstDays \subseteq Nat /\ 0 \in FirstDays
  /\ \A size \in SaleSizes : size.total \in Int /\ size.cost \in Int
  /\ IsFiniteSet(Wares) /\ IsFiniteSet(Shelves) /\ ReorderPoint \in Int
  /\ MaxClock \in Nat /\ MaxSaleRows \in Nat /\ MaxSpent \in Nat /\ MaxOnShelf \in Nat

VARIABLES
  halfDay,       \* now
  saleRows,      \* sales
  expenseRows,   \* expenses
  onShelf        \* inventory balances

reportVars == <<halfDay, saleRows, expenseRows, onShelf>>

ReportsInit ==
  /\ halfDay = 0 /\ saleRows = {} /\ expenseRows = {}
  /\ onShelf = [w \in Wares |-> [l \in Shelves |-> 0]]

Total(rows) == MapThenSumSet(LAMBDA r : r.total, rows)
Cost(rows) == MapThenSumSet(LAMBDA r : r.cost, rows)
Completed == {r \in saleRows : r.status = "COMPLETED"}
-----------------------------------------------------------------------------
(* Sales by period *)

DayOf(t) == t \div 2
Midnight(d) == 2 * d

\* The Monday on or before a day; day 0 is a Monday.
StartOfWeek(d) == d - (d % WeekLength)
StartOfMonth(d) == Max({f \in FirstDays : f <= d})

PeriodLabel(t, groupBy) ==
  CASE groupBy = "month" -> StartOfMonth(DayOf(t))
    [] groupBy = "week" -> StartOfWeek(DayOf(t))
    [] groupBy = "day" -> DayOf(t)

\* Mutant: the cursor goes on by a period at a time.
EnumeratePeriodsByPeriod(from, to, groupBy) ==
  {PeriodLabel(Midnight(d), groupBy) :
     d \in {e \in DayOf(from)..DayOf(to) :
              groupBy = "week" => (e - DayOf(from)) % WeekLength = 0}}

\* Every day from `from` to `to` is visited, and its label taken once.
EnumeratePeriods(from, to, groupBy) ==
  {PeriodLabel(Midnight(d), groupBy) : d \in DayOf(from)..DayOf(to)}

\* The start of the day after `to`.
ToExclusive(to) == Midnight(DayOf(to) + 1)

\* The sales of the range, in the bucket of their label, if there is one.
GetSalesByPeriod(from, to, groupBy) ==
  LET sales == {r \in Completed : from <= r.at /\ r.at < ToExclusive(to)}
      bucket(p) == {r \in sales : PeriodLabel(r.at, groupBy) = p} IN
    {[period |-> p, total |-> Total(bucket(p)), cost |-> Cost(bucket(p)),
      grossProfit |-> Total(bucket(p)) - Cost(bucket(p)),
      transactionCount |-> Cardinality(bucket(p))] :
       p \in EnumeratePeriods(from, to, groupBy)}
-----------------------------------------------------------------------------
(* Stock *)

Quantity(w) == MapThenSumSet(LAMBDA l : onShelf[w][l], Shelves)

ComputeStockStatus(q) ==
  CASE q <= 0 \/ q < ReorderPoint -> "red"
    [] q > 0 /\ q >= ReorderPoint /\ q <= ReorderPoint + Max({0, Buffer}) -> "yellow"
    [] OTHER -> "green"

GetLowStockItems ==
  {i \in {[ware |-> w, quantity |-> Quantity(w),
           status |-> ComputeStockStatus(Quantity(w))] : w \in Wares} :
     i.status # "green"}
-----------------------------------------------------------------------------
(* The dashboard *)

\* The midnight a window of n days begins with, today included.
DaysBack(n) == Midnight(DayOf(halfDay) - (n - 1))

SalesSince(t) == {r \in Completed : r.at >= t}
Short == {w \in Wares : ComputeStockStatus(Quantity(w)) = "red"}

GetDashboard ==
  LET long == SalesSince(DaysBack(LongDays)) IN
    [today |-> Total(SalesSince(DaysBack(1))),
     week |-> Total(SalesSince(DaysBack(WeekLength))),
     month |-> Total(SalesSince(Midnight(StartOfMonth(DayOf(halfDay))))),
     netSales |-> Total(long), costOfGoodsSold |-> Cost(long),
     netProfit |-> (Total(long) - Cost(long))
                     - Total({e \in expenseRows : e.at >= DaysBack(LongDays)})]

LowStockCount == Cardinality({w \in Short : Quantity(w) > 0})
OutOfStockCount == Cardinality({w \in Short : Quantity(w) <= 0})
-----------------------------------------------------------------------------
(* What is reported on *)

TimePasses ==
  /\ halfDay < MaxClock /\ halfDay' = halfDay + 1
  /\ UNCHANGED <<saleRows, expenseRows, onShelf>>

SaleMade(size) ==
  /\ Cardinality(saleRows) < MaxSaleRows
  /\ saleRows' = saleRows \union {[id |-> Cardinality(saleRows), at |-> halfDay,
                   total |-> size.total, cost |-> size.cost, status |-> "COMPLETED"]}
  /\ UNCHANGED <<halfDay, expenseRows, onShelf>>

\* A sale refunded, even in part, or voided is not COMPLETED any more.
SaleUndone(r) ==
  /\ r \in Completed
  /\ saleRows' = (saleRows \ {r}) \union {[r EXCEPT !.status = "PARTIALLY_REFUNDED"]}
  /\ UNCHANGED <<halfDay, expenseRows, onShelf>>

\* An expense carries the date it is entered with, a day before or after too.
MoneySpent(d) ==
  /\ Cardinality(expenseRows) < MaxSpent
  /\ expenseRows' = expenseRows \union
       {[id |-> Cardinality(expenseRows), at |-> Midnight(d), total |-> 1]}
  /\ UNCHANGED <<halfDay, saleRows, onShelf>>

StockMoves(w, l, n) ==
  /\ onShelf[w][l] + n \in (-MaxOnShelf)..MaxOnShelf
  /\ onShelf' = [onShelf EXCEPT ![w][l] = @ + n]
  /\ UNCHANGED <<halfDay, saleRows, expenseRows>>

ReportsNext ==
  \/ TimePasses
  \/ \E d \in 0..DayOf(MaxClock) : MoneySpent(d)
  \/ \E size \in SaleSizes : SaleMade(size)
  \/ \E r \in saleRows : SaleUndone(r)
  \/ \E w \in Wares, l \in Shelves, n \in {-1, 1} : StockMoves(w, l, n)

ReportsSpec == ReportsInit /\ [][ReportsNext]_reportVars
-----------------------------------------------------------------------------
(* Properties *)

\* Every completed sale of the range, its last day included, is in one row of
\* the report, however it is grouped and whatever time of day the bounds carry:
\* no sale is skipped for want of a bucket.
ReportComplete ==
  Completed # {} => \A from, to \in 0..MaxClock, groupBy \in {"day", "week", "month"} :
    LET rows == GetSalesByPeriod(from, to, groupBy)
        due == {r \in Completed : from <= r.at /\ DayOf(r.at) <= DayOf(to)} IN
      /\ Total(rows) = Total(due) /\ Cost(rows) = Cost(due)
      /\ MapThenSumSet(LAMBDA r : r.transactionCount, rows) = Cardinality(due)

\* The dashboard agrees with the reports for the same days, and its profit with
\* the month's books: a sale at the first midnight of a window is in both, one
\* of the day before in neither.
DashboardAgrees ==
  LET day == DayOf(halfDay)
      rows(n) == GetSalesByPeriod(Midnight(day - (n - 1)), halfDay, "day")
      monthly == {r \in GetSalesByPeriod(0, halfDay, "month") : r.period = StartOfMonth(day)}
      spent == {e \in expenseRows : DayOf(e.at) > day - LongDays}
      d == GetDashboard IN
  saleRows \union expenseRows # {} =>
    /\ d.today = Total(rows(1)) /\ d.week = Total(rows(WeekLength))
    /\ d.month = Total(monthly) /\ d.netSales = Total(rows(LongDays))
    /\ d.netProfit = MapThenSumSet(LAMBDA r : r.grossProfit, rows(LongDays)) - Total(spent)

\* The low-stock list and the dashboard's two counts tell the same variants: what
\* is below its reorder point or gone is a shortage, and what is at the reorder
\* point is not (RedAtReorderPoint is what the comments say).
LowStockAgrees ==
  /\ LowStockCount + OutOfStockCount
       = Cardinality({i \in GetLowStockItems : i.status = "red"})
  /\ \A i \in GetLowStockItems :
       i.status = "red" <=> i.quantity < Max({ReorderPoint, 1})

\* reports.service.ts:284, and tools.ts:29 for the assistant: variants at or below
\* their reorder point are listed as red.
RedAtReorderPoint ==
  \A i \in GetLowStockItems : i.quantity <= ReorderPoint => i.status = "red"

\* The figures agree: no sale is missing from a report, and the dashboard and
\* the low-stock list tell what the reports tell of the same days and variants.
FiguresAgree == ReportComplete /\ DashboardAgrees /\ LowStockAgrees
=============================================================================

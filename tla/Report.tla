-------------------------------- MODULE Report ---------------------------------
(***************************************************************************)
(* The financial report of a range of days and the customer portfolio, as  *)
(* functions of the appointments and expenses they read.  The report adds  *)
(* up the same appointments in several ways, by the business's local day,  *)
(* professional, service and payment method; the totals have to agree to   *)
(* the cent.  Time zones are a fixed offset; sorting and labels are left   *)
(* out, and so is the attendance percentage.                               *)
(***************************************************************************)
EXTENDS Integers, FiniteSets, Functions

CONSTANTS
  Nothing,       \* an absent price, service, payment method or report
  Visits,        \* the appointment tables to report on: sets of records
  Bills,         \* the expense tables to report on: sets of records
  Rates,         \* the commission percentages of the professionals, functions
  LoyaltyTarget, \* completed visits that earn a reward
  DayLength,     \* instants in a day
  ZoneOffset     \* local time minus UTC

ASSUME ReportAssumption ==
  /\ DayLength \in Nat \ {0} /\ ZoneOffset \in Int /\ LoyaltyTarget \in Nat \ {0}

\* A visit costs the price of its service; check constraints keep prices, amounts and
\* percentages from being negative.
ASSUME MoneyAssumption ==
  /\ \A V \in Visits : IsFiniteSet(V) /\ \A v \in V : v.starts \in Int /\ v.price \in Nat \cup {Nothing}
  /\ \A B \in Bills : IsFiniteSet(B) /\ \A b \in B : b.day \in Int /\ b.amount \in Nat
  /\ \A R \in Rates : \A b \in DOMAIN R : R[b] \in Nat

VARIABLES
  visits, bills, rates, \* what is reported on
  report,               \* the report, Nothing before it is asked for
  portfolio             \* the portfolio, read with it

reportVars == <<visits, bills, rates, report, portfolio>>

LocalDay(t) == (t + ZoneOffset) \div DayLength

\* Midnight of a local day, in UTC.
Midnight(d) == d * DayLength - ZoneOffset

\* list_by_business_range: from the first midnight to the one after the last day.
VisitsIn(from, to) == {v \in visits : Midnight(from) <= v.starts /\ v.starts < Midnight(to + 1)}
BillsIn(from, to) == {b \in bills : b.day \in from..to}

Amount(v) == IF v.price = Nothing THEN 0 ELSE v.price
Rate(b) == IF b \in DOMAIN rates THEN rates[b] ELSE 0

Revenue(done) == SumFunction([v \in done |-> Amount(v)])
Spent(due) == SumFunction([b \in due |-> b.amount])

\* Faulty variant: each professional's commission is rounded once, on the total.
CommissionOfTotal(b, done) ==
  (Revenue({v \in done : v.barber = b}) * Rate(b)) \div 100

\* Rounded once per completed appointment.
Commission(v) == (Amount(v) * Rate(v.barber)) \div 100
Commissions(done) == SumFunction([v \in done |-> Commission(v)])
CommissionOf(b, done) == Commissions({v \in done : v.barber = b})

\* Revenue and appointments of each value of a key that occurs.
Breakdown(key, done) ==
  [k \in {key[v] : v \in done} |->
     LET those == {v \in done : key[v] = k}
     IN [total |-> Revenue(those), appointments |-> Cardinality(those)]]

BarberOf(done) == [v \in done |-> v.barber]
ServiceOf(done) == [v \in done |-> v.service]
PaymentOf(done) ==
  [v \in done |-> IF v.payment = Nothing THEN "not_informed" ELSE v.payment]

Daily(from, to, done, due) ==
  LET days == (from..to) \cup {LocalDay(v.starts) : v \in done} \cup {b.day : b \in due}
      of(d) == {v \in done : LocalDay(v.starts) = d}
      costs(d) == Spent({b \in due : b.day = d})
  IN [d \in days |->
        [appointments |-> Cardinality(of(d)),
         revenue |-> Revenue(of(d)),
         expense |-> costs(d),
         result |-> Revenue(of(d)) - Commissions(of(d)) - costs(d)]]

Financial(from, to) ==
  LET listed == VisitsIn(from, to)
      due == BillsIn(from, to)
      done == {v \in listed : v.status = "completed"}
      commission == SumFunction([b \in {v.barber : v \in done} |-> CommissionOf(b, done)])
  IN [from |-> from, to |-> to,
      revenue |-> Revenue(done), commission |-> commission, expenses |-> Spent(due),
      result |-> Revenue(done) - commission - Spent(due),
      ticket |-> IF done = {} THEN 0 ELSE Revenue(done) \div Cardinality(done),
      count |-> [x \in {"scheduled", "confirmed", "completed", "cancelled", "no_show"} |->
                   Cardinality({v \in listed : v.status = x})],
      by_barber |-> Breakdown(BarberOf(done), done),
      by_service |-> Breakdown(ServiceOf(done), done),
      by_payment |-> Breakdown(PaymentOf(done), done),
      daily |-> Daily(from, to, done, due)]

Portfolio ==
  [c \in {v.customer : v \in visits} |->
     LET history == {v \in visits : v.customer = c}
         done == {v \in history : v.status = "completed"}
     IN [appointments |-> Cardinality(history),
         completed |-> Cardinality(done),
         spent |-> Revenue(done),
         progress |-> Cardinality(done) % LoyaltyTarget,
         rewards |-> Cardinality(done) \div LoyaltyTarget]]

NothingToReport ==
  /\ visits = {} /\ bills = {} /\ rates = [b \in {} |-> 0]
  /\ report = Nothing /\ portfolio = Nothing

ReportInit ==
  /\ visits \in Visits /\ bills \in Bills /\ rates \in Rates
  /\ report = Nothing /\ portfolio = Nothing

\* The routes refuse a range that ends before it starts.
AskReport(from, to) ==
  /\ report = Nothing /\ from <= to
  /\ report' = Financial(from, to)
  /\ portfolio' = Portfolio
  /\ UNCHANGED <<visits, bills, rates>>

\* Ranges around the days that occur.
Dates == LET days == {LocalDay(v.starts) : v \in visits} \cup {b.day : b \in bills}
         IN days \cup {d + 1 : d \in days}

ReportNext == \E from, to \in Dates : AskReport(from, to)

ReportSpec == ReportInit /\ [][ReportNext]_reportVars

\* Every breakdown of a report adds up to its totals, to the cent: revenue and number of
\* appointments by professional, service and payment method, and each day's result, over
\* exactly the days that were asked for.  The portfolio spends what the report of all days
\* earns.
ReportReconciles ==
  report # Nothing =>
    LET completed == report.count["completed"]
    IN /\ \A rows \in {report.by_barber, report.by_service, report.by_payment} :
            /\ SumFunction([k \in DOMAIN rows |-> rows[k].total]) = report.revenue
            /\ SumFunction([k \in DOMAIN rows |-> rows[k].appointments]) = completed
       /\ DOMAIN report.daily = report.from..report.to
       /\ SumFunction([d \in DOMAIN report.daily |-> report.daily[d].result]) = report.result
       /\ SumFunction([d \in DOMAIN report.daily |-> report.daily[d].appointments]) = completed
       /\ report.ticket * completed <= report.revenue
       /\ \A v \in visits :
            portfolio[v.customer].spent >= IF v.status = "completed" THEN Amount(v) ELSE 0
       /\ (\A v \in visits : LocalDay(v.starts) \in report.from..report.to) =>
            SumFunction([c \in DOMAIN portfolio |-> portfolio[c].spent]) = report.revenue
=============================================================================

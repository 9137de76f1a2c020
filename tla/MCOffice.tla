------------------------------ MODULE MCOffice -------------------------------
(***************************************************************************)
(* Small instances of the components that share the backend's sessions.    *)
(* They keep separate tables and take no common locks, so that a behaviour *)
(* stays in one area: one component, in one situation.  In the orderly     *)
(* area no other request writes the version of an account between the      *)
(* reading and the commit of a request that writes it.                     *)
(***************************************************************************)
EXTENDS Recovery, Credentials, Accounts, Customers, Expenses, Activity, Report, TLC

CONSTANTS
  Areas,  \* the areas of an instance
  LastIn, \* the last instant of each area
  MostIn  \* its requests, and restarts

VARIABLE area

backend == <<pc, job, lock, clock, asked>>
recoveryTables == <<table, draft, history>>
credentialTables == <<account, profile, signInHistory>>
accountTables == <<users, accountHistory>>
customerTables == <<customers, program, booked, completed, loyaltyHistory>>
expenseTables == <<expenses, copies, ledger>>
activityTables == <<reserved, restarts, activityHistory, alertHistory>>

officeVars == <<area, backend, recoveryTables, credentialTables, accountTables, customerTables,
                expenseTables, activityTables, reportVars>>

\* The sign-in areas differ in the accounts that requests are about.
SignIn == {"owner", "professional", "orderly"}
AccountsIn(x) ==
  CASE x = "owner" -> Account \ Professional
    [] x = "professional" -> Professional
    [] OTHER -> Account
Management == {"accounts", "e-mails apart"}
Alerting == {"activity", "alerts"}

RowsIn(x) ==
  CASE x = "recovery" -> RecoveryRow
    [] x \in SignIn -> CredentialRow
    [] x = "customers" -> Customer \cup Telephone
    [] x \in Management \cup {"expenses"} -> {"business"}
    [] OTHER -> {}

OfficeInit ==
  /\ area \in Areas
  /\ BackendInit(RowsIn(area))
  /\ NoRecovery /\ NoSignIns /\ NoAccounts /\ NoExpenses /\ NoActivity
  /\ IF area = "customers" THEN \E offer \in Program : NoCustomers(offer)
     ELSE NoCustomers(CHOOSE offer \in Program : TRUE)
  /\ IF area = "report" THEN ReportInit ELSE NothingToReport

CredentialsArea ==
  /\ \/ \E s \in Session, a \in AccountsIn(area) :
          BeginLogin(s, a) \/ BeginReset(s, a) \/ BeginManagement(s, a)
     \/ CredentialsStep
  /\ area = "orderly" => VersionsApart'

AccountsArea == AccountsNext /\ (area = "e-mails apart" => EmailsApart')

\* Sign-ins that meet a locked account, or a few requests of every kind.
ActivityArea ==
  /\ ActivityNext
  /\ area = "alerts" => \A s \in Session : pc'[s] # "idle" => job'[s].kind = "login"

Stay == UNCHANGED area /\ clock' <= LastIn[area] /\ asked' + restarts' <= MostIn[area]

RecoveryOnly ==
  area = "recovery" /\ RecoveryNext
  /\ UNCHANGED <<credentialTables, accountTables, customerTables, expenseTables, activityTables, reportVars>> /\ Stay
CredentialsOnly ==
  area \in SignIn /\ CredentialsArea
  /\ UNCHANGED <<recoveryTables, accountTables, customerTables, expenseTables, activityTables, reportVars>> /\ Stay
AccountsOnly ==
  area \in Management /\ AccountsArea
  /\ UNCHANGED <<recoveryTables, credentialTables, customerTables, expenseTables, activityTables, reportVars>> /\ Stay
CustomersOnly ==
  area = "customers" /\ CustomersNext
  /\ UNCHANGED <<recoveryTables, credentialTables, accountTables, expenseTables, activityTables, reportVars>> /\ Stay
ExpensesOnly ==
  area = "expenses" /\ ExpensesNext
  /\ UNCHANGED <<recoveryTables, credentialTables, accountTables, customerTables, activityTables, reportVars>> /\ Stay
ActivityOnly ==
  area \in Alerting /\ ActivityArea
  /\ UNCHANGED <<recoveryTables, credentialTables, accountTables, customerTables, expenseTables, reportVars>> /\ Stay
ReportOnly ==
  area = "report" /\ ReportNext /\ UNCHANGED <<area, backend>>
  /\ UNCHANGED <<recoveryTables, credentialTables, accountTables, customerTables, expenseTables, activityTables>>

OfficeNext ==
  \/ RecoveryOnly \/ CredentialsOnly \/ AccountsOnly \/ CustomersOnly \/ ExpensesOnly \/ ActivityOnly
  \/ ReportOnly

OfficeSpec == OfficeInit /\ [][OfficeNext]_officeVars

\* Sign-ins, and suspensions and reactivations that overlap.
Suspend(s, a) == \E active \in BOOLEAN : BeginStale(s, a, "update", FALSE, active)
Suspension ==
  /\ (\E s \in Session, a \in AccountsIn(area) : BeginLogin(s, a) \/ Suspend(s, a)) \/ CredentialsStep
  /\ UNCHANGED <<recoveryTables, accountTables, customerTables, expenseTables, activityTables, reportVars>>
  /\ Stay

SuspensionSpec == OfficeInit /\ [][Suspension]_officeVars

\* The tables, locks, requests and histories of every component have their types.
OfficeTypeOK ==
  /\ area \in Areas
  /\ area = "recovery" => RecoveryTypeOK
  /\ area \in SignIn => CredentialsTypeOK
  /\ area \in Management => AccountsTypeOK
  /\ area = "customers" => CustomersTypeOK
  /\ area = "expenses" => ExpensesTypeOK
  /\ area \in Alerting => ActivityTypeOK

\* In the orderly area, where requests overlap but the versions of an account are written one
\* after the other, a token that was refused is never accepted again.
OrderlyTokensStayRefused == [][area = "orderly" => TokensStayRefused]_credentialVars

\* Where no two requests about the new e-mail of one account overlap, an account takes only an
\* e-mail that the confirmed code was sent to.
EmailProvenApart == area = "e-mails apart" => EmailProven

---------------------------------------------------------------------------

LimitsOf == ("issue_ip" :> 2 @@ "issue_global" :> 2 @@ "verify_ip" :> 1)
WindowsOf == ("issue_ip" :> 1 @@ "issue_global" :> 2 @@ "verify_ip" :> 1)

LastInstants ==
  [x \in Areas |-> CASE x = "recovery" -> 3
                     [] x \in {"owner", "alerts"} -> 2
                     [] x \in Management \cup {"professional", "expenses", "activity"} -> 1
                     [] OTHER -> 0]
MostRequests ==
  [x \in Areas |-> CASE x \in {"recovery", "alerts"} -> 3
                     [] x = "activity" -> 2
                     [] x = "e-mails apart" -> 5
                     [] OTHER -> 4]

NoTime == [x \in Areas |-> 0]
FiveRequests == [x \in Areas |-> 5]

\* The second label differs from the first in the case of its description.
CONSTANTS l1, l2
Casefold == (l1 :> l1 @@ l2 :> l1)
TwoMonths == <<3, 2>>

\* A day of four instants, one hour west of the zone of its dates: the first and the last
\* instant of a day, a visit without a price, and prices that a half does not divide.
Visit(id, starts, status, price, barber, payment) ==
  [id |-> id, starts |-> starts, status |-> status, price |-> price, barber |-> barber,
   service |-> IF price = Nothing THEN Nothing ELSE "cut", payment |-> payment,
   customer |-> IF id = 2 THEN "ana" ELSE "rui"]
SomeVisit(id) ==
  {Visit(id, t, "completed", p, b, m) : t \in {2, 3, 6}, p \in {Nothing, 101}, b \in {"x", "y"}, m \in {Nothing, "pix"}}
  \cup {Visit(id, 3, x, 50, "x", Nothing) : x \in {"no_show", "scheduled"}}
FewVisits == {{}} \cup {{v, w} : v \in SomeVisit(1), w \in SomeVisit(2)}
               \cup {{v, w, Visit(3, 2, "completed", 33, "x", "pix")} : v \in SomeVisit(1), w \in SomeVisit(2)}
FewBills == {{}, {[id |-> 1, day |-> 0, amount |-> 7], [id |-> 2, day |-> 1, amount |-> 7]}}
FewRates == {("x" :> 50 @@ "y" :> 33)}

Symmetric == Permutations(Session) \cup Permutations(Email) \cup Permutations(Phone)
=============================================================================

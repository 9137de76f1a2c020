------------------------------- MODULE Expenses --------------------------------
(***************************************************************************)
(* The expenses of a business: owners record, correct, delete, pay and     *)
(* reopen them, and generate the fixed ones of a month from the month      *)
(* before.  A generation holds the row lock of the business, for which     *)
(* insertions wait, and reads the sources and what exists already; the     *)
(* other requests keep the expense they read and write changed columns.    *)
(***************************************************************************)
EXTENDS Backend, Functions

CONSTANTS
  Entry,       \* expense identifiers, numbers
  Label,       \* category, description and amount of an expense
  KeyOf,       \* the label with its description casefolded
  MonthLength, \* the days of each month, a sequence
  MonthDay,    \* the days expenses are recorded on
  MaxLedger    \* bound: requests

Month == DOMAIN MonthLength

ExpenseRow ==
  [label : Label, month : Month, day : Nat, fixed : BOOLEAN, paid : BOOLEAN, on : Instant \cup {None}]

ASSUME ExpenseAssumption ==
  /\ None \notin Entry \cup Label \cup ExpenseRow /\ Entry \subseteq Nat
  /\ KeyOf \in [Label -> Label]
  /\ MonthLength \in [Month -> Nat \ {0}] /\ Month \subseteq Nat
  /\ MonthDay \subseteq Nat \ {0}
  /\ MaxLedger \in Nat

VARIABLES
  expenses, \* the expenses table; None for identifiers not in use
  copies,   \* history: expenses a generation made and nobody corrected since
  ledger    \* history: identifiers that were used

expenseVars == <<pc, job, lock, clock, asked, expenses, copies, ledger>>

ExpensesTypeOK ==
  /\ pc \in [Session -> {"idle", "record", "write", "remove", "generate", "sources", "existing", "copy"}]
  /\ clock \in Instant
  /\ lock \in [{"business"} -> Session \cup {None}]
  /\ expenses \in [Entry -> ExpenseRow \cup {None}]
  /\ copies \subseteq ledger /\ ledger \subseteq Entry

NoExpenses == expenses = [e \in Entry |-> None] /\ copies = {} /\ ledger = {}

ExpensesInit == BackendInit({"business"}) /\ NoExpenses

Recorded == {e \in Entry : expenses[e] # None}

Post(s, step, request) ==
  /\ asked < MaxLedger
  /\ Begin(s, step, request)
  /\ UNCHANGED <<lock, clock, expenses, copies, ledger>>

Pending(l, m, d, fixed) ==
  [label |-> l, month |-> m, day |-> d, fixed |-> fixed, paid |-> FALSE, on |-> None]

BeginRecord(s, l, m, d, fixed) ==
  /\ d <= MonthLength[m]
  /\ Post(s, "record", [row |-> Pending(l, m, d, fixed)])

\* A request about an expense assigns columns of the row it read.
BeginEntry(s, e, step, row) ==
  e \in Recorded /\ Post(s, step, [entry |-> e, edit |-> FALSE, seen |-> expenses[e], row |-> row])

BeginCorrect(s, e, l, m, d, fixed) ==
  /\ d <= MonthLength[m]
  /\ e \in Recorded
  /\ Post(s, "write", [entry |-> e, edit |-> TRUE, seen |-> expenses[e],
       row |-> [expenses[e] EXCEPT !.label = l, !.month = m, !.day = d, !.fixed = fixed]])

BeginPaid(s, e) == BeginEntry(s, e, "write", [expenses[e] EXCEPT !.paid = TRUE, !.on = clock])
BeginPending(s, e) == BeginEntry(s, e, "write", [expenses[e] EXCEPT !.paid = FALSE, !.on = None])
BeginRemove(s, e) == BeginEntry(s, e, "remove", None)

\* target_month is moved to its first day: only the month counts.
BeginGenerate(s, m) ==
  /\ m - 1 \in Month
  /\ Post(s, "generate", [month |-> m, sources |-> {}, keys |-> {}])

\* The foreign key of the insertion waits for the lock of the business.
RecordExpense(s) ==
  /\ pc[s] = "record" /\ Available(s, "business")
  /\ \E e \in First(Entry \ ledger) :
       /\ expenses' = [expenses EXCEPT ![e] = job[s].row]
       /\ ledger' = ledger \cup {e}
  /\ Release(s) /\ Answer(s)
  /\ UNCHANGED <<clock, asked, copies>>

WriteExpense(s) == LET e == job[s].entry IN
  /\ pc[s] = "write" /\ e \in Recorded
  /\ expenses' = [expenses EXCEPT ![e] = Flushed(@, job[s].seen, job[s].row)]
  /\ copies' = IF job[s].edit THEN copies \ {e} ELSE copies
  /\ Release(s) /\ Answer(s)
  /\ UNCHANGED <<clock, asked, ledger>>

RemoveExpense(s) == LET e == job[s].entry IN
  /\ pc[s] = "remove"
  /\ expenses' = [expenses EXCEPT ![e] = None]
  /\ copies' = copies \ {e}
  /\ Release(s) /\ Answer(s)
  /\ UNCHANGED <<clock, asked, ledger>>

\* Faulty variant: the business is read without its row lock.
LockLedgerUnlocked(s) ==
  /\ Goto(s, "generate", "sources")
  /\ UNCHANGED <<job, lock, clock, asked, expenses, copies, ledger>>

LockLedger(s) ==
  /\ Goto(s, "generate", "sources")
  /\ Available(s, "business") /\ Hold(s, "business")
  /\ UNCHANGED <<job, clock, asked, expenses, copies, ledger>>

FixedOf(m) == {e \in Recorded : expenses[e].month = m /\ expenses[e].fixed}

ReadSources(s) ==
  /\ Goto(s, "sources", "existing")
  /\ job' = [job EXCEPT ![s].sources = {expenses[e] : e \in FixedOf(job[s].month - 1)}]
  /\ UNCHANGED <<lock, clock, asked, expenses, copies, ledger>>

ReadExisting(s) ==
  /\ Goto(s, "existing", "copy")
  /\ job' = [job EXCEPT ![s].keys = {KeyOf[expenses[e].label] : e \in FixedOf(job[s].month)}]
  /\ UNCHANGED <<lock, clock, asked, expenses, copies, ledger>>

\* Of the sources of a key the latest is copied, unless the month has the key.
Latest(sources, k) ==
  {x \in sources : KeyOf[x.label] = k /\ \A y \in sources : KeyOf[y.label] = k => y.day <= x.day}

MissingKeys(s) == {KeyOf[x.label] : x \in job[s].sources} \ job[s].keys

CopyOf(x, m) ==
  Pending(x.label, m, IF x.day < MonthLength[m] THEN x.day ELSE MonthLength[m], TRUE)

Copy(s) == LET keys == MissingKeys(s)  m == job[s].month IN
  /\ pc[s] = "copy"
  /\ \E at \in Injection(keys, Entry \ ledger), of \in [keys -> job[s].sources] :
       /\ \A k \in keys : of[k] \in Latest(job[s].sources, k)
       /\ expenses' = [e \in Entry |-> IF \E k \in keys : at[k] = e
                                       THEN CopyOf(of[CHOOSE k \in keys : at[k] = e], m)
                                       ELSE expenses[e]]
       /\ copies' = copies \cup {at[k] : k \in keys}
       /\ ledger' = ledger \cup {at[k] : k \in keys}
  /\ Release(s) /\ Answer(s)
  /\ UNCHANGED <<clock, asked>>

\* The expense was deleted under the request, the connection or the worker is lost.
AbortLedger(s) ==
  /\ pc[s] # "idle"
  /\ Release(s) /\ Answer(s)
  /\ UNCHANGED <<clock, asked, expenses, copies, ledger>>

ExpensesTick ==
  /\ clock < Horizon
  /\ clock' = clock + 1
  /\ UNCHANGED <<pc, job, lock, asked, expenses, copies, ledger>>

ExpensesNext ==
  \/ \E s \in Session, m \in Month :
       \/ BeginGenerate(s, m)
       \/ \E l \in Label, d \in MonthDay, fixed \in BOOLEAN :
            \/ BeginRecord(s, l, m, d, fixed)
            \/ \E e \in Entry : BeginCorrect(s, e, l, m, d, fixed)
  \/ \E s \in Session, e \in Entry : BeginPaid(s, e) \/ BeginPending(s, e) \/ BeginRemove(s, e)
  \/ \E s \in Session :
       \/ RecordExpense(s) \/ WriteExpense(s) \/ RemoveExpense(s)
       \/ LockLedger(s) \/ ReadSources(s) \/ ReadExisting(s) \/ Copy(s) \/ AbortLedger(s)
  \/ ExpensesTick

ExpensesSpec == ExpensesInit /\ [][ExpensesNext]_expenseVars

\* Generating the fixed expenses of a month again or at the same time, however entries
\* change in between, makes no second copy: a month has one untouched copy per category,
\* casefolded description and amount, on a day the month has.
CopiesUnique ==
  \A e \in copies :
    /\ expenses[e].day \in 1..MonthLength[expenses[e].month]
    /\ \A f \in copies \ {e} :
         expenses[e].month = expenses[f].month => KeyOf[expenses[e].label] # KeyOf[expenses[f].label]
=============================================================================

# A verification project for Projeto Osiris

Projeto Osiris is the scheduling back end of small barbershops: a FastAPI
application (`src/app/`) over PostgreSQL. This directory holds TLA+ models of
its components, the TLC configurations that check them on small instances, and
proofs, checked by TLAPS, of what holds for every instance.

    tlc -workers 2 -config SchedRequests.cfg MCScheduling
    tlapm SchedulingProofs.tla        (also AssistantProofs, QuotaProofs,
                                       RecoveryProofs, CredentialsProofs,
                                       BusinessLockProofs, CustomersProofs,
                                       OfficeProofs)

## 1. The system

Every HTTP request runs in a database session of its own
(`database/session.py:20-23`), under READ COMMITTED, with any number of API
workers. There is no shared memory between requests apart from the alert
cooldown table. Requests interact through the tables, through the row locks
taken with `SELECT ... FOR UPDATE`, and through unique and check constraints. A
session keeps the objects it has loaded in an identity map, and a later
`SELECT ... FOR UPDATE` of a row it still holds locks the row but does not
refresh the object, unless the statement asks for it (`populate_existing`).
Most of what is hard in this code is the order of these three things: the read
a decision rests on, the lock, the commit.

| component | state | operations | hard behaviour | what makes it correct |
|---|---|---|---|---|
| appointment scheduling (`services/appointment.py`, `repositories/appointment.py`) | `appointments` | create, notes, reschedule, confirm, cancel, complete, no-show | check-then-write across statements, two row locks, five callers | no double booking, final states stay, payment with completion, no deadlock, every request answered |
| business closures (`routes/businesses.py:87-141`) | `business_closures` | create, delete | counts bookings while bookings test closures | no active booking on a closed date |
| public booking (`services/public_booking.py`) | customer, appointment | create; confirm, cancel, reschedule by token | objects read before the lock; quota and customer in the same request | the scheduling properties, for customers |
| professionals (`routes/auth.py:500-566`, `services/barber.py`) | `barbers.is_active`, account | assigned-appointment requests, profile update | assignment and activity tested before the lock | acts on own appointments; inactive professionals are not booked |
| availability (`services/availability.py`) | schedules, time off | upsert, delete, offered slots | boundaries of breaks, time off, closures, now | exactly the free slots are offered |
| assistant (`services/assistant_booking.py`, `agents/`) | `assistant_conversations` | propose, confirm | conversation lock before barber lock, revalidation | one appointment per proposal |
| quotas (`services/assistant_usage.py`) | two fixed windows per business | consume | worker waits across a window boundary | never more than the limit per window |
| booking recovery (`services/booking_access.py`) | throttles, challenges | issue, invalidate, verify | late delivery failure, concurrent guesses, time read before the lock | single use, five attempts, newest code survives |
| accounts (`services/auth.py`, `api/dependencies.py`) | `users`, `barbers.is_active` | bootstrap, create, update, delete, login, password, reset, e-mail | `auth_version` incremented from unlocked reads | old tokens die, wrong passwords are bounded, one primary owner, codes single use |
| customers and loyalty (`services/customer.py`) | `customers`, loyalty columns of `businesses` | create, update, redeem, booking of an unknown phone | concurrent redemptions, edits on old objects, a target read before the lock | redemptions are counted, rewards covered by visits, no customer without the booking that made it |
| finance (`services/expense.py`, `services/report.py`) | `expenses` | CRUD, monthly generation, report | generation repeated or concurrent, rounding | no duplicate, totals add up |
| audit, alerts, metrics (`main.py`, `services/audit.py`, `services/operational_alerts.py`, `services/operational_metrics.py`) | `audit_logs`, cooldowns, counters | after every response | separate transaction, delivery failure | a failure never undoes or repeats a mutation |
| service catalogue, businesses | `services`, `businesses` | CRUD | unique constraints only, but for the loyalty columns | |
| integrations, configuration, dashboard, migrations, scripts | | | input and output | |

`PROJECT.json` lists the components with their files and the hazards with the
line at which each of them bites.

## 2. The modules

| module | models |
|---|---|
| `AppointmentTable` | the columns of `appointments` the rules read, the lifecycle (`Expected`, `Target`), and the overlap test `HasActiveConflict` |
| `Calendar` | the abstract specification: every booking, move and status change is one atomic step |
| `Scheduling` | the requests as concurrent sessions, one step per statement that another session can interleave with |
| `MCScheduling` | the small instances TLC checks |
| `SchedulingProofs` | the theorems about `Scheduling`, and that it implements `Calendar` |
| `Availability` | the grid of a weekday's schedule and the slots `list_available_slots` offers, as operators; the reference definition `Working` they are compared with |
| `Assistant` | proposals and confirmations as concurrent sessions, next to the other writers of the rows a confirmation relies on |
| `MCAssistant`, `AssistantProofs` | its small instances; its theorems, and that it implements `Calendar` too |
| `UsageQuota` | the admission row of a business, with a fixed window for each length, used by the assistant and by public booking |
| `MCUsageQuota`, `QuotaProofs` | its small instance and its theorems |
| `Backend` | what the modules below share: sessions, the step and the request each serves, row locks that a commit or rollback releases, the clock, and the flush of changed columns |
| `OneTimeCode` | the abstract specification of a code that is sent to a person |
| `Recovery`, `RecoveryProofs` | booking recovery by WhatsApp code, statement by statement; its theorems, and that it implements `OneTimeCode` |
| `Credentials`, `CredentialsProofs` | accounts as they sign in: wrong passwords, versions of tokens, suspension, reset codes; its theorems, and that resets implement `OneTimeCode` |
| `Accounts` | accounts as they come and go: the first one, the others, new e-mails |
| `Expenses` | expenses and the generation of the fixed ones |
| `BusinessLockProofs` | the theorems about `Accounts` and `Expenses`, which both rest on the lock of the business |
| `Customers`, `CustomersProofs` | customers and loyalty; their theorems and those about `Report` |
| `Activity` | what surrounds every request: the history entry, alerts, cooldowns, restarts of the process |
| `Report` | the financial report and the customer portfolio, as operators |
| `MCOffice`, `OfficeProofs` | these seven composed, each an *area*, with small instances; the theorems about the composition and those about `Activity` |

`Scheduling` and `Assistant` share `AppointmentTable` and implement the same
`Calendar`. In `Scheduling` the staff and customer requests are modelled
statement by statement; in `Assistant`, whose subject is the confirmation, they
are the atomic steps of `Calendar` (`OtherBook`, `OtherMove`, `OtherSettle`)
that `CalendarImplemented` shows them to be for every channel but the token's,
guarded by the barber lock their commits hold. The token channel is therefore
outside `Assistant`.

### State and code

| `Scheduling` | code |
|---|---|
| `appointments` | the committed rows of `models/appointment.py`; `paid` stands for `paid_at` and `payment_method` |
| `closures` | dates of `business_closures` |
| `isActive` | `barbers.is_active`, and with it the linked account's flag, which `BarberService.update` sets in the same commit |
| `appointmentLock`, `barberLock` | row locks of `get_by_id_for_update` |
| `pc`, `request` | where a handler is, and what it was asked |
| `loaded` | the `Appointment` object of the session |
| `clock` | `utc_now()` |

A reschedule goes `appointment -> closure -> barber -> conflict -> move`, a
creation `closure -> barber -> conflict -> create`, a status change or a note
`appointment -> settle`, a closure `close`. Each step has its refusing twin
(`RejectStatus`, `RejectClosed`, `RejectInactive`, `RejectConflict`,
`RejectRange`, `RejectClosure`), which ends the session, releases its locks and
changes no table; `Fail` is a lost connection, a stopped worker or one of the
reference checks that are abstracted (customer, service, tenant), at any step.
The four channels differ in what was read before the first lock: an owner reads
nothing; a professional's request tests the assignment and drops the object
(`routes/auth.py:523`); a public creation keeps the `Barber` it read as active
(`public_booking.py:82`); a token request keeps the `Appointment`
(`public_booking.py:145-164`), so its guard and its flush work on that object.
The flush writes the columns that differ from the object (`Column`), which is
why a move on a stale object can mix two versions of a row.

| `Assistant` | code |
|---|---|
| `appointments` | as above |
| `byAssistant` | history: rows `AssistantBookingService.confirm` inserted |
| `conversations` | rows of `models/assistant_conversation.py`: professional, slot, `appointment_id` |
| `schedule`, `timeOff`, `closed`, `isActive` | the weekday's schedule, the absences, the closure of the date and `barbers.is_active` |
| `conversationLock`, `barberLock` | the row locks of a confirmation |
| `pc`, `request`, `found` | where a request is, the proposal it holds, and the schedule its revalidation has read |
| `clock` | `utc_now()` |

A proposal lists the slots and goes to `store`; a confirmation goes
`conversation -> barber -> revalidate -> slots -> closure -> conflict -> create`,
with a refusal at each guard and `Fail` anywhere. The row and its link are one
commit, because `AppointmentService.create` is called with `commit=False`. The other
writers fall under three regimes, which follow from the foreign keys: inserting
a row that refers to the professional (an absence, a first schedule, a
conversation) takes a key-share lock on the professional's row and so waits for
`SELECT ... FOR UPDATE`, as does an update of the professional; updating a
schedule in place and every deletion do not refer anew and do not wait; a
closure refers to the business only. A schedule or a closure that changes
between a revalidation and its commit can thus be ignored by that confirmation,
as if it had come after it; `RevalidationHolds` says what cannot.

| `UsageQuota` | code |
|---|---|
| `usage`, `saved` | the row of `models/assistant_usage.py` or `models/public_booking_usage.py`, and whether its insertion is committed |
| `lock` | its row lock, or the uncommitted key an `INSERT ... ON CONFLICT` waits for |
| `pc`, `arrived` | where `consume` is, and the time it took first |
| `admitted` | history: when each admission was decided |

`Lock` inserts the row or waits for it, `Admit` and `Refuse` take the time
again, renew the windows that ended, and commit. A tick is one second, so the
rounding of `Retry-After` up to a second is exact.

In the modules over `Backend`, `pc[s]` and `job[s]` are the step and the request
of a session: what it was asked, the objects it read (`seen`) and the values it
assigned to them (`row`, `Assigned`). `lock` holds the row locks and the
uncommitted unique keys that others wait for. `Release` is the commit or the
rollback. `Flushed(stored, seen, assigned)` is SQLAlchemy's flush: it writes the
columns that were assigned another value than was read, over whatever the row
holds by then. `Abort...` is a lost connection, a stopped worker or a reference
check that is abstracted, at any step.

| `Recovery` | code (`services/booking_access.py`) |
|---|---|
| `table` | rows of `models/booking_access.py`: throttles per address and kind, the global one, a challenge per phone |
| `draft` | what a session wrote and has not committed |
| `sent`, `delivered`, `recovered` | history: codes drawn, delivered, accepted |

A code request goes `purge -> insert -> select` (twice for the throttles, once
for the challenge) `-> deliver -> withdraw`: `PurgeRow` and `PurgeDone` are the
two deletions of old rows, `InsertMissing` the conflict-free insertion,
`PassThrottle` and `RefuseThrottle` `_limit` under the row lock with the time
taken before it, `Draw` the new code and its commit, `Deliver` and
`FailDelivery` the call of WhatsApp, `Withdraw` `invalidate`. Listing bookings
goes `insert -> select -> verify`, with the time read after the throttle's wait.
`RowGone` is the row that another session's deletion took between the insertion
and the `SELECT ... FOR UPDATE`: `.one()` raises and the request fails.

| `Credentials` | code (`services/auth.py`, `api/dependencies.py`, `services/barber.py`) |
|---|---|
| `account` | the sign-in columns of `users` |
| `profile` | `barbers.is_active` of linked professionals |
| `tokens`, `wrong`, `resets`, `redeemed` | history: tokens by account and version, instants of wrong passwords since the count was cleared, reset codes drawn and accepted |

`lock -> decide` are the requests that use `get_by_email_for_update` (sign-in
and the two steps of a reset). `write` are those that write from an object read
without a lock (password change, revocation, account update and deletion), and
`profile -> write` the profile update, whose flush locks the profile's row
before the account is read. `Valid` is `get_current_user`.

| `Accounts` | code (`services/auth.py`) |
|---|---|
| `users` | identity columns of `users`: primary owner, professional, e-mail, pending e-mail with its code |
| `mailed`, `adopted`, `past` | history: codes with the e-mail they were sent to, codes with the e-mail the account took, identifiers used |

Bootstrap goes `business -> check -> insert` under the lock of the business, the
other requests `check -> insert`, `check -> update` or `delete`, and the unique
indexes decide at the write.

| `Customers` | code (`services/customer.py`, `services/public_booking.py`, `services/business.py`) |
|---|---|
| `customers`, `program` | phone and redeemed rewards of each row; the loyalty columns of the business |
| `booked`, `completed` | what a redemption and a booking need of the appointments |
| `granted`, `least`, `walkins` | history: accepted redemptions, the least target, customers a public booking registered |

| `Expenses` | code (`services/expense.py`) |
|---|---|
| `expenses` | the table; an amount, category and description are a `Label`, `KeyOf` is the casefolded key |
| `copies`, `ledger` | history: untouched generated expenses, identifiers used |

| `Activity` | code (`main.py`, `services/audit.py`, `services/operational_alerts.py`) |
|---|---|
| `reserved` | the cooldown table of the process |
| `audits`, `reports` | `audit_logs`, and the logged failures to write it |
| `saved`, `answers`, `restarts` | history: committed changes, their answers; restarts |
| `attempts`, `givenBack`, `notified` | history: reserved deliveries, how often each key was given back, alerts the webhook received and when |

A request goes `handle -> audit -> log -> answer`, with `alert -> deliver` after
a failed entry and after a monitored failure. A delivery takes any time; the
webhook receives its alert at some moment of it (`WebhookReceives`), and the
delivery can be given up afterwards too, since a read timeout is an HTTP error
like a refusal (`DeliveryFails`). The cooldown is any number, 0 included
(`core/config.py:95-101`), and no timeout bounds a delivery by it. `Report` has no concurrency: its
two operators are the report and the portfolio of the tables they read.

These seven components keep separate tables and take no common locks, except
that bootstrap, a recorded expense and a generation all lock the business, whose
other columns none of them reads. A behaviour of `MCOffice` therefore stays in
one area; composing them would multiply their states and add no interaction. The
professional's activity occurs in `Scheduling`, `Assistant` and `Credentials`,
each with the writers that matter to it, and a public booking in `Scheduling`
(its appointment), `UsageQuota` (its admission) and `Customers` (its customer).

## 3. What TLC checks

| run | instance | shows |
|---|---|---|
| `sched_requests` | 2 sessions (owner, professional, public), 2 appointments, 1 barber, overlapping intervals | `IInv` (the inductive invariant of the proofs), `NoDoubleBooking`, `PaidIffCompleted`, `FinalStatesStay`, and that the interleaved requests implement `Calendar` |
| `sched_alone` | 1 session, all four channels, 2 barbers, 2 dates, overlapping and adjacent intervals | `TypeOK`, and that the sequential rules alone keep closed dates free, act only on assigned appointments and never double book |
| `sched_waiting` | 2 sessions, owner channel, fairness | `NoWaitCycle`, `BookedBarberActive`, and the liveness property `RequestsFinish` |
| `sched_moves` | 2 sessions, all four channels, 1 appointment, an interval and its halves | `LockedReadsHold`: a request other than a token's moves or settles the appointment as it is at the commit, in a status its operation accepts, and never combines two versions of it, although tokens act on stale objects beside it |
| `sched_token` | 2 sessions, owner and token | violates `NoDoubleBooking` |
| `sched_closure` | 2 sessions, owner | violates `ClosedDatesFree` |
| `sched_inactive` | 2 sessions, owner and public | violates `BookedBarberActive` |
| `assist_offers` | 1 session, 1 appointment, three schedules (a break of a whole slot, a window its slots do not fill, a break of half a slot), 2 absences, closures, every kind of other request but activity | `OffersExactlyFree`: a slot is offered if and only if it is on the grid, in the future, and free instant by instant |
| `assist_confirm` | 2 sessions, 2 conversations, 2 appointments; others book, settle, change schedules, take time off, deactivate | `TypeOK`, `ExactlyOnce`, `RevalidationHolds`, `LinkStays`, and that confirmations implement `Calendar` |
| `quota` | 2 sessions, windows of 2 and 5 seconds with limits 2 and 3, 10 instants | `TypeOK`, `CountsAdmissions`, `BurstBounded`, `RetryAfterExact` |
| `office` | 2 sessions in each of 11 areas | `OfficeTypeOK` and the properties of the table below |
| `accounts_revoke` | 2 sessions, 5 requests, an owner's account | violates `NoTokenRevives` |

| area of `office` | properties |
|---|---|
| `recovery` | `RecoveryImplementsOneTimeCode`, `DeliveredCodeLives`, `SendsCounted` |
| `owner`, `professional` | `GuessesBounded` (sign-ins race with every other request of the account), `ResetImplementsOneTimeCode` |
| `orderly` | `OrderlyTokensStayRefused`: the versions of an account are written one after the other, everything else overlaps |
| `accounts`, `e-mails apart` | `OnePrimaryOwner`; `EmailProvenApart` where the requests for a new e-mail of one account do not overlap, while all others do |
| `customers` | `RewardsCovered`, `RedemptionsCounted`, `NoOrphanCustomers` |
| `expenses` | `CopiesUnique` |
| `activity`, `alerts` | `AuditedOrReported`, `SavedAnswerKept`, `AttemptsPaced` |
| `report` | `ReportReconciles` |

**Bounds.** Two sessions are enough for every pair of requests to interleave in
every order; a double booking, a lost status and a lock cycle each need two
requests and two rows, and so two appointments. `Horizon` bounds the clock and
the instants; two intervals that overlap, of which only one starts in the
future, exercise the conflict query and the future-start test, and
`sched_alone` adds an adjacent interval, a second date and a second barber.
Identifiers are never reused, as in the code, so a behaviour ends when every
appointment is in a final state and only closures, activity and notes still
change. Appointments, sessions and barbers are interchangeable, and the safety
runs use symmetry; `sched_waiting`, which checks liveness, does not.

`assist_offers` gives every grid, break and absence of its date room to begin,
end and overlap a slot at each of its instants, and needs one session only,
since a list of slots is one read; `assist_confirm` gives two confirmations
room to be of the same conversation or to want the same time, on a schedule of
two slots of which an absence takes one and another booking both. `quota` runs
long enough for each window to begin three times or twice, and for a waiting
request to cross a window's end. For any larger instance, see the theorems.

`office` bounds each area by its last instant and its number of requests
(`LastInstants`, `MostRequests`): three ticks and three requests in `recovery`
let a code be replaced, expire, be guessed to death and be deleted after a day
while another request waits; two ticks in `alerts` are a cooldown and the
reservation that ends it, with deliveries that last until then and give a newer
reservation back; a lock time of two instants in `owner` lets sign-ins meet its
last instant; two instants elsewhere let a code expire. Three or four requests
are two that race and those that prepare the row they race for; `e-mails apart`
takes five: the account, a request for a new e-mail, two that overlap, of which
one asks for the same address again, and a confirmation. Both restricted areas
are large enough to matter: without its condition, each of them violates its
property at these bounds. Identifiers,
codes and requests are numbered in the order in which they are drawn, so codes
that are random in the program are taken to differ. Two phones and one address
are enough in `recovery`: requests meet in the global throttle and in each
other's old rows. The second phone matters: the transaction that draws one
phone's code also commits the deletion of another's old challenge, and so
`Issue` of `OneTimeCode` may end the codes of other subjects. Sessions, e-mails
(which are the telephones too) and phones are interchangeable, and the run uses
that symmetry. The report is checked on every table of up to three visits that
straddle the days of an offset zone, with absent prices and with prices that the
commission rates do not divide.

Two assumptions on constants carry the facts of the deployment the properties
need. `DayAssumption` relates the age at which rows are deleted to the windows,
cooldowns and lives that read them and to the time a request may wait
(`MaxWait`); a day is far above their sum. It bounds time in a guard of the
tick: a request cannot outlast it. `MoneyAssumption` says that prices, amounts
and percentages are not negative, which the check constraints of `services`,
`expenses` and `barbers` ensure (a visit's price is copied from its service),
and that tables are finite. The other assumptions give constants their types.

**Fairness.** `FairSpec` asks that a handler that can run does run
(`WF_vars(Advance(s))`) and that a session waiting for a row lock that becomes
free again and again gets it (`SF_vars(AwaitAppointment(s))`,
`SF_vars(AwaitBarber(s))`), which PostgreSQL's queue of waiters provides.
Nothing obliges callers to send requests, professionals to change or time to
pass, and `Fail` is never obliged to happen.

**Four disagreements with the documentation** (`findings` in `PROJECT.json`).

1. `sched_token`: a customer's confirm waits for the row lock while the owner
   cancels; the session still holds the scheduled object, so the guard passes
   and the cancelled appointment becomes confirmed, in time that may have been
   booked again. `docs/scheduling.md:25-26` promises that two active
   appointments of a barber never overlap. The user repository asks for
   `populate_existing` for this reason (`repositories/user.py:30`); the
   appointment repository does not. The same stale object lets a customer's own
   move write its start next to the end another move has written, since only
   the columns that differ from the object are flushed. `LockedReadsHold` shows
   that the requests which load the appointment under its lock cannot.
2. `sched_closure`: a closure and a booking of its date each look before the
   other commits. `docs/scheduling.md:45-46` promises that one of them is refused.
3. `sched_inactive`: a public booking repeats the activity it read before the
   barber's lock. `docs/scheduling.md:23` requires an active barber.
4. `accounts_revoke`: `auth_version` is read without a lock and written as a
   value (`services/auth.py:164` and `:231`, `services/barber.py:65`), so a
   suspension and a reactivation that race leave a version at which refused
   tokens are valid again. `docs/authentication.md:125-126` promises that a
   reactivation does not revive old tokens.

Others have no run:

- `docs/monitoring.md:136-137` counts every answer of 5xx as a monitored error,
  while `log_request` in `main.py` passes an unhandled exception on before it
  logs or classifies anything (`HandlerRaises`).
- `docs/monitoring.md:84-86` says that a failure of the webhook does not alter
  the answer. That is so for an HTTP error, and for any exception while an alert
  about the history is sent; another exception while the alert of a monitored
  failure is sent replaces that failure's answer (`main.py:176-181`, the second
  branch of `DeliveryRaises`).
- `docs/monitoring.md:83` groups equal alerts within the cooldown. A delivery
  that is given up frees its key, also when the webhook had received the alert
  and only its answer came too late, so an equal alert can follow at once; see
  `AlertsReceivedApart` in section 4.
- `docs/scheduling.md:56-57` says that the public flow validates the offered
  times. The page offers `list_available_slots`, but `PublicBookingService.create`
  tests neither the schedule nor absences (`services/public_booking.py:76-124`).
  `Scheduling` follows the code and knows no schedules.
- `docs/authentication.md:46-47` says that a professional acts on own
  appointments. The assignment is tested before the wait for the row lock, and a
  move during the wait leaves the request with the former professional;
  `OwnAppointmentsOnly` states the condition.

Where the code keeps these promises is checked and proved too. `ClosedDatesFree`
and `AssignedOnly` hold for requests that do not overlap (`sched_alone`,
`SafeOneByOne`), and the theorems say which overlaps they do not survive;
`BookedBarberActive` holds without public bookings (`sched_waiting`,
`ActiveOffPublic`); tokens stay refused when the versions of an account are
written one after the other (area `orderly`, `OrderlyTokens`), and an account
only takes an e-mail the confirmed code was sent to when its requests for a new
one do not overlap (area `e-mails apart`, `EmailsProven`). Both conditions are
about one account: requests of different accounts overlap as they like.

## 4. What is proved

### Scheduling

`SchedulingProofs.tla` proves, for every number of sessions, appointments,
barbers, instants and every set of valid intervals:

| theorem | statement | assumption |
|---|---|---|
| `TypeCorrect` | `Spec => []TypeOK` | all channels |
| `DeadlockFree` | `Spec => []NoWaitCycle` | all channels |
| `ReadsHold` | `Spec => LockedReadsHold` | all channels |
| `Inductive` | `Spec => []IInv` | no token channel |
| `NeverDoubleBooked` | `Spec => []NoDoubleBooking` | no token channel |
| `PaymentsFit` | `Spec => []PaidIffCompleted` | no token channel |
| `FinalIsFinal` | `Spec => FinalStatesStay` | no token channel |
| `CalendarImplemented` | `Spec => ImplementsCalendar` | no token channel |
| `FreshInductive` | `Spec /\ [][FreshGrants]_vars => []IInv` | all channels |
| `FreshCalendar` | `Spec /\ [][FreshGrants]_vars => ImplementsCalendar /\ FinalStatesStay` | all channels |
| `ClosedDatesKept` | `Spec /\ [][FreshGrants]_vars /\ []ClosuresApart => []ClosedDatesFree` | all channels |
| `OwnAppointmentsOnly` | `Spec /\ [][FreshGrants]_vars /\ []MovesApart => AssignedOnly` | all channels |
| `ActiveAtCommit` | `Spec /\ [][FreshGrants]_vars /\ [][ActiveGrants]_vars => BookedBarberActive` | all channels |
| `ActiveOffPublic` | `Spec /\ [][FreshGrants]_vars => BookedBarberActive` | no public channel |
| `SafeOneByOne` | `Spec /\ []Alone => []IInv /\ []ClosedDatesFree /\ AssignedOnly` | all channels |

The assumption `"token" \notin Channel` is needed: `sched_token` shows what
happens without it. The last seven theorems replace it by what it provides, and
name the interleavings the code leaves open:

- `FreshGrants`: a request that is granted its appointment's lock reads the
  committed row in its guard. Without tokens every behaviour satisfies it
  (`TokensAbsent`, `GuardsGrant`); a token violates it by waiting while the row
  changes and being accepted on the old object. A token that waited and is
  refused, or another one still waiting with an old object, does no harm.
- `ClosuresApart`: no closure is between its count of bookings and its commit
  while a booking of the same date is between its closure test and its own.
- `MovesApart`: no appointment is about to be moved while a professional who
  was found assigned to it waits for its lock.
- `ActiveGrants`: a barber whose lock is granted is active. Every channel but
  the public one tests that under the lock (`TestedAtGrant`); the public booking
  tests it before the wait.
- `Alone`: one request at a time, which implies the first three, and is the
  setting of `sched_alone`.

`sched_token`, `sched_closure` and `sched_inactive` are behaviours outside
`FreshGrants`, `ClosuresApart` and `ActiveGrants`, so these conditions are not
there for the proof's sake. Each proof adds one fact to `IInv`: what a booking
and a closure still rely on (`ClosureInv`), what an assignment test found
(`AssignedInv`), and that whoever holds a barber's lock found the barber active
and nobody can change that before the commit (`ActiveInv`).

**The argument.** `NoDoubleBooking` is not inductive: a commit preserves it only
because the conflict query a few steps earlier found the time free and nothing
has taken it since. `IInv` adds what makes that true. A session past the
activity test holds the barber's row lock (`BarberIsLocked`), every other
session that inserts or moves into that barber's time needs the same lock
(`RequestShape`), hence the answer of the query stays true until the commit
(`TimeStaysFree`). A session past the status guard holds the appointment's lock
and its object still is the committed row, in a status its operation accepts
(`LoadedIsCurrent`), so a status change cannot overwrite a final state and a
move writes exactly the columns it means to. `NewRowsUnknown` says that nobody
else acts on a row that is being inserted, and `LocksHaveHolders` that a
session's locks agree with its step. Refinement follows step by step: the three
commits on the table are `Book`, `Settle` and `Move`, everything else stutters.

**Reads under a lock.** `ReadsHold` needs no condition on tokens. Its invariant
`ReadInv` says that a request other than a token's that is past its guard holds
the lock of its appointment and an object equal to the committed row, in a
status its operation accepts. A token beside it may hold any object, but writes
only under the same lock, so it cannot write in between.

**Deadlock freedom** rests on the order of the locks: a session that waits for
an appointment's lock holds none, and one that waits for a barber's lock holds
at most an appointment's, so a barber's holder waits for nothing. A set of
sessions that all wait would contain one whose lock holder does not wait.

### Assistant

`AssistantProofs.tla` proves, for every number of requests, conversations,
appointments, professionals and instants and every set of valid schedules,
absences and intervals, `AssistantTypes`, `BookedOnce` (`ExactlyOnce`),
`LinksStay` (`LinkStays`), `RevalidationProtected` (`RevalidationHolds`) and
`AssistantImplementsCalendar`. All follow from one inductive invariant, `AInv`:

- `LocksHeld`: a confirmation past its first lock holds the conversation's lock
  and the conversation is still unlinked, and past its second lock it holds the
  professional's. Two confirmations of a conversation thus never both insert.
- `Links`: the rows of the assistant and the links correspond, one to one. A
  new row has an identifier no link names, because a linked row was inserted.
- `ActiveHeld` and `RevalidationHolds`: whoever deactivates a professional,
  adds an absence or books the professional's time needs the lock that the
  confirmation holds, and a status change only frees time.

The insertion refines `Calendar`'s `Book` because `RevalidationHolds` at the
step `create` is the guard of `Book`.

`OffersCorrect` (`OffersExactlyFree`) says that the slots of the answer are
exactly the free times of the schedule. It compares two definitions: the code
walks a grid of slots and tests each against breaks, absences, closures,
bookings and the clock; the reference asks of a time that each instant of it is
worked and free. `GridSlots` turns the walk into a multiple of the slot's length,
and intervals that are disjoint into instants in none of them. The state
contributes `OfferInv`: at most one schedule for a weekday and bookings that
take some time; an empty interval would block a slot and contain no instant.

### Quotas

`QuotaProofs.tla` proves `QuotaTypes`, `CountsCorrect` (`CountsAdmissions`) and
`BurstsBounded` (`BurstBounded`) for every set of windows, lengths, limits and
sessions. `CountsAdmissions` alone is not inductive; `Sound` adds that no window
began in the future or ended before the last admission, and that the part of a
span before the current window holds at most a limit of admissions. The last
conjunct is what a renewal needs: the admissions of the window that ends were
counted, and a span that reaches into the new window is too short to reach back
beyond the old one. `Serial` says that only the lock's holder decides, with a
time after the wait. `RetryAfterHolds` (`RetryAfterExact`) proves that the wait a
refusal announces is the least after which no window is full: it is the longest
of the waits of the full windows, and renewing the row then or earlier shows
both halves.

### Booking recovery

`RecoveryProofs.tla` proves, for every number of sessions, phones, addresses,
requests and every limit and window that satisfy `DayAssumption`:

| theorem | statement |
|---|---|
| `RecoveryTypes` | `RecoverySpec => []RecoveryTypeOK` |
| `DeliveredCodesLive` | `RecoverySpec => []DeliveredCodeLives` |
| `CodesCounted` | `RecoverySpec => []SendsCounted` |
| `ChallengesOneTime` | `RecoverySpec => RecoveryImplementsOneTimeCode` |

The properties speak of committed rows, and what threatens them is in the drafts
of requests under way. The invariant `RecoveryInv` says of a session what it has
written (`DraftOf`: counted throttles, rows it deletes because they are a day
old, and at last a fresh challenge for its phone, all under their locks), when it
started and which code it delivers (`RecoveryKnows`, `OwnCodes`); of a phone that its
challenge counts the codes of its window, and that when there is none every code
of the phone lies a cooldown before the requests being served (`PhoneOK`); of a
code that is delivered or on its way that it still is the phone's newest, unless
it was used, guessed at or replaced (`CodeOK`). The deletion of old rows is where
`DayAssumption` is needed: a row goes only when its codes have expired and no
request that started before can still count or pace with them. A failed delivery
withdraws only its own code, because nobody else delivers that code.

### Credentials

`CredentialsProofs.tla` proves, for every number of sessions and accounts:

| theorem | statement |
|---|---|
| `CredentialsTypes` | `CredentialsSpec => []CredentialsTypeOK` |
| `PasswordGuesses` | `CredentialsSpec => []GuessesBounded` |
| `ResetCodesOneTime` | `CredentialsSpec => ResetImplementsOneTimeCode` |
| `OrderlyTokens` | `CredentialsSpec /\ []VersionsApart => NoTokenRevives` |

`GuessesBounded` compares the history of wrong passwords with the lock time; the
account only has a count and an end. The invariant relates them: wrong passwords
came in order of time (`Ordered`), one after as many as the limit came when the
lock had ended (`WrongSpaced`), and all but the last ones, as many as the account
counts, were answered by a lock that ends no later than the stored one
(`Locked`). Requests that write from an unlocked reading write the count only to
clear it, with a new password that starts the history anew; otherwise the flush
spares it.

The version they write may be out of date, which is why `NoTokenRevives` needs a
condition. `VersionsApart` says that between the reading and the commit of a
request that writes the version it read, no other request is about to write the
version of the same account. Sign-ins, drawn codes and deletions are not
restricted, requests of other accounts overlap as they like, and resets and
profile updates overlap with everything that writes no version. Under it every
such request still writes over the version and activity it read (`UpToDate`),
although counts, locks and codes of the row may have changed since, and every
token is accepted or older than its account (`Current`). `accounts_revoke` is a
behaviour outside it.

### Accounts and expenses

Both rest on the lock of the business, and `BusinessLockProofs.tla` proves, for
every number of sessions, users, e-mails, expenses and labels:

| theorem | statement |
|---|---|
| `AccountsTypes` | `AccountsSpec => []AccountsTypeOK` |
| `FirstOwnerOnly` | `AccountsSpec => []OnePrimaryOwner` |
| `EmailsProven` | `AccountsSpec /\ []EmailsApart => []EmailProven` |
| `ExpensesTypes` | `ExpensesSpec => []ExpensesTypeOK` |
| `GeneratedOnce` | `ExpensesSpec => []CopiesUnique` |

`OnePrimaryOwner` holds because a bootstrap inserts under the lock that it took
before it found the table empty (`Creating`), a business with accounts keeps
one, and nothing else makes an owner primary or deletes the primary one
(`Changing`).

`EmailProven` needs the requests for a new e-mail of one account to follow one
another (`EmailsApart`): of two that overlap, one that asks for the pending
address again flushes only its code, next to the address the other has written.
Confirmations, updates and deletions of the same account, and everything about
other accounts, overlap with them. `MailInv` says that the code of a pending
e-mail was sent to it (`PendingSent`), that codes are those of requests that
were served (`CodesNumbered`), and what each request leaves of a pending e-mail
when it writes columns of an old reading (`Intact`): an update all of it, a
confirmation nothing, and a request for a new one stores its own code with its
own address, since the address in the table is the one it read or none.

For `CopiesUnique`, a generation that is about to copy
has read under the lock the keys of all copies its month has (`Generating`);
other requests of the month may add, change or remove entries meanwhile, but
only a generation adds copies, and only corrections change what an expense is
(`Posting`), after which it is not an untouched copy any more.

### Customers

`CustomersProofs.tla` proves `CustomersTyped`, `RedemptionsAreCounted`
(`RedemptionsCounted`), `RewardsAreCovered` (`RewardsCovered`) and
`BookingsLeaveNoOrphans` (`NoOrphanCustomers`) for every set of sessions,
customers, phones and targets. The inductive invariant adds to the three
properties what the requests know:

- `Redeeming`: a redemption that may commit holds the customer's lock and its
  object still is the committed row, so the reward it counts is the next one.
  The target it read before the lock is at least the least target the business
  had, which is all that `RewardsCovered` claims.
- `Editing`: an edit carries the counter it read, and the flush writes only
  columns that changed (`FlushedCustomer`), so it spares a redemption that
  committed in between.
- `Rewards`: identifiers not in use have no redemptions, so an insertion starts
  the count at zero.

### Report

`CustomersProofs.tla` also proves `ReportsReconcile`, that is
`ReportSpec => []ReportReconciles`, for all tables, rates and ranges that satisfy
`MoneyAssumption`. The totals are sums over finite sets (`SumFunction` of
`Functions`), which the library defines by recursion over sets; the provers
cannot use its induction theorems, so the module first shows that such a sum
exists, is unique and grows by the element that is added (`AddsDefined`,
`AddsOnce`, `SumStep`), each time from a smallest counterexample in a
well-founded order of the subsets (`Smallest`). From there `SumUnion`,
`SumDifference` and `SumFibers` (the sums of the classes of a partition add up
to the sum of the set) give every breakdown: by payment, professional,
service and customer (`VisitsByKey`), by day, where each instant of the range falls on
one day of it (`DaysOfRange`, `DaysAddUp`), and the commissions of the
professionals (`CommissionsAddUp`), which are rounded visit by visit before they
are added and reduce the result.

### Activity

`OfficeProofs.tla` proves `ActivityTyped`, `ChangesAreRecorded`
(`AuditedOrReported`), `AnswersAreKept` (`SavedAnswerKept`) and
`AttemptsArePaced` (`AttemptsPaced`) for every number of sessions, requests and
restarts, every cooldown and deliveries of any length. The invariant has two
halves that do not need each other:

- `Records`: a request writes records of itself only, once each, and has not
  answered; past its history entry a saved change has one or its report, its
  status is success, and therefore no alert but the one about the entry can
  still be on its way.
- `Paced`: of the attempts of a key since it was last given back, each lies
  before the instant at which the key is reserved (`Attempted`). A key that can
  be reserved was reserved a cooldown ago, so the next attempt lies a cooldown
  after all of them.

`AttemptsPaced` is what the code ensures by itself. What the webhook receives is
another matter, and `AlertsReceivedApart` names what it takes:

    ActivitySpec /\ []DeliveriesWithin(D) /\ [][FailuresUnreceived]_activityVars
      => []ReceivedApart(D)          for every D < AlertCooldown

that is, two equal alerts are received a cooldown apart, up to the time D a
delivery takes. `DeliveriesWithin` says that deliveries end within D, which the
configured defaults suggest (5 and 300 seconds) but nothing enforces: the
timeout holds for each phase of the exchange, and the cooldown may be shorter.
`FailuresUnreceived` says that no delivery is given up whose alert was received.
Neither can be dropped: without the first, a late delivery gives back the
reservation of a newer one; without the second, a read timeout frees the key of
an alert that arrived. Under both, a delivery under way still owns its reservation, because nobody
else delivers its key (`Spaced`).

### The office

`OfficeProofs.tla` also proves the composition that `office` checks, for every
set of areas, last instants and numbers of requests:

| theorem | statement |
|---|---|
| `OfficeTypes` | `OfficeSpec => []OfficeTypeOK` |
| `OfficeEmails` | `OfficeSpec => []EmailProvenApart` |
| `OfficeTokens` | `OfficeSpec => OrderlyTokensStayRefused` |
| `OfficePromises` | every state promise of the seven components, in every area |
| `OfficeCodes` | `OfficeSpec => RecoveryImplementsOneTimeCode /\ ResetImplementsOneTimeCode` |

The components share sessions, locks, clock and request numbers, so their
theorems do not carry over by themselves: the step of one is not a step of the
others. `OfficeInv` says that the component of the area keeps its inductive
invariant and the tables of the others rest as they began. `OneComponent` turns
a step of the office into a step of the area's component that leaves the other
tables alone (`OfficeStep`), to which the step lemma of that component's proof
applies, and `OfficeInvariant` combines them. A table at rest satisfies its
component's promises whatever sessions and clock do, and refines its one-time
code by stuttering. The orderly area and `e-mails apart` constrain the steps by
`VersionsApart'` and `EmailsApart'`, which the invariant carries, so that
`TokenInv` and `MailInv` are kept there. The theorems about the composition hold
in one direction only: the areas do not interact, as section 2 explains, and so
`OfficeSpec` says nothing of two components that serve requests at once.

### Model-checked only

`RequestsFinish`, since liveness under fairness is out of the prover's reach.
What the runs that expect a violation show is of course not provable; the
theorems under `FreshGrants`, `ClosuresApart`, `ActiveGrants` and
`VersionsApart` are their counterparts.

## 5. What is not modelled

- Scheduling: the service and price a booking stores, tenants other than one
  business, the wording of errors, pagination and lists. The status filter of
  `list_for_barber` is read-only.
- Professionals: the creation of a profile and its columns other than activity,
  and the service catalogue and the columns of a business other than loyalty.
  They are single-row writes which a unique index decides.
- Recovery: the bookings a verified phone lists, which is a reading.
- Accounts: passwords beyond right and wrong, the expiry of tokens, and requests
  with a wrong current password, which change nothing.
- Customers: names, notes and birth dates.
- Report: the attendance percentage, sorting, labels, time zones beyond a fixed
  offset, and the workbooks.
- Activity: metrics, which are log lines computed from one request; servers
  without a webhook, which deliver nothing.
- Integrations, configuration, logging, health, the dashboard, migrations and
  scripts are input and output around the system.

## 6. What is left to prove

Every safety property a passing run checks is a theorem, under the conditions
named above. Left are: that `Scheduling` with owner requests only implements the
environment `Assistant` assumes, which now is an argument of section 2; and the
properties of the components of section 5.

------------------------------ MODULE UsageQuota -------------------------------
(***************************************************************************)
(* The admission counters of one business: a row with a fixed window per   *)
(* length, created on first use and read under its row lock.  A request    *)
(* takes the time, inserts the row if there is none, waits for the row     *)
(* lock, takes the time again, renews the windows that have ended, and     *)
(* commits either one more attempt in every window or the refusal with     *)
(* the seconds to wait.  The business workflow comes after that commit, so *)
(* nothing that happens to it gives the attempt back.                      *)
(***************************************************************************)
EXTENDS Integers, FiniteSets, Sequences

CONSTANTS
  Session,  \* concurrent requests of one business
  None,     \* the absence of a session
  Window,   \* the windows of a row: a minute and an hour
  Length,   \* the seconds a window lasts
  Limit,    \* the attempts a window admits
  Horizon   \* bound: the last second

ASSUME NoneAssumption == None \notin Session
ASSUME WindowAssumption ==
  /\ Window # {} /\ IsFiniteSet(Window)
  /\ Length \in [Window -> Nat \ {0}]
  /\ Limit \in [Window -> Nat \ {0}]
ASSUME HorizonAssumption == Horizon \in Nat

Instant == 0..Horizon

VARIABLES
  usage,     \* the row: start and number of requests of each window
  saved,     \* whether the row is committed; an insertion is not until its session commits
  lock,      \* the session that holds the row lock
  pc,        \* the step each session waits to take
  arrived,   \* the time a session took before the lock
  admitted,  \* history: when each admission was decided
  clock

vars == <<usage, saved, lock, pc, arrived, admitted, clock>>

Started(now) == [w \in Window |-> [start |-> now, requests |-> 0]]

\* The row, its lock and the sessions have these types.
TypeOK ==
  /\ usage \in [Window -> [start : Instant, requests : Nat]]
  /\ saved \in BOOLEAN
  /\ lock \in Session \cup {None}
  /\ pc \in [Session -> {"idle", "insert", "consume"}]
  /\ arrived \in [Session -> Instant]
  /\ admitted \in Seq(Instant)
  /\ clock \in Instant

Init ==
  /\ usage = Started(0)
  /\ saved = FALSE
  /\ lock = None
  /\ pc = [s \in Session |-> "idle"]
  /\ arrived = [s \in Session |-> 0]
  /\ admitted = <<>>
  /\ clock = 0

Arrive(s) ==
  /\ pc[s] = "idle"
  /\ pc' = [pc EXCEPT ![s] = "insert"]
  /\ arrived' = [arrived EXCEPT ![s] = clock]
  /\ UNCHANGED <<usage, saved, lock, admitted, clock>>

\* The insertion waits for a session that inserts the same key, the SELECT for one
\* that holds the row lock.
Lock(s) ==
  /\ pc[s] = "insert"
  /\ lock = None
  /\ lock' = s
  /\ usage' = IF saved THEN usage ELSE Started(arrived[s])
  /\ pc' = [pc EXCEPT ![s] = "consume"]
  /\ UNCHANGED <<saved, arrived, admitted, clock>>

\* Faulty variant: a renewed window keeps its count.
RenewedKeepingCount(row, now) ==
  [w \in Window |-> IF now >= row[w].start + Length[w] THEN [row[w] EXCEPT !.start = now] ELSE row[w]]

\* Faulty variant: the end of the new window is stored as its start.
RenewedStoringEnd(row, now) ==
  [w \in Window |->
     IF now >= row[w].start + Length[w] THEN [start |-> now + Length[w], requests |-> 0] ELSE row[w]]

Renewed(row, now) ==
  [w \in Window |->
     IF now >= row[w].start + Length[w] THEN [start |-> now, requests |-> 0] ELSE row[w]]

Full(row) == {w \in Window : row[w].requests >= Limit[w]}

Commit(s) ==
  /\ pc[s] = "consume"
  /\ saved' = TRUE
  /\ lock' = None
  /\ pc' = [pc EXCEPT ![s] = "idle"]
  /\ arrived' = [arrived EXCEPT ![s] = 0]
  /\ UNCHANGED clock

\* Faulty variant: the time is the one taken before the lock.
AdmitOnArrival(s) ==
  LET row == Renewed(usage, arrived[s]) IN
  /\ Commit(s)
  /\ Full(row) = {}
  /\ usage' = [w \in Window |-> [row[w] EXCEPT !.requests = @ + 1]]
  /\ admitted' = Append(admitted, clock)

Admit(s) ==
  LET row == Renewed(usage, clock) IN
  /\ Commit(s)
  /\ Full(row) = {}
  /\ usage' = [w \in Window |-> [row[w] EXCEPT !.requests = @ + 1]]
  /\ admitted' = Append(admitted, clock)

\* A refusal commits the windows it renewed.
Refuse(s) ==
  LET row == Renewed(usage, clock) IN
  /\ Commit(s)
  /\ Full(row) # {}
  /\ usage' = row
  /\ UNCHANGED admitted

Waits(row, now) == {row[w].start + Length[w] - now : w \in Full(row)}

\* Faulty variant: the window that ends first decides the wait.
RetryAfterFirst(row, now) == CHOOSE d \in Waits(row, now) : \A e \in Waits(row, now) : d <= e

\* The Retry-After header of a refusal: the longest wait of the full windows.
RetryAfter(row, now) == CHOOSE d \in Waits(row, now) : \A e \in Waits(row, now) : d >= e

\* A stopped worker undoes its insertion.
Fail(s) ==
  /\ pc[s] # "idle"
  /\ pc' = [pc EXCEPT ![s] = "idle"]
  /\ arrived' = [arrived EXCEPT ![s] = 0]
  /\ lock' = IF lock = s THEN None ELSE lock
  /\ usage' = IF saved \/ lock # s THEN usage ELSE Started(0)
  /\ UNCHANGED <<saved, admitted, clock>>

Tick ==
  /\ clock < Horizon
  /\ clock' = clock + 1
  /\ UNCHANGED <<usage, saved, lock, pc, arrived, admitted>>

Next ==
  \/ \E s \in Session : Arrive(s) \/ Lock(s) \/ Admit(s) \/ Refuse(s) \/ Fail(s)
  \/ Tick

Spec == Init /\ [][Next]_vars

-----------------------------------------------------------------------------
\* The admissions of a history decided from one instant to another.
Admissions(history, from, to) == {i \in DOMAIN history : history[i] \in from..to}

\* A row counts every admission of a window since it began and no other, whatever
\* the waits for the row lock, and never more than the limit.
CountsAdmissions ==
  saved => \A w \in Window :
    /\ usage[w].requests = Cardinality(Admissions(admitted, usage[w].start, Horizon))
    /\ usage[w].requests <= Limit[w]

\* In any span as long as a window at most two windows' limits are admitted.
BurstBounded ==
  \A w \in Window, t \in Instant : Cardinality(Admissions(admitted, t, t + Length[w] - 1)) <= 2 * Limit[w]

\* The Retry-After header is exact: unless another request is admitted first, a
\* retry after that many seconds is admitted, and one that comes sooner is not.
RetryAfterExact ==
  [][\A s \in Session : Refuse(s) =>
       LET d == RetryAfter(usage', clock) IN
       /\ d > 0
       /\ Full(Renewed(usage', clock + d)) = {}
       /\ \A early \in 0..(d - 1) : Full(Renewed(usage', clock + early)) # {}]_vars
=============================================================================

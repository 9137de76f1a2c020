------------------------------- MODULE Backend -------------------------------
(***************************************************************************)
(* What the components of the server share: requests that run as           *)
(* concurrent database sessions, the step each has reached, the row locks  *)
(* they hold until they commit or roll back, and the clock.  A step of a   *)
(* request is what it does up to its next statement that another session   *)
(* can interleave with.  The components extend this module with their      *)
(* tables and their steps.                                                 *)
(***************************************************************************)
EXTENDS Integers, FiniteSets

CONSTANTS
  Session,  \* concurrent requests, each with a database session of its own
  None,     \* the absence of a session, a row or a value
  Horizon   \* bound: the last instant

ASSUME SessionAssumption == None \notin Session
ASSUME HorizonAssumption == Horizon \in Nat

VARIABLES
  pc,    \* the step each session waits to take
  job,   \* the request it serves
  lock,  \* the session that holds the lock of each row
  clock, \* the current instant
  asked  \* the requests so far; each component bounds them

Instant == 0..Horizon

BackendInit(rows) ==
  /\ pc = [s \in Session |-> "idle"]
  /\ job = [s \in Session |-> None]
  /\ lock = [x \in rows |-> None]
  /\ clock = 0
  /\ asked = 0

Begin(s, step, request) ==
  /\ pc[s] = "idle"
  /\ pc' = [pc EXCEPT ![s] = step]
  /\ job' = [job EXCEPT ![s] = request]
  /\ asked' = asked + 1

Goto(s, from, to) == pc[s] = from /\ pc' = [pc EXCEPT ![s] = to]

Answer(s) == pc' = [pc EXCEPT ![s] = "idle"] /\ job' = [job EXCEPT ![s] = None]

Available(s, x) == lock[x] \in {None, s}

Hold(s, x) == lock' = [lock EXCEPT ![x] = s]

\* Identifiers are random; here they are numbered in the order in which they are taken.
First(S) == {x \in S : \A y \in S : x <= y}

\* A commit or a rollback releases the locks of its session.
Release(s) == lock' = [x \in DOMAIN lock |-> IF lock[x] = s THEN None ELSE lock[x]]

Serving == {s \in Session : pc[s] # "idle"}

\* A flush writes only the columns that differ from the object as it was read.
Flushed(stored, seen, assigned) ==
  [f \in DOMAIN assigned |-> IF assigned[f] # seen[f] THEN assigned[f] ELSE stored[f]]
=============================================================================

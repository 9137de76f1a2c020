----------------------------- MODULE OneTimeCode -----------------------------
(***************************************************************************)
(* What a code sent to a person promises, whichever component sends it.    *)
(* A subject has at most one live code.  It is accepted at most once,      *)
(* within its life, and dies at the last of a limited number of wrong      *)
(* answers.  A code that stopped being live never is again.                *)
(***************************************************************************)
EXTENDS Integers

CONSTANTS
  Subject,     \* who receives codes: a phone of a business, an account
  GuessLimit,  \* wrong answers a code survives, and one more
  CodeLife     \* the time a code lasts at most

VARIABLES
  live,      \* the code a subject can use, 0 when none
  misses,    \* the wrong answers given to the live code
  until,     \* when the live code expires
  drawn,     \* how many codes were drawn: codes are numbered in that order
  accepted,  \* the codes that were accepted
  clock

codeVars == <<live, misses, until, drawn, accepted, clock>>

Init ==
  /\ live = [p \in Subject |-> 0]
  /\ misses = [p \in Subject |-> 0]
  /\ until = [p \in Subject |-> 0]
  /\ drawn = 0
  /\ accepted = {}
  /\ clock = 0

\* What is left of a column when the codes of some subjects go.
Cut(column, P) == [p \in Subject |-> IF p \in P THEN 0 ELSE column[p]]

Gone(P) == live' = Cut(live, P) /\ misses' = Cut(misses, P) /\ until' = Cut(until, P)

\* The commit that stores the code of one subject may remove the records of others.
Issue(p) ==
  /\ drawn' = drawn + 1
  /\ \E P \in SUBSET Subject, t \in 0..(clock + CodeLife) :
       /\ live' = [Cut(live, P) EXCEPT ![p] = drawn + 1]
       /\ misses' = [Cut(misses, P) EXCEPT ![p] = 0]
       /\ until' = [Cut(until, P) EXCEPT ![p] = t]
  /\ UNCHANGED <<accepted, clock>>

Accept(p) ==
  /\ live[p] # 0 /\ misses[p] < GuessLimit /\ clock <= until[p]
  /\ accepted' = accepted \cup {live[p]}
  /\ Gone({p})
  /\ UNCHANGED <<drawn, clock>>

Miss(p) ==
  /\ live[p] # 0 /\ misses[p] + 1 < GuessLimit
  /\ misses' = [misses EXCEPT ![p] = @ + 1]
  /\ UNCHANGED <<live, until, drawn, accepted, clock>>

\* The last wrong answer, a failed delivery, removed records: codes of some subjects go.
Withdraw == UNCHANGED <<drawn, accepted, clock>> /\ \E P \in SUBSET Subject : Gone(P)

Pass == clock' = clock + 1 /\ UNCHANGED <<live, misses, until, drawn, accepted>>

Next ==
  \/ \E p \in Subject : Issue(p) \/ Accept(p) \/ Miss(p)
  \/ Withdraw
  \/ Pass

Spec == Init /\ [][Next]_codeVars
=============================================================================

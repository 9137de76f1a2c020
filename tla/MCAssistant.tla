------------------------------ MODULE MCAssistant ------------------------------
(***************************************************************************)
(* Small instances of Assistant: a date of a few instants.                 *)
(***************************************************************************)
EXTENDS Assistant, TLC

Day(starts, ends, length, breaks) ==
  [starts |-> starts, ends |-> ends, length |-> length, breaks |-> breaks]

\* A break that takes a whole slot, a window whose last instant no whole slot
\* fits, and a break that takes half a slot.
ManyDays == {Day(0, 5, 1, {<<2, 3>>}), Day(1, 4, 2, {}), Day(0, 4, 2, {<<3, 4>>})}
OneDay == {Day(1, 3, 1, {})}

SomeAbsences == {<<1, 2>>, <<2, 4>>}
OneAbsence == {<<1, 2>>}
SomeSpans == {<<1, 2>>, <<2, 4>>}
OneSpan == {<<1, 3>>}

Symmetric == Permutations(Session) \cup Permutations(Appointment) \cup Permutations(Conversation)
=============================================================================

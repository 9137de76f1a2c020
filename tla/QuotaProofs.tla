----------------------------- MODULE QuotaProofs -------------------------------
(***************************************************************************)
(* The counters admit what they promise, for any windows, limits, number   *)
(* of sessions and horizon.                                                *)
(***************************************************************************)
EXTENDS UsageQuota, FiniteSetTheorems, WellFoundedInduction, TLAPS

\* What a row says about a history at an instant: every window began in the past
\* and has not ended before the last admission, it counts the admissions since it
\* began and stays within its limit, and a span that reaches into it contains at
\* most a limit's worth of earlier admissions.
Sound(row, history, now) ==
  \A w \in Window :
    /\ row[w].start <= now
    /\ \A i \in DOMAIN history : history[i] < row[w].start + Length[w]
    /\ row[w].requests = Cardinality(Admissions(history, row[w].start, Horizon))
    /\ row[w].requests <= Limit[w]
    /\ \A t \in Instant :
         t > row[w].start - Length[w] =>
           Cardinality(Admissions(history, t, row[w].start - 1)) <= Limit[w]

\* Only the holder of the row lock decides, and the row of a business that never
\* committed one is fresh.
Serial ==
  /\ \A s \in Session : pc[s] = "consume" <=> lock = s
  /\ ~saved => admitted = <<>> /\ \A w \in Window : usage[w].requests = 0
  /\ \A s \in Session : arrived[s] <= clock
  /\ \A i \in DOMAIN admitted : admitted[i] <= clock

IInv == TypeOK /\ Serial /\ Sound(usage, admitted, clock) /\ BurstBounded

-----------------------------------------------------------------------------
\* Facts about histories.

LEMMA AdmissionsFinite ==
  ASSUME NEW history \in Seq(Instant), NEW from \in Int, NEW to \in Int
  PROVE  /\ IsFiniteSet(Admissions(history, from, to))
         /\ Cardinality(Admissions(history, from, to)) \in Nat
<1>1. Admissions(history, from, to) \in SUBSET (1..Len(history))
  BY DEF Admissions
<1>2. Len(history) \in Nat
  OBVIOUS
<1>3. IsFiniteSet(1..Len(history))
  BY <1>2, FS_Interval
<1>4. IsFiniteSet(Admissions(history, from, to))
  BY <1>1, <1>3, FS_Subset
<1> QED
  BY <1>4, FS_CardinalityType

\* A part of a span holds no more admissions than the whole.
LEMMA PartOfSpan ==
  ASSUME NEW history \in Seq(Instant),
         NEW from \in Int, NEW to \in Int, NEW first \in Int, NEW last \in Int,
         Admissions(history, from, to) \subseteq Admissions(history, first, last)
  PROVE  Cardinality(Admissions(history, from, to)) <= Cardinality(Admissions(history, first, last))
<1>1. IsFiniteSet(Admissions(history, first, last))
  BY AdmissionsFinite
<1> QED
  BY <1>1, FS_Subset

\* Two spans that cover a third hold at least its admissions.
LEMMA TwoSpans ==
  ASSUME NEW history \in Seq(Instant),
         NEW from \in Int, NEW to \in Int, NEW middle \in Int, NEW last \in Int,
         last >= to
  PROVE  Cardinality(Admissions(history, from, to))
           <= Cardinality(Admissions(history, from, middle - 1))
              + Cardinality(Admissions(history, middle, last))
<1> DEFINE A == Admissions(history, from, to)
           B == Admissions(history, from, middle - 1)
           C == Admissions(history, middle, last)
<1>1. /\ IsFiniteSet(B) /\ Cardinality(B) \in Nat
      /\ IsFiniteSet(C) /\ Cardinality(C) \in Nat
      /\ Cardinality(A) \in Nat
  BY AdmissionsFinite
<1>2. A \subseteq B \cup C
  <2> SUFFICES ASSUME NEW i \in DOMAIN history, history[i] \in from..to
               PROVE  history[i] \in from..(middle - 1) \/ history[i] \in middle..last
    BY DEF Admissions
  <2>1. history[i] \in Int
    BY DEF Instant
  <2> QED
    BY <2>1
<1>3. /\ IsFiniteSet(B \cup C)
      /\ Cardinality(B \cup C) = Cardinality(B) + Cardinality(C) - Cardinality(B \cap C)
  BY <1>1, FS_Union
<1>4. IsFiniteSet(B \cap C)
  <2>1. B \cap C \in SUBSET B
    OBVIOUS
  <2> QED
    BY <1>1, <2>1, FS_Subset
<1>5. Cardinality(B \cap C) \in Nat
  BY <1>4, FS_CardinalityType
<1>6. Cardinality(A) <= Cardinality(B \cup C)
  BY <1>2, <1>3, FS_Subset
<1>7. Cardinality(A) <= Cardinality(B) + Cardinality(C)
  <2> HIDE DEF A, B, C
  <2> QED
    BY <1>1, <1>3, <1>5, <1>6
<1> QED
  BY <1>7

\* One more admission, decided now, counts in the spans that contain now.
LEMMA OneMore ==
  ASSUME NEW history \in Seq(Instant), NEW now \in Instant, NEW from \in Int, NEW to \in Int
  PROVE  Cardinality(Admissions(Append(history, now), from, to)) =
           Cardinality(Admissions(history, from, to)) + (IF now \in from..to THEN 1 ELSE 0)
<1> DEFINE n == Len(history) + 1
           A == Admissions(history, from, to)
<1>0. Len(history) \in Nat /\ DOMAIN history = 1..Len(history)
  OBVIOUS
<1>1. IsFiniteSet(A) /\ Cardinality(A) \in Nat
  BY AdmissionsFinite
<1>2. n \notin A
  BY <1>0 DEF Admissions
<1>3. Admissions(Append(history, now), from, to) = IF now \in from..to THEN A \cup {n} ELSE A
  <2>1. /\ DOMAIN Append(history, now) = 1..n
        /\ Append(history, now)[n] = now
        /\ \A i \in 1..Len(history) : Append(history, now)[i] = history[i]
    BY <1>0
  <2>2. 1..n = (1..Len(history)) \cup {n}
    BY <1>0
  <2> QED
    BY <1>0, <2>1, <2>2 DEF Admissions
<1>4. /\ Cardinality(A \cup {n}) = Cardinality(A) + 1
  BY <1>1, <1>2, FS_AddElement
<1> QED
  BY <1>1, <1>3, <1>4

-----------------------------------------------------------------------------
\* Facts about rows.

LEMMA RowTypes ==
  ASSUME NEW row \in [Window -> [start : Instant, requests : Nat]], NEW w \in Window
  PROVE  /\ row[w].start \in Int /\ row[w].start >= 0 /\ row[w].start <= Horizon
         /\ row[w].requests \in Nat
         /\ Length[w] \in Nat \ {0} /\ Limit[w] \in Nat \ {0}
BY WindowAssumption, HorizonAssumption DEF Instant

\* Renewing the windows that have ended keeps a row sound.
LEMMA RenewedSound ==
  ASSUME NEW row \in [Window -> [start : Instant, requests : Nat]],
         NEW history \in Seq(Instant), NEW now \in Instant,
         \A i \in DOMAIN history : history[i] <= now,
         Sound(row, history, now)
  PROVE  /\ Renewed(row, now) \in [Window -> [start : Instant, requests : Nat]]
         /\ Sound(Renewed(row, now), history, now)
         /\ \A w \in Window : now < Renewed(row, now)[w].start + Length[w]
<1> DEFINE new == Renewed(row, now)
<1>1. now \in Int /\ 0 <= now /\ now <= Horizon
  BY HorizonAssumption DEF Instant
<1>2. new \in [Window -> [start : Instant, requests : Nat]]
  BY DEF Renewed
<1>3. ASSUME NEW w \in Window
      PROVE  /\ new[w].start <= now
             /\ now < new[w].start + Length[w]
             /\ \A i \in DOMAIN history : history[i] < new[w].start + Length[w]
             /\ new[w].requests = Cardinality(Admissions(history, new[w].start, Horizon))
             /\ new[w].requests <= Limit[w]
             /\ \A t \in Instant :
                  t > new[w].start - Length[w] =>
                    Cardinality(Admissions(history, t, new[w].start - 1)) <= Limit[w]
  <2>1. /\ row[w].start \in Int /\ row[w].start >= 0
        /\ Length[w] \in Nat \ {0} /\ Limit[w] \in Nat \ {0}
    BY RowTypes
  <2>2. CASE now < row[w].start + Length[w]
    <3>1. new[w] = row[w]
      BY <1>1, <2>1, <2>2 DEF Renewed
    <3> QED
      BY <2>2, <3>1 DEF Sound
  <2>3. CASE now >= row[w].start + Length[w]
    <3>1. new[w].start = now /\ new[w].requests = 0
      BY <2>3 DEF Renewed
    <3>2. \A i \in DOMAIN history : history[i] \in Int /\ history[i] < now
      <4> SUFFICES ASSUME NEW i \in DOMAIN history
                   PROVE  history[i] \in Int /\ history[i] < now
        OBVIOUS
      <4>1. history[i] < row[w].start + Length[w]
        BY DEF Sound
      <4>2. history[i] \in Instant
        OBVIOUS
      <4>3. history[i] \in Int /\ now \in Int /\ row[w].start + Length[w] \in Int
        BY <2>1, <4>2, HorizonAssumption DEF Instant
      <4> QED
        BY <2>3, <4>1, <4>3
    <3>3. Admissions(history, now, Horizon) = {}
      BY <1>1, <3>2, HorizonAssumption DEF Admissions
    <3>4. ASSUME NEW t \in Instant, t > now - Length[w]
          PROVE  Cardinality(Admissions(history, t, now - 1)) <= Limit[w]
      <4>1. t \in Int /\ t > row[w].start
        BY <1>1, <2>1, <2>3, <3>4 DEF Instant
      <4>2. Admissions(history, t, now - 1) \subseteq Admissions(history, row[w].start, Horizon)
        BY <1>1, <2>1, <4>1, HorizonAssumption DEF Admissions
      <4>3. Cardinality(Admissions(history, t, now - 1))
              <= Cardinality(Admissions(history, row[w].start, Horizon))
        BY <1>1, <2>1, <4>1, <4>2, HorizonAssumption, PartOfSpan
      <4>4. /\ Cardinality(Admissions(history, t, now - 1)) \in Nat
            /\ Cardinality(Admissions(history, row[w].start, Horizon)) \in Nat
        BY <1>1, <2>1, <4>1, HorizonAssumption, AdmissionsFinite
      <4>5. Cardinality(Admissions(history, row[w].start, Horizon)) <= Limit[w]
        BY DEF Sound
      <4> QED
        BY <2>1, <4>3, <4>4, <4>5
    <3> QED
      BY <1>1, <2>1, <3>1, <3>2, <3>3, <3>4, FS_EmptySet
  <2> QED
    BY <1>1, <2>1, <2>2, <2>3
<1> QED
  BY <1>2, <1>3 DEF Sound

\* Counting one more admission in every window keeps a row sound that had room
\* in every window.
LEMMA AdmittedSound ==
  ASSUME NEW row \in [Window -> [start : Instant, requests : Nat]],
         NEW history \in Seq(Instant), NEW now \in Instant,
         Sound(row, history, now),
         Full(row) = {},
         \A w \in Window : now < row[w].start + Length[w],
         NEW next, next = [w \in Window |-> [row[w] EXCEPT !.requests = @ + 1]]
  PROVE  /\ next \in [Window -> [start : Instant, requests : Nat]]
         /\ Sound(next, Append(history, now), now)
<1> DEFINE more == Append(history, now)
<1>1. now \in Int /\ 0 <= now /\ now <= Horizon
  BY HorizonAssumption DEF Instant
<1>2. next \in [Window -> [start : Instant, requests : Nat]]
  OBVIOUS
<1>3. ASSUME NEW w \in Window
      PROVE  /\ next[w].start <= now
             /\ \A i \in DOMAIN more : more[i] < next[w].start + Length[w]
             /\ next[w].requests = Cardinality(Admissions(more, next[w].start, Horizon))
             /\ next[w].requests <= Limit[w]
             /\ \A t \in Instant :
                  t > next[w].start - Length[w] =>
                    Cardinality(Admissions(more, t, next[w].start - 1)) <= Limit[w]
  <2>1. /\ row[w].start \in Int /\ row[w].start >= 0 /\ row[w].requests \in Nat
        /\ Length[w] \in Nat \ {0} /\ Limit[w] \in Nat \ {0}
    BY RowTypes
  <2>2. next[w].start = row[w].start /\ next[w].requests = row[w].requests + 1
    OBVIOUS
  <2>3. /\ row[w].start <= now
        /\ \A i \in DOMAIN history : history[i] < row[w].start + Length[w]
        /\ row[w].requests = Cardinality(Admissions(history, row[w].start, Horizon))
        /\ \A t \in Instant :
             t > row[w].start - Length[w] =>
               Cardinality(Admissions(history, t, row[w].start - 1)) <= Limit[w]
    BY DEF Sound
  <2>4. row[w].requests + 1 <= Limit[w]
    BY <2>1 DEF Full
  <2>5. \A i \in DOMAIN more : more[i] < row[w].start + Length[w]
    BY <2>3
  <2>6. Cardinality(Admissions(more, row[w].start, Horizon)) = row[w].requests + 1
    BY <1>1, <2>1, <2>3, HorizonAssumption, OneMore
  <2>7. ASSUME NEW t \in Instant, t > row[w].start - Length[w]
        PROVE  Cardinality(Admissions(more, t, row[w].start - 1)) <= Limit[w]
    <3>1. t \in Int
      BY DEF Instant
    <3>2. Cardinality(Admissions(more, t, row[w].start - 1))
            = Cardinality(Admissions(history, t, row[w].start - 1))
              + (IF now \in t..(row[w].start - 1) THEN 1 ELSE 0)
      BY <2>1, <3>1, OneMore
    <3>3. now \notin t..(row[w].start - 1)
      BY <1>1, <2>1, <2>3, <3>1
    <3>4. Cardinality(Admissions(history, t, row[w].start - 1)) \in Nat
      BY <2>1, <3>1, AdmissionsFinite
    <3> QED
      BY <2>3, <2>7, <3>2, <3>3, <3>4
  <2> QED
    BY <2>2, <2>3, <2>4, <2>5, <2>6, <2>7
<1> QED
  BY <1>2, <1>3 DEF Sound

\* A sound row never lets a window's length of time see more than two limits, given
\* that the spans before the row's window began did not.
LEMMA SoundBurst ==
  ASSUME NEW row \in [Window -> [start : Instant, requests : Nat]],
         NEW history \in Seq(Instant), NEW now \in Instant,
         Sound(row, history, now),
         NEW w \in Window, NEW t \in Instant, t > row[w].start - Length[w]
  PROVE  Cardinality(Admissions(history, t, t + Length[w] - 1)) <= 2 * Limit[w]
<1>1. /\ row[w].start \in Int /\ row[w].start >= 0
      /\ Length[w] \in Nat \ {0} /\ Limit[w] \in Nat \ {0}
  BY RowTypes
<1>2. t \in Int /\ Horizon \in Int
  BY HorizonAssumption DEF Instant
<1> DEFINE A == Admissions(history, t, t + Length[w] - 1)
           B == Admissions(history, t, row[w].start - 1)
           C == Admissions(history, row[w].start, Horizon)
           last == t + Length[w] + Horizon
           D == Admissions(history, row[w].start, last)
<1>3. D \subseteq C
  <2> SUFFICES ASSUME NEW i \in DOMAIN history, history[i] \in row[w].start..last
               PROVE  history[i] \in row[w].start..Horizon
    BY DEF Admissions
  <2>1. history[i] \in Instant
    OBVIOUS
  <2> QED
    BY <1>1, <1>2, <2>1 DEF Instant
<1>4. /\ Cardinality(A) \in Nat /\ Cardinality(B) \in Nat
      /\ Cardinality(C) \in Nat /\ Cardinality(D) \in Nat
  <2>1. t + Length[w] - 1 \in Int /\ row[w].start - 1 \in Int /\ last \in Int
    BY <1>1, <1>2
  <2> QED
    BY <1>1, <1>2, <2>1, AdmissionsFinite
<1>5. Cardinality(A) <= Cardinality(B) + Cardinality(D)
  <2> DEFINE to == t + Length[w] - 1
             middle == row[w].start
  <2>1. /\ to \in Int /\ middle \in Int /\ last \in Int
        /\ last >= to
    <3> HIDE DEF A, B, C, D
    <3>1. Length[w] \in Int /\ Horizon >= 0 - 1
      BY <1>1, HorizonAssumption
    <3>2. to \in Int /\ middle \in Int
      BY <1>1, <1>2, <3>1
    <3>3. last \in Int
      BY <1>2, <3>1
    <3>4. last >= to
      BY <1>2, <3>1
    <3> QED
      BY <3>2, <3>3, <3>4
  <2> HIDE DEF to, middle, last
  <2>2. Cardinality(Admissions(history, t, to))
          <= Cardinality(Admissions(history, t, middle - 1))
             + Cardinality(Admissions(history, middle, last))
    BY <1>2, <2>1, TwoSpans
  <2> QED
    BY <2>2 DEF to, middle
<1>6. Cardinality(D) <= Cardinality(C)
  BY <1>1, <1>2, <1>3, PartOfSpan
<1>7. Cardinality(B) <= Limit[w] /\ Cardinality(C) <= Limit[w]
  BY DEF Sound
<1>8. Cardinality(A) <= 2 * Limit[w]
  <2>1. Cardinality(D) <= Limit[w]
    <3> HIDE DEF C, D
    <3> QED
      BY <1>1, <1>4, <1>6, <1>7
  <2> DEFINE card(S) == Cardinality(S)
             limit == Limit[w]
  <2>2. /\ card(A) \in Int /\ card(B) \in Int /\ card(D) \in Int /\ limit \in Int
        /\ card(A) <= card(B) + card(D) /\ card(B) <= limit /\ card(D) <= limit
    BY <1>1, <1>4, <1>5, <1>7, <2>1
  <2> HIDE DEF A, B, C, D, card, limit
  <2>3. card(A) <= 2 * limit
    BY <2>2
  <2> QED
    BY <2>3 DEF card, limit
<1> QED
  BY <1>8

-----------------------------------------------------------------------------
\* The inductive invariant.

LEMMA InitIInv == Init => IInv
<1> SUFFICES ASSUME Init PROVE IInv
  OBVIOUS
<1>1. TypeOK
  <2>1. 0 \in Instant
    BY HorizonAssumption DEF Instant
  <2>2. Started(0) \in [Window -> [start : Instant, requests : Nat]]
    BY <2>1 DEF Started
  <2>3. admitted \in Seq(Instant)
    BY DEF Init
  <2>4. arrived \in [Session -> Instant]
    BY <2>1 DEF Init
  <2> QED
    BY <2>1, <2>2, <2>3, <2>4 DEF Init, TypeOK
<1>2. Serial
  BY NoneAssumption DEF Init, Serial, Started
<1>3. \A from, to \in Int : Cardinality(Admissions(admitted, from, to)) = 0
  <2>1. \A from, to : Admissions(admitted, from, to) = {}
    BY DEF Init, Admissions
  <2> QED
    BY <2>1, FS_EmptySet
<1>4. \A t \in Instant : t \in Int
  BY DEF Instant
<1>5. Sound(usage, admitted, clock)
  <2> SUFFICES ASSUME NEW w \in Window
               PROVE  /\ usage[w].start <= clock
                      /\ \A i \in DOMAIN admitted : admitted[i] < usage[w].start + Length[w]
                      /\ usage[w].requests = Cardinality(Admissions(admitted, usage[w].start, Horizon))
                      /\ usage[w].requests <= Limit[w]
                      /\ \A t \in Instant :
                           t > usage[w].start - Length[w] =>
                             Cardinality(Admissions(admitted, t, usage[w].start - 1)) <= Limit[w]
    BY DEF Sound
  <2>1. usage[w].start = 0 /\ usage[w].requests = 0 /\ clock = 0 /\ admitted = <<>>
    BY DEF Init, Started
  <2>2. Limit[w] \in Nat \ {0} /\ Horizon \in Int
    BY WindowAssumption, HorizonAssumption
  <2> QED
    BY <1>3, <1>4, <2>1, <2>2
<1>6. BurstBounded
  <2> SUFFICES ASSUME NEW w \in Window, NEW t \in Instant
               PROVE  Cardinality(Admissions(admitted, t, t + Length[w] - 1)) <= 2 * Limit[w]
    BY DEF BurstBounded
  <2>1. Limit[w] \in Nat /\ Length[w] \in Nat
    BY WindowAssumption
  <2> QED
    BY <1>3, <1>4, <2>1
<1> QED
  BY <1>1, <1>2, <1>5, <1>6 DEF IInv

\* The row a decision works on.
LEMMA RenewedUsage ==
  ASSUME IInv
  PROVE  /\ Renewed(usage, clock) \in [Window -> [start : Instant, requests : Nat]]
         /\ Sound(Renewed(usage, clock), admitted, clock)
         /\ \A w \in Window : clock < Renewed(usage, clock)[w].start + Length[w]
BY RenewedSound DEF IInv, TypeOK, Serial

\* A history that does not change keeps its bursts bounded.
LEMMA SameHistory ==
  ASSUME BurstBounded, admitted' = admitted
  PROVE  BurstBounded'
BY DEF BurstBounded, Admissions

\* A fresh row is sound for an empty history.
LEMMA FreshSound ==
  ASSUME NEW row \in [Window -> [start : Instant, requests : Nat]], NEW now \in Instant,
         \A w \in Window : row[w].start <= now /\ row[w].requests = 0
  PROVE  Sound(row, <<>>, now)
<1>1. \A from, to : Admissions(<<>>, from, to) = {}
  BY DEF Admissions
<1>2. Cardinality({}) = 0
  BY FS_EmptySet
<1>3. \A w \in Window : Limit[w] \in Nat
  BY WindowAssumption
<1>4. \A from, to : Cardinality(Admissions(<<>>, from, to)) = 0
  BY <1>1, <1>2
<1>5. DOMAIN <<>> = {}
  OBVIOUS
<1> QED
  BY <1>3, <1>4, <1>5 DEF Sound

LEMMA AdmitStep ==
  ASSUME IInv, NEW s \in Session, Admit(s)
  PROVE  IInv'
<1> DEFINE row == Renewed(usage, clock)
<1>1. /\ row \in [Window -> [start : Instant, requests : Nat]]
      /\ Sound(row, admitted, clock)
      /\ \A w \in Window : clock < row[w].start + Length[w]
  BY RenewedUsage
<1>2. /\ Full(row) = {}
      /\ usage' = [w \in Window |-> [row[w] EXCEPT !.requests = @ + 1]]
      /\ admitted' = Append(admitted, clock)
  BY DEF Admit
<1>3. admitted \in Seq(Instant) /\ clock \in Instant
  BY DEF IInv, TypeOK
<1> HIDE DEF row
<1>4. /\ usage' \in [Window -> [start : Instant, requests : Nat]]
      /\ Sound(usage', admitted', clock)
  BY <1>1, <1>2, <1>3, AdmittedSound
<1>5. clock' = clock
  BY DEF Admit, Commit
<1>6. TypeOK'
  <2>1. admitted' \in Seq(Instant)
    BY <1>2, <1>3
  <2> QED
    BY <1>4, <1>5, <2>1, HorizonAssumption DEF IInv, TypeOK, Admit, Commit, Instant
<1>7. Serial'
  <2>1. \A i \in DOMAIN admitted' : admitted'[i] <= clock'
    BY <1>2, <1>3, <1>5, HorizonAssumption DEF IInv, Serial, Instant
  <2>2. \A t \in Session : pc'[t] = "consume" <=> lock' = t
    BY NoneAssumption DEF IInv, TypeOK, Serial, Admit, Commit
  <2>3. saved' = TRUE
    BY DEF Admit, Commit
  <2>4. \A t \in Session : arrived'[t] <= clock'
    BY <1>3, <1>5, HorizonAssumption DEF IInv, TypeOK, Serial, Admit, Commit, Instant
  <2> QED
    BY <2>1, <2>2, <2>3, <2>4 DEF Serial
<1>8. BurstBounded'
  <2> SUFFICES ASSUME NEW w \in Window, NEW t \in Instant
               PROVE  Cardinality(Admissions(admitted', t, t + Length[w] - 1)) <= 2 * Limit[w]
    BY DEF BurstBounded
  <2>1. CASE t > usage'[w].start - Length[w]
    <3>1. admitted' \in Seq(Instant)
      BY <1>2, <1>3
    <3> QED
      BY <1>3, <1>4, <2>1, <3>1, SoundBurst
  <2>2. CASE ~(t > usage'[w].start - Length[w])
    <3>1. /\ usage'[w].start \in Int /\ Length[w] \in Nat \ {0}
          /\ usage'[w].start <= clock
      BY <1>4, RowTypes DEF Sound
    <3>2. t \in Int /\ clock \in Int
      BY <1>3 DEF Instant
    <3>3. clock \notin t..(t + Length[w] - 1)
      BY <2>2, <3>1, <3>2
    <3>4. t + Length[w] - 1 \in Int
      BY <3>1, <3>2
    <3>5. Cardinality(Admissions(admitted', t, t + Length[w] - 1))
            = Cardinality(Admissions(admitted, t, t + Length[w] - 1)) + 0
      BY <1>2, <1>3, <3>2, <3>3, <3>4, OneMore
    <3>6. Cardinality(Admissions(admitted, t, t + Length[w] - 1)) \in Nat
      BY <1>3, <3>2, <3>4, AdmissionsFinite
    <3> QED
      BY <3>5, <3>6 DEF IInv, BurstBounded
  <2> QED
    BY <2>1, <2>2
<1> QED
  BY <1>4, <1>5, <1>6, <1>7, <1>8 DEF IInv

LEMMA RefuseStep ==
  ASSUME IInv, NEW s \in Session, Refuse(s)
  PROVE  IInv'
<1>1. /\ usage' = Renewed(usage, clock) /\ clock' = clock /\ admitted' = admitted
      /\ saved' = TRUE
  BY DEF Refuse, Commit
<1>2. TypeOK'
  BY <1>1, RenewedUsage, HorizonAssumption DEF IInv, TypeOK, Refuse, Commit, Instant
<1>3. Serial'
  <2>1. \A t \in Session : pc'[t] = "consume" <=> lock' = t
    BY NoneAssumption DEF IInv, TypeOK, Serial, Refuse, Commit
  <2>2. \A t \in Session : arrived'[t] <= clock'
    BY HorizonAssumption DEF IInv, TypeOK, Serial, Refuse, Commit, Instant
  <2> QED
    BY <1>1, <2>1, <2>2 DEF IInv, Serial
<1>4. Sound(usage', admitted', clock')
  BY <1>1, RenewedUsage
<1> QED
  BY <1>1, <1>2, <1>3, <1>4, SameHistory DEF IInv

LEMMA LockStep ==
  ASSUME IInv, NEW s \in Session, Lock(s)
  PROVE  IInv'
<1>1. admitted' = admitted /\ clock' = clock /\ saved' = saved /\ arrived' = arrived
  BY DEF Lock
<1>2. Started(arrived[s]) \in [Window -> [start : Instant, requests : Nat]]
  BY DEF IInv, TypeOK, Started
<1>3. TypeOK'
  BY <1>2 DEF IInv, TypeOK, Lock
<1>4. Serial'
  <2>1. \A t \in Session : pc'[t] = "consume" <=> lock' = t
    BY NoneAssumption DEF IInv, TypeOK, Serial, Lock
  <2>2. ~saved' => admitted' = <<>> /\ \A w \in Window : usage'[w].requests = 0
    BY DEF IInv, Serial, Lock, Started
  <2> QED
    BY <1>1, <2>1, <2>2 DEF IInv, Serial
<1>5. Sound(usage', admitted', clock')
  <2>1. CASE saved
    BY <1>1, <2>1 DEF IInv, Lock
  <2>2. CASE ~saved
    <3>1. usage' = Started(arrived[s]) /\ admitted = <<>>
      BY <2>2 DEF IInv, Serial, Lock
    <3>2. \A w \in Window : usage'[w].start <= clock /\ usage'[w].requests = 0
      BY <3>1 DEF IInv, Serial, Started
    <3>3. clock \in Instant
      BY DEF IInv, TypeOK
    <3> QED
      BY <1>1, <1>2, <3>1, <3>2, <3>3, FreshSound
  <2> QED
    BY <2>1, <2>2
<1> QED
  BY <1>1, <1>3, <1>4, <1>5, SameHistory DEF IInv

LEMMA FailStep ==
  ASSUME IInv, NEW s \in Session, Fail(s)
  PROVE  IInv'
<1>1. admitted' = admitted /\ clock' = clock /\ saved' = saved
  BY DEF Fail
<1>2. Started(0) \in [Window -> [start : Instant, requests : Nat]]
  BY HorizonAssumption DEF Started, Instant
<1>3. TypeOK'
  BY <1>2, HorizonAssumption DEF IInv, TypeOK, Fail, Instant
<1>4. Serial'
  <2>1. \A t \in Session : pc'[t] = "consume" <=> lock' = t
    BY NoneAssumption DEF IInv, TypeOK, Serial, Fail
  <2>2. ~saved' => admitted' = <<>> /\ \A w \in Window : usage'[w].requests = 0
    BY DEF IInv, Serial, Fail, Started
  <2>3. \A t \in Session : arrived'[t] <= clock'
    BY HorizonAssumption DEF IInv, TypeOK, Serial, Fail, Instant
  <2> QED
    BY <1>1, <2>1, <2>2, <2>3 DEF IInv, Serial
<1>5. Sound(usage', admitted', clock')
  <2>1. CASE saved \/ lock # s
    BY <1>1, <2>1 DEF IInv, Fail
  <2>2. CASE ~(saved \/ lock # s)
    <3>1. usage' = Started(0) /\ admitted = <<>>
      BY <2>2 DEF IInv, Serial, Fail
    <3>2. clock \in Instant
      BY DEF IInv, TypeOK
    <3>3. \A w \in Window : usage'[w].start <= clock /\ usage'[w].requests = 0
      BY <3>1, <3>2, HorizonAssumption DEF Started, Instant
    <3> QED
      BY <1>1, <1>2, <3>1, <3>2, <3>3, FreshSound
  <2> QED
    BY <2>1, <2>2
<1> QED
  BY <1>1, <1>3, <1>4, <1>5, SameHistory DEF IInv

LEMMA StepIInv == IInv /\ [Next]_vars => IInv'
<1> SUFFICES ASSUME IInv, [Next]_vars PROVE IInv'
  OBVIOUS
<1>1. ASSUME NEW s \in Session, Arrive(s) PROVE IInv'
  <2>1. TypeOK'
    BY <1>1 DEF IInv, TypeOK, Arrive
  <2>2. Serial'
    <3>1. \A t \in Session : pc'[t] = "consume" <=> pc[t] = "consume"
      BY <1>1 DEF IInv, TypeOK, Arrive
    <3>2. \A t \in Session : arrived'[t] <= clock
      BY <1>1, HorizonAssumption DEF IInv, TypeOK, Serial, Arrive, Instant
    <3> QED
      BY <1>1, <3>1, <3>2 DEF IInv, Serial, Arrive
  <2>3. Sound(usage', admitted', clock') /\ admitted' = admitted
    BY <1>1 DEF IInv, Arrive
  <2> QED
    BY <2>1, <2>2, <2>3, SameHistory DEF IInv
<1>2. ASSUME Tick PROVE IInv'
  <2>1. TypeOK'
    BY <1>2, HorizonAssumption DEF IInv, TypeOK, Tick, Instant
  <2>2. clock \in Int /\ clock' = clock + 1
    BY <1>2 DEF IInv, TypeOK, Tick, Instant
  <2>3. Serial'
    <3>1. \A t \in Session : arrived[t] <= clock'
      BY <2>2 DEF IInv, TypeOK, Serial, Instant
    <3>2. \A i \in DOMAIN admitted : admitted[i] <= clock'
      <4> SUFFICES ASSUME NEW i \in DOMAIN admitted PROVE admitted[i] <= clock'
        OBVIOUS
      <4>1. admitted[i] \in Instant /\ admitted[i] <= clock
        BY DEF IInv, TypeOK, Serial
      <4> QED
        BY <2>2, <4>1 DEF Instant
    <3> QED
      BY <1>2, <3>1, <3>2 DEF IInv, Serial, Tick
  <2>4. Sound(usage', admitted', clock')
    <3>1. \A w \in Window : usage[w].start <= clock'
      <4> SUFFICES ASSUME NEW w \in Window PROVE usage[w].start <= clock'
        OBVIOUS
      <4>1. usage[w].start \in Instant /\ usage[w].start <= clock
        BY DEF IInv, TypeOK, Sound
      <4> QED
        BY <2>2, <4>1 DEF Instant
    <3> QED
      BY <1>2, <3>1 DEF IInv, Sound, Tick
  <2>5. admitted' = admitted
    BY <1>2 DEF Tick
  <2> QED
    BY <2>1, <2>3, <2>4, <2>5, SameHistory DEF IInv
<1>3. ASSUME UNCHANGED vars PROVE IInv'
  <2>1. TypeOK' /\ Serial'
    BY <1>3 DEF IInv, TypeOK, Serial, vars
  <2>2. Sound(usage', admitted', clock') /\ admitted' = admitted
    BY <1>3 DEF IInv, vars
  <2> QED
    BY <2>1, <2>2, SameHistory DEF IInv
<1> QED
  BY <1>1, <1>2, <1>3, AdmitStep, RefuseStep, LockStep, FailStep DEF Next

\* Every state satisfies the inductive invariant.
THEOREM QuotaInductive == Spec => []IInv
BY InitIInv, StepIInv, PTL DEF Spec

\* The row, its lock and the history keep their types.
THEOREM QuotaTypes == Spec => []TypeOK
<1>1. IInv => TypeOK
  BY DEF IInv
<1> QED
  BY <1>1, QuotaInductive, PTL

\* consume: a committed row counts exactly the admissions of its windows and stays
\* within every limit, however long requests wait for the row lock.
THEOREM CountsCorrect == Spec => []CountsAdmissions
<1>1. IInv => CountsAdmissions
  BY DEF IInv, Sound, CountsAdmissions
<1> QED
  BY <1>1, QuotaInductive, PTL

\* consume: no span as long as a window sees more than two limits of admissions.
THEOREM BurstsBounded == Spec => []BurstBounded
<1>1. IInv => BurstBounded
  BY DEF IInv
<1> QED
  BY <1>1, QuotaInductive, PTL
\* A finite set of integers has a greatest element.
LEMMA Greatest ==
  ASSUME NEW D \in SUBSET Int, IsFiniteSet(D), D # {}
  PROVE  \E d \in D : \A e \in D : d >= e
<1> DEFINE Above(d) == {e \in D : e > d}
           R == StrictSubsetOrdering(D)
           T == {Above(d) : d \in D}
<1>1. IsWellFoundedOn(R, FiniteSubsetsOf(D))
  BY FS_StrictSubsetOrderingWellFounded
<1>2. T \subseteq FiniteSubsetsOf(D) /\ T # {}
  <2>1. \A d \in D : Above(d) \in SUBSET D
    OBVIOUS
  <2>2. \A d \in D : IsFiniteSet(Above(d))
    BY <2>1, FS_Subset
  <2> QED
    BY <2>1, <2>2 DEF FiniteSubsetsOf
<1>3. \E x \in T : \A y \in T : ~ (<<y, x>> \in R)
  <2> HIDE DEF R, T
  <2> QED
    BY <1>1, <1>2, WFMin
<1>4. PICK d \in D : \A e \in D : <<Above(e), Above(d)>> \notin R
  BY <1>3
<1>5. ASSUME NEW e \in D, ~(d >= e)
      PROVE  FALSE
  <2>1. d \in Int /\ e \in Int /\ e > d /\ ~(e > e)
    BY <1>5
  <2>2. e \in Above(d) /\ e \notin Above(e)
    BY <2>1
  <2>3. Above(e) \subseteq Above(d)
    <3>1. \A x \in D : x \in Int /\ (x > e => x > d)
      BY <2>1
    <3> QED
      BY <3>1
  <2>4. <<Above(e), Above(d)>> \in R
    BY <2>2, <2>3 DEF StrictSubsetOrdering
  <2> QED
    BY <2>4, <1>4
<1> QED
  BY <1>5

\* The wait of a refusal is the longest of its full windows.
LEMMA LongestWait ==
  ASSUME NEW row \in [Window -> [start : Instant, requests : Nat]], NEW now \in Instant,
         Full(row) # {}
  PROVE  /\ \E w \in Full(row) : RetryAfter(row, now) = row[w].start + Length[w] - now
         /\ \A w \in Full(row) : RetryAfter(row, now) >= row[w].start + Length[w] - now
<1> DEFINE wait(w) == row[w].start + Length[w] - now
           D == {wait(w) : w \in Full(row)}
<1>1. Full(row) \in SUBSET Window /\ IsFiniteSet(Full(row))
  BY WindowAssumption, FS_Subset DEF Full
<1>2. now \in Int /\ \A w \in Window : wait(w) \in Int
  BY RowTypes, HorizonAssumption DEF Instant
<1>3. D \in SUBSET Int /\ D # {}
  BY <1>1, <1>2
<1>4. IsFiniteSet(D)
  <2>1. [w \in Full(row) |-> wait(w)] \in Surjection(Full(row), D)
    BY DEF Surjection
  <2> QED
    BY <2>1, <1>1, FS_Surjection
<1>5. \E d \in D : \A e \in D : d >= e
  BY <1>3, <1>4, Greatest
<1>6. RetryAfter(row, now) \in D /\ \A e \in D : RetryAfter(row, now) >= e
  BY <1>5 DEF RetryAfter, Waits
<1> QED
  BY <1>6

\* A refused request that comes back when it was told to is admitted unless others came first, and
\* not before.
LEMMA RefusalIsExact ==
  ASSUME IInv, NEW s \in Session, Refuse(s)
  PROVE  LET d == RetryAfter(usage', clock) IN
         /\ d > 0
         /\ Full(Renewed(usage', clock + d)) = {}
         /\ \A early \in 0..(d - 1) : Full(Renewed(usage', clock + early)) # {}
<1> DEFINE row == Renewed(usage, clock)
           d == RetryAfter(row, clock)
<1>1. usage' = row /\ Full(row) # {} /\ clock \in Instant
  BY DEF Refuse, IInv, TypeOK
<1>2. /\ row \in [Window -> [start : Instant, requests : Nat]]
      /\ \A w \in Window : clock < row[w].start + Length[w]
  BY RenewedUsage
<1> HIDE DEF row
<1>3. /\ \E w \in Full(row) : d = row[w].start + Length[w] - clock
      /\ \A w \in Full(row) : d >= row[w].start + Length[w] - clock
  BY <1>1, <1>2, LongestWait
<1> HIDE DEF d
<1>4. clock \in Int /\ \A w \in Window :
        /\ row[w].start \in Int /\ row[w].requests \in Nat
        /\ Length[w] \in Nat \ {0} /\ Limit[w] \in Nat \ {0}
  BY <1>1, <1>2, RowTypes, HorizonAssumption DEF Instant
<1>5. d \in Int /\ d > 0
  BY <1>2, <1>3, <1>4 DEF Full
<1>6. Full(Renewed(row, clock + d)) = {}
  <2>1. ASSUME NEW w \in Window
        PROVE  Renewed(row, clock + d)[w].requests < Limit[w]
    <3>1. CASE clock + d >= row[w].start + Length[w]
      BY <3>1, <1>4 DEF Renewed
    <3>2. CASE ~(clock + d >= row[w].start + Length[w])
      <4>1. w \notin Full(row)
        BY <3>2, <1>3, <1>4, <1>5
      <4> QED
        BY <3>2, <4>1, <1>4 DEF Renewed, Full
    <3> QED
      BY <3>1, <3>2
  <2>2. \A w \in Window : Renewed(row, clock + d)[w].requests \in Nat
    BY <1>2, <1>4 DEF Renewed
  <2> QED
    BY <2>1, <2>2, <1>4 DEF Full
<1>7. ASSUME NEW early \in 0..(d - 1)
      PROVE  Full(Renewed(row, clock + early)) # {}
  <2>1. PICK w \in Full(row) : d = row[w].start + Length[w] - clock
    BY <1>3
  <2>2. w \in Window /\ ~(clock + early >= row[w].start + Length[w])
    BY <2>1, <1>4, <1>5 DEF Full
  <2>3. Renewed(row, clock + early)[w] = row[w]
    BY <2>2 DEF Renewed
  <2> QED
    BY <2>1, <2>2, <2>3 DEF Full
<1> QED
  BY <1>1, <1>5, <1>6, <1>7 DEF d

\* The seconds of a Retry-After header are exact, however many windows are full.
THEOREM RetryAfterHolds == Spec => RetryAfterExact
<1>1. IInv /\ [Next]_vars => [\A s \in Session : Refuse(s) =>
       LET d == RetryAfter(usage', clock) IN
       /\ d > 0
       /\ Full(Renewed(usage', clock + d)) = {}
       /\ \A early \in 0..(d - 1) : Full(Renewed(usage', clock + early)) # {}]_vars
  BY RefusalIsExact
<1> QED
  BY <1>1, QuotaInductive, PTL DEF Spec, RetryAfterExact
=============================================================================

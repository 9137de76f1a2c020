---------------------------- MODULE RecoveryProofs ----------------------------
(***************************************************************************)
(* Booking recovery for any number of phones, sessions and requests: the   *)
(* types, codes that are counted and paced although rows are deleted under *)
(* the requests, delivered codes that stay usable, and the challenges as   *)
(* one-time codes.                                                         *)
(***************************************************************************)
EXTENDS Recovery, FiniteSetTheorems, TLAPS

RecoveryPc == {"idle", "purge", "insert", "select", "verify", "deliver", "withdraw"}
Send == [phone : Phone, at : Instant]

RecoveryTyped ==
  /\ pc \in [Session -> RecoveryPc]
  /\ job \in [Session -> RecoveryRequest \cup {None}]
  /\ \A s \in Session : IF pc[s] = "idle" THEN job[s] = None ELSE job[s] \in RecoveryRequest
  /\ clock \in Instant /\ asked \in 0..MaxRequests
  /\ lock \in [RecoveryRow -> Session \cup {None}]
  /\ table \in [RecoveryRow -> Window \cup Challenge \cup {None}]
  /\ \A x \in RecoveryRow : table[x] # None => table[x] \in IF x \in Phone THEN Challenge ELSE Window
  /\ draft = [s \in Session |-> draft[s]]
  /\ sent \in Seq(Send) /\ delivered \cup recovered \subseteq 1..Len(sent)

\* The codes drawn for a phone, all of them a cooldown before an instant.
Sends(p) == {i \in 1..Len(sent) : sent[i].phone = p}
PacedBefore(p, t) == \A i \in Sends(p) : sent[i].at + Cooldown <= t

\* The row that a request inserts for its phone.
FreshReading(s) ==
  [start |-> job[s].at, requests |-> 0, code |-> 0, expires |-> 0, last |-> -Cooldown, attempts |-> 0]

\* A request about bookings, before the code is compared.
Verifying(s) ==
  \/ pc[s] = "verify"
  \/ pc[s] \in {"insert", "select"} /\ job[s].row \in {"verify_ip"} \X Address

\* What a session has written: counted throttles, deleted rows that were old, and at last the
\* row of a phone whose codes were all drawn long before.
DraftOf(s) ==
  \A x \in DOMAIN draft[s] :
    /\ x \in RecoveryRow /\ lock[x] = s
    /\ x \notin Phone => draft[s][x] \in Window \cup {None}
    /\ x \in Phone => IF draft[s][x] = None THEN table[x] # None /\ table[x].start + Day < job[s].at
                      ELSE /\ pc[s] = "select" /\ job[s].row = x /\ draft[s][x] = FreshReading(s)
                           /\ PacedBefore(x, job[s].at)

\* What a session knows at each step.
RecoveryKnows(s) ==
  /\ pc[s] # "idle" => job[s].at <= clock /\ clock <= job[s].at + MaxWait /\ job[s].code <= Len(sent)
  /\ pc[s] \in {"insert", "select"} => job[s].row \in Throttle \cup {job[s].phone}
  /\ pc[s] \in {"deliver", "withdraw"} => job[s].code \in (1..Len(sent)) \ delivered
  /\ pc[s] \in {"idle", "deliver", "withdraw"} => DOMAIN draft[s] = {}
  /\ Verifying(s) => DOMAIN draft[s] \subseteq Throttle

\* The codes being delivered or withdrawn are different ones.
DeliveringCode(s) == pc[s] \in {"deliver", "withdraw"}
OwnCodes == \A s, q \in Session : DeliveringCode(s) /\ DeliveringCode(q) /\ job[s].code = job[q].code => s = q

\* A challenge counts the codes since its start, and the last was drawn in its window; without
\* a challenge no request that is being served is too close to a code.
PhoneOK(p) ==
  IF table[p] = None
  THEN PacedBefore(p, clock) /\ \A s \in Session : pc[s] # "idle" => PacedBefore(p, job[s].at)
  ELSE /\ table[p].start <= table[p].last /\ table[p].last < table[p].start + SendWindow
       /\ \A i \in Sends(p) : sent[i].at <= table[p].last
       /\ table[p].requests = Cardinality({i \in Sends(p) : sent[i].at >= table[p].start})
       /\ table[p].requests <= SendLimit

CodesSpaced ==
  \A i, j \in 1..Len(sent) :
    i < j /\ sent[i].phone = sent[j].phone => sent[j].at >= sent[i].at + Cooldown

\* A code that is delivered or about to be.
Promised(c) == c \in delivered \/ \E s \in Session : pc[s] = "deliver" /\ job[s].code = c

\* It is usable, or expired, replaced or destroyed by wrong answers.
CodeOK(c) ==
  Promised(c) /\ c \notin recovered =>
    LET p == sent[c].phone IN
    \/ clock >= sent[c].at + CodeLife
    \/ \E d \in c + 1..Len(sent) : sent[d].phone = p
    \/ table[p] # None /\ (table[p].code = c \/ table[p].attempts = GuessLimit)

RecoveryInv ==
  /\ RecoveryTyped /\ OwnCodes /\ CodesSpaced
  /\ \A s \in Session : DraftOf(s) /\ RecoveryKnows(s)
  /\ \A p \in Phone : PhoneOK(p)
  /\ \A c \in 1..Len(sent) : CodeOK(c)
-----------------------------------------------------------------------------
\* What the assumptions and the types say, for the steps that follow.
LEMMA RecoveryShapes ==
  ASSUME RecoveryTyped
  PROVE  /\ pc \in [Session -> RecoveryPc] /\ job \in [Session -> RecoveryRequest \cup {None}]
         /\ \A s \in Session : pc[s] # "idle" => job[s] \in RecoveryRequest
         /\ draft = [s \in Session |-> draft[s]]
         /\ clock \in Nat /\ clock \in Instant /\ Instant \subseteq Nat
         /\ lock \in [RecoveryRow -> Session \cup {None}]
         /\ table \in [RecoveryRow -> Window \cup Challenge \cup {None}]
         /\ \A p \in Phone : p \in RecoveryRow /\ p \notin Throttle /\ table[p] \in Challenge \cup {None}
         /\ \A t \in Throttle : t \in RecoveryRow /\ t \notin Phone /\ table[t] \in Window \cup {None}
         /\ RecoveryRow = Throttle \cup Phone
         /\ sent \in Seq(Send) /\ Len(sent) \in Nat
         /\ \A i \in 1..Len(sent) : sent[i] \in Send /\ sent[i].at \in Nat
         /\ None \notin Session /\ None \notin Window \cup Challenge
<1>1. RecoveryRow = Throttle \cup Phone /\ Phone \cap Throttle = {}
  BY ThrottleAssumption DEF RecoveryRow
<1>2. Instant \subseteq Nat
  BY HorizonAssumption DEF Instant
<1>3. \A p \in Phone : table[p] # None => table[p] \in Challenge
  BY <1>1 DEF RecoveryTyped
<1>4. \A t \in Throttle : table[t] # None => table[t] \in Window
  BY <1>1 DEF RecoveryTyped
<1>5. Len(sent) \in Nat /\ \A i \in 1..Len(sent) : sent[i] \in Send
  BY DEF RecoveryTyped
<1>6. \A i \in 1..Len(sent) : sent[i].at \in Nat
  BY <1>2, <1>5 DEF Send
<1>7. \A s \in Session : pc[s] # "idle" => job[s] \in RecoveryRequest
  BY DEF RecoveryTyped
<1>8. None \notin Session /\ None \notin Window \cup Challenge
  BY SessionAssumption, ThrottleAssumption
<1> QED
  BY <1>1, <1>2, <1>3, <1>4, <1>5, <1>6, <1>7, <1>8 DEF RecoveryTyped

\* The times of a request and of a challenge are numbers.
LEMMA Numbers ==
  /\ Cooldown \in Nat \ {0} /\ CodeLife \in Nat \ {0} /\ SendWindow \in Nat \ {0}
  /\ SendLimit \in Nat \ {0} /\ GuessLimit \in Nat \ {0} /\ MaxRequests \in Nat
  /\ MaxWait \in Nat /\ Day \in Nat
  /\ Instant \subseteq Nat /\ 0 \in Instant
  /\ \A call \in RecoveryRequest : call.at \in Nat /\ call.code \in Nat /\ call.at \in Instant
  /\ \A row \in Challenge :
       row.start \in Nat /\ row.requests \in Nat /\ row.code \in Nat /\ row.last \in Int /\ row.attempts \in Nat
BY CodeAssumption, HorizonAssumption DEF Instant, RecoveryRequest, Challenge

\* The sessions and the locks in a step of one session.
RecoveryMoves(s) ==
  /\ pc' \in [Session -> RecoveryPc] /\ job' \in [Session -> RecoveryRequest \cup {None}]
  /\ draft' = [q \in Session |-> draft'[q]]
  /\ IF pc'[s] = "idle" THEN job'[s] = None ELSE job'[s] \in RecoveryRequest
  /\ \A q \in Session \ {s} : pc'[q] = pc[q] /\ job'[q] = job[q] /\ draft'[q] = draft[q]
  /\ lock' \in [RecoveryRow -> Session \cup {None}]
  /\ \A x \in RecoveryRow : \A q \in Session \ {s} : lock[x] = q => lock'[x] = q
  /\ clock' = clock

\* The codes of a phone are the same.
SameSends(p) == Sends(p)' = Sends(p) /\ \A i \in Sends(p) : sent'[i] = sent[i]

\* The others rely on the rows they locked, and on the codes they deliver.
Relied(s) ==
  /\ \A p \in Phone : lock[p] \in Session \ {s} => table'[p] = table[p] /\ SameSends(p)
  /\ Len(sent') \in Nat /\ Len(sent) <= Len(sent')
  /\ \A c \in delivered' \ delivered : DeliveringCode(s) /\ c = job[s].code
  /\ DeliveringCode(s)' => \/ DeliveringCode(s) /\ job'[s].code = job[s].code
                       \/ job'[s].code > Len(sent)

\* What the other sessions know stays true.
LEMMA OthersKnowRecovery ==
  ASSUME RecoveryInv, NEW s \in Session, RecoveryMoves(s), Relied(s), NEW q \in Session \ {s}
  PROVE  DraftOf(q)' /\ RecoveryKnows(q)'
<1>1. RecoveryTyped /\ DraftOf(q) /\ RecoveryKnows(q) /\ q \in Session
  BY DEF RecoveryInv
<1>2. /\ pc'[q] = pc[q] /\ job'[q] = job[q] /\ draft'[q] = draft[q] /\ clock' = clock
      /\ \A x \in RecoveryRow : lock[x] = q => lock'[x] = q
  BY DEF RecoveryMoves
<1>3. ASSUME NEW x \in DOMAIN draft[q]
      PROVE  /\ x \in RecoveryRow /\ lock'[x] = q
             /\ x \notin Phone => draft[q][x] \in Window \cup {None}
             /\ x \in Phone => IF draft[q][x] = None THEN table'[x] # None /\ table'[x].start + Day < job[q].at
                               ELSE /\ pc[q] = "select" /\ job[q].row = x /\ draft[q][x] = FreshReading(q)
                                    /\ PacedBefore(x, job[q].at)'
  <2>1. x \in RecoveryRow /\ lock[x] = q /\ lock'[x] = q
    BY <1>1, <1>2, <1>3 DEF DraftOf
  <2>2. CASE x \notin Phone
    BY <1>1, <1>3, <2>1, <2>2 DEF DraftOf
  <2>3. CASE x \in Phone
    <3>1. table'[x] = table[x] /\ SameSends(x)
      BY <2>1, <2>3 DEF Relied
    <3>2. ASSUME PacedBefore(x, job[q].at)
          PROVE  PacedBefore(x, job[q].at)'
      BY <1>2, <3>1, <3>2 DEF PacedBefore, SameSends
    <3> QED
      BY <1>1, <1>3, <2>1, <2>3, <3>1, <3>2 DEF DraftOf
  <2> QED
    BY <2>2, <2>3
<1>4. DraftOf(q)'
  <2>1. FreshReading(q)' = FreshReading(q)
    BY <1>2 DEF FreshReading
  <2> QED
    BY <1>2, <1>3, <2>1 DEF DraftOf
<1>5. RecoveryKnows(q)'
  <2>1. pc[q] # "idle" => job[q].at <= clock' /\ clock' <= job[q].at + MaxWait /\ job[q].code <= Len(sent')
    <3>1. ASSUME pc[q] # "idle"
          PROVE  job[q].code \in Nat /\ job[q].code <= Len(sent)
      BY <1>1, <3>1, RecoveryShapes, Numbers DEF RecoveryKnows
    <3> QED
      BY <1>1, <1>2, <3>1, RecoveryShapes DEF RecoveryKnows, Relied
  <2>2. pc[q] \in {"deliver", "withdraw"} => job[q].code \in (1..Len(sent')) \ delivered'
    <3>1. ASSUME pc[q] \in {"deliver", "withdraw"}
          PROVE  job[q].code \in 1..Len(sent) /\ job[q].code \notin delivered /\ DeliveringCode(q)
      BY <1>1, <3>1 DEF RecoveryKnows, DeliveringCode
    <3>2. ASSUME pc[q] \in {"deliver", "withdraw"}
          PROVE  job[q].code \notin delivered'
      BY <3>1, <3>2 DEF Relied, RecoveryInv, OwnCodes
    <3> QED
      BY <1>1, <3>1, <3>2, RecoveryShapes DEF Relied
  <2>3. Verifying(q)' <=> Verifying(q)
    BY <1>2 DEF Verifying
  <2> QED
    BY <1>1, <1>2, <2>1, <2>2, <2>3 DEF RecoveryKnows
<1> QED
  BY <1>4, <1>5

\* Codes being delivered stay different.
LEMMA CodesStayOwn ==
  ASSUME RecoveryInv, NEW s \in Session, RecoveryMoves(s), Relied(s)
  PROVE  OwnCodes'
<1>1. RecoveryTyped /\ OwnCodes /\ \A q \in Session : RecoveryKnows(q)
  BY DEF RecoveryInv
<1>2. ASSUME NEW q \in Session \ {s}
      PROVE  /\ DeliveringCode(q)' <=> DeliveringCode(q)
             /\ job'[q].code = job[q].code
             /\ DeliveringCode(q) => job[q].code \in 1..Len(sent)
  BY <1>1 DEF RecoveryMoves, DeliveringCode, RecoveryKnows
<1>3. ASSUME NEW q \in Session \ {s}, DeliveringCode(q), DeliveringCode(s)', job'[q].code = job'[s].code
      PROVE  FALSE
  <2>1. job[q].code \in 1..Len(sent) /\ Len(sent) \in Nat
    BY <1>1, <1>2, <1>3, RecoveryShapes
  <2>2. CASE DeliveringCode(s) /\ job'[s].code = job[s].code
    BY <1>1, <1>2, <1>3, <2>2 DEF OwnCodes
  <2>3. CASE job'[s].code > Len(sent)
    BY <1>2, <1>3, <2>1, <2>3
  <2> QED
    BY <1>3, <2>2, <2>3 DEF Relied
<1>4. ASSUME NEW r \in Session, NEW q \in Session, DeliveringCode(r)', DeliveringCode(q)', job'[r].code = job'[q].code
      PROVE  r = q
  <2>1. CASE r = s
    BY <1>2, <1>3, <1>4, <2>1
  <2>2. CASE q = s
    BY <1>2, <1>3, <1>4, <2>2
  <2>3. CASE r # s /\ q # s
    BY <1>1, <1>2, <1>4, <2>3 DEF OwnCodes
  <2> QED
    BY <2>1, <2>2, <2>3
<1> QED
  BY <1>4 DEF OwnCodes, DeliveringCode

\* A step of one session, put together.
LEMMA StepOf ==
  ASSUME RecoveryInv, NEW s \in Session, RecoveryMoves(s), Relied(s), DraftOf(s)', RecoveryKnows(s)',
         asked' \in 0..MaxRequests,
         table' \in [RecoveryRow -> Window \cup Challenge \cup {None}],
         \A x \in RecoveryRow : table'[x] # None => table'[x] \in IF x \in Phone THEN Challenge ELSE Window,
         sent' \in Seq(Send), (delivered' \cup recovered') \subseteq 1..Len(sent'),
         CodesSpaced', \A p \in Phone : PhoneOK(p)', \A c \in 1..Len(sent') : CodeOK(c)'
  PROVE  RecoveryInv'
<1>1. \A q \in Session : DraftOf(q)' /\ RecoveryKnows(q)'
  BY OthersKnowRecovery
<1>2. RecoveryTyped'
  <2>1. \A q \in Session : IF pc'[q] = "idle" THEN job'[q] = None ELSE job'[q] \in RecoveryRequest
    BY DEF RecoveryInv, RecoveryTyped, RecoveryMoves
  <2> QED
    BY <2>1 DEF RecoveryInv, RecoveryTyped, RecoveryMoves
<1> QED
  BY <1>1, <1>2, CodesStayOwn DEF RecoveryInv
-----------------------------------------------------------------------------
\* A step that stores nothing and draws, delivers or accepts no code.
LEMMA Quiet ==
  ASSUME RecoveryInv, NEW s \in Session, RecoveryMoves(s), DraftOf(s)', RecoveryKnows(s)', asked' \in 0..MaxRequests,
         UNCHANGED <<table, sent, delivered, recovered>>,
         pc'[s] # "idle" => (pc[s] # "idle" /\ job'[s].at = job[s].at) \/ job'[s].at = clock,
         DeliveringCode(s)' => pc[s] = "deliver" /\ pc'[s] = "withdraw" /\ job'[s].code = job[s].code
  PROVE  RecoveryInv'
<1>1. RecoveryTyped /\ clock' = clock
  BY DEF RecoveryInv, RecoveryMoves
<1>2. Relied(s)
  BY <1>1, RecoveryShapes DEF Relied, SameSends, Sends, DeliveringCode
<1>3. ASSUME NEW p \in Phone
      PROVE  PhoneOK(p)'
  <2>1. PhoneOK(p) /\ table' = table /\ Sends(p)' = Sends(p) /\ sent' = sent
    BY DEF RecoveryInv, Sends
  <2>2. CASE table[p] = None
    <3>1. PacedBefore(p, clock) /\ \A q \in Session : pc[q] # "idle" => PacedBefore(p, job[q].at)
      BY <2>1, <2>2 DEF PhoneOK
    <3>2. \A t \in Nat : PacedBefore(p, t) => PacedBefore(p, t)'
      BY <2>1 DEF PacedBefore
    <3>3. PacedBefore(p, clock)'
      BY <1>1, <2>1, <3>1 DEF PacedBefore
    <3>4. ASSUME NEW q \in Session, pc'[q] # "idle"
          PROVE  PacedBefore(p, job[q].at)'
      <4>1. job'[q].at = clock \/ (pc[q] # "idle" /\ job'[q].at = job[q].at)
        BY <3>4 DEF RecoveryMoves
      <4> QED
        BY <2>1, <3>1, <4>1 DEF PacedBefore
    <3> QED
      BY <2>1, <2>2, <3>3, <3>4 DEF PhoneOK
  <2>3. CASE table[p] # None
    BY <2>1, <2>3 DEF PhoneOK
  <2> QED
    BY <2>2, <2>3
<1>4. ASSUME NEW c \in 1..Len(sent')
      PROVE  CodeOK(c)'
  <2>1. CodeOK(c) /\ sent' = sent /\ table' = table
    BY <1>4 DEF RecoveryInv
  <2>2. Promised(c)' => Promised(c)
    <3>1. ASSUME NEW q \in Session, pc'[q] = "deliver"
          PROVE  pc[q] = "deliver" /\ job'[q].code = job[q].code
      BY <3>1 DEF RecoveryMoves, DeliveringCode
    <3> QED
      BY <3>1 DEF Promised
  <2> QED
    BY <1>1, <2>1, <2>2 DEF CodeOK
<1>5. CodesSpaced' /\ sent' \in Seq(Send) /\ (delivered' \cup recovered') \subseteq 1..Len(sent')
  BY <1>1 DEF RecoveryInv, CodesSpaced, RecoveryTyped
<1>6. /\ table' \in [RecoveryRow -> Window \cup Challenge \cup {None}]
      /\ \A x \in RecoveryRow : table'[x] # None => table'[x] \in IF x \in Phone THEN Challenge ELSE Window
  BY <1>1 DEF RecoveryTyped
<1> QED
  BY <1>2, <1>3, <1>4, <1>5, <1>6, StepOf

\* A request that ends has no draft, no lock and nothing to deliver.
LEMMA Ended ==
  ASSUME RecoveryTyped, NEW s \in Session, Answer(s), Release(s), clock' = clock,
         draft' = [draft EXCEPT ![s] = NoDraft]
  PROVE  RecoveryMoves(s) /\ pc'[s] = "idle" /\ DraftOf(s)' /\ RecoveryKnows(s)' /\ ~DeliveringCode(s)'
<1>1. pc' = [pc EXCEPT ![s] = "idle"] /\ job' = [job EXCEPT ![s] = None] /\ "idle" \in RecoveryPc
  BY DEF Answer, RecoveryPc
<1>2. /\ lock' \in [RecoveryRow -> Session \cup {None}]
      /\ \A x \in RecoveryRow : \A q \in Session \ {s} : lock[x] = q => lock'[x] = q
  BY RecoveryShapes DEF Release
<1>3. pc'[s] = "idle" /\ job'[s] = None /\ draft'[s] = NoDraft
  BY <1>1, RecoveryShapes
<1>4. RecoveryMoves(s)
  BY <1>1, <1>2, <1>3, RecoveryShapes DEF RecoveryMoves
<1>5. DOMAIN draft'[s] = {}
  BY <1>3 DEF NoDraft
<1> QED
  BY <1>3, <1>4, <1>5 DEF DraftOf, RecoveryKnows, Verifying, DeliveringCode

\* A lost request and one whose row is gone leave everything as it was committed.
LEMMA LostKeeps ==
  ASSUME RecoveryInv, NEW s \in Session, AbortRecovery(s) \/ RowGone(s)
  PROVE  RecoveryInv'
<1>1. /\ Answer(s) /\ Release(s) /\ draft' = [draft EXCEPT ![s] = NoDraft]
      /\ UNCHANGED <<clock, asked, table, sent, delivered, recovered>>
  BY DEF AbortRecovery, RowGone, history
<1>2. RecoveryTyped /\ asked' \in 0..MaxRequests
  BY <1>1 DEF RecoveryInv, RecoveryTyped
<1> QED
  BY <1>1, <1>2, Ended, Quiet

\* A request that begins has read nothing.
LEMMA AskKeeps ==
  ASSUME RecoveryInv, NEW s \in Session, NEW step \in {"purge", "insert"}, NEW call \in RecoveryRequest,
         Ask(s, step, call), call.at = clock, call.code <= Len(sent),
         step = "insert" => call.row \in {"verify_ip"} \X Address
  PROVE  RecoveryInv'
<1>1. RecoveryTyped /\ DraftOf(s) /\ RecoveryKnows(s) /\ pc[s] = "idle"
  BY DEF RecoveryInv, Ask, Begin
<1>2. /\ pc' = [pc EXCEPT ![s] = step] /\ job' = [job EXCEPT ![s] = call]
      /\ UNCHANGED <<lock, clock, table, draft, sent, delivered, recovered>>
      /\ asked' = asked + 1 /\ asked < MaxRequests
  BY DEF Ask, Begin
<1>3. pc'[s] = step /\ job'[s] = call /\ draft'[s] = draft[s] /\ step \in RecoveryPc /\ step # "idle"
  BY <1>1, <1>2, RecoveryShapes DEF RecoveryPc
<1>4. RecoveryMoves(s)
  BY <1>1, <1>2, <1>3, RecoveryShapes DEF RecoveryMoves
<1>5. DOMAIN draft'[s] = {}
  BY <1>1, <1>3 DEF RecoveryKnows
<1>6. DraftOf(s)' /\ ~DeliveringCode(s)'
  BY <1>3, <1>5 DEF DraftOf, DeliveringCode
<1>7. RecoveryKnows(s)'
  <2>1. clock <= clock + MaxWait /\ clock <= clock
    BY <1>1, RecoveryShapes, Numbers
  <2>2. step = "insert" => call.row \in Throttle
    BY DEF Throttle
  <2>3. call.at <= clock' /\ clock' <= call.at + MaxWait /\ call.code <= Len(sent')
    BY <1>2, <2>1
  <2> QED
    BY <1>3, <1>5, <2>2, <2>3 DEF RecoveryKnows, Verifying
<1>8. asked' \in 0..MaxRequests
  BY <1>1, <1>2, Numbers DEF RecoveryTyped
<1> QED
  BY <1>2, <1>3, <1>4, <1>6, <1>7, <1>8, Quiet

\* A delivery that fails leads to the withdrawal of its code.
LEMMA FailKeeps ==
  ASSUME RecoveryInv, NEW s \in Session, FailDelivery(s)
  PROVE  RecoveryInv'
<1>1. /\ pc[s] = "deliver" /\ pc' = [pc EXCEPT ![s] = "withdraw"]
      /\ UNCHANGED <<job, lock, clock, asked, table, draft, sent, delivered, recovered>>
  BY DEF FailDelivery, Goto, history
<1>2. RecoveryTyped /\ DraftOf(s) /\ RecoveryKnows(s) /\ "withdraw" \in RecoveryPc /\ job[s] \in RecoveryRequest
  BY <1>1 DEF RecoveryInv, RecoveryPc, RecoveryTyped
<1>3. pc'[s] = "withdraw" /\ job'[s] = job[s] /\ draft'[s] = draft[s]
  BY <1>1, <1>2, RecoveryShapes
<1>4. RecoveryMoves(s)
  BY <1>1, <1>2, <1>3, RecoveryShapes DEF RecoveryMoves
<1>5. DOMAIN draft[s] = {}
  BY <1>1, <1>2 DEF RecoveryKnows
<1>6. DraftOf(s)'
  BY <1>3, <1>5 DEF DraftOf
<1>7. RecoveryKnows(s)'
  BY <1>1, <1>2, <1>3, <1>5 DEF RecoveryKnows, Verifying
<1>8. asked' \in 0..MaxRequests
  BY <1>1, <1>2 DEF RecoveryTyped
<1> QED
  BY <1>1, <1>3, <1>4, <1>6, <1>7, <1>8, Quiet DEF DeliveringCode
-----------------------------------------------------------------------------
\* A write of a draft.
LEMMA DraftWritten ==
  ASSUME RecoveryTyped, NEW s \in Session, NEW x, NEW row, Write(s, x, row)
  PROVE  /\ DOMAIN draft'[s] = DOMAIN draft[s] \cup {x} /\ draft'[s][x] = row
         /\ \A y \in DOMAIN draft[s] : y # x => draft'[s][y] = draft[s][y]
         /\ draft' = [q \in Session |-> draft'[q]]
         /\ \A q \in Session \ {s} : draft'[q] = draft[q]
<1>1. draft' = [draft EXCEPT ![s] = Put(draft[s], x, row)]
  BY DEF Write
<1>2. draft'[s] = Put(draft[s], x, row)
  BY <1>1, RecoveryShapes
<1>3. draft' = [q \in Session |-> draft'[q]] /\ \A q \in Session \ {s} : draft'[q] = draft[q]
  BY <1>1, RecoveryShapes
<1> QED
  BY <1>2, <1>3 DEF Put

\* Taking the lock of a row that no other session holds.
LEMMA Held ==
  ASSUME RecoveryTyped, NEW s \in Session, NEW x \in RecoveryRow, lock[x] \in {None, s}, Hold(s, x)
  PROVE  /\ lock' \in [RecoveryRow -> Session \cup {None}] /\ lock'[x] = s
         /\ \A y \in RecoveryRow : \A q \in Session \ {s} : lock[y] = q => lock'[y] = q
         /\ \A y \in RecoveryRow : lock[y] = s => lock'[y] = s
BY RecoveryShapes DEF Hold

\* Codes of a phone whose row is old are a cooldown before the request that found it old.
LEMMA OldIsPaced ==
  ASSUME RecoveryInv, NEW p \in Phone, table[p] # None, NEW t \in Nat, table[p].start + Day < t
  PROVE  /\ \A i \in Sends(p) : sent[i].at + CodeLife <= t
         /\ \A u \in Nat : t <= u + MaxWait => PacedBefore(p, u)
<1>1. RecoveryTyped /\ PhoneOK(p)
  BY DEF RecoveryInv
<1>2. table[p] \in Challenge
  BY <1>1, RecoveryShapes
<1>3. PICK b \in Nat, l \in Int : b = table[p].start /\ l = table[p].last
  BY <1>2, Numbers
<1>4. l < b + SendWindow /\ \A i \in Sends(p) : sent[i].at <= l
  BY <1>1, <1>3 DEF PhoneOK
<1>5. \A i \in Sends(p) : sent[i].at \in Nat
  BY <1>1, RecoveryShapes DEF Sends
<1>6. \A n \in Nat : n <= l => n + CodeLife <= t
  BY <1>3, <1>4, DayAssumption, Numbers
<1>7. \A n, u \in Nat : n <= l /\ t <= u + MaxWait => n + Cooldown <= u
  BY <1>3, <1>4, DayAssumption, Numbers
<1> QED
  BY <1>4, <1>5, <1>6, <1>7 DEF PacedBefore

\* A deletion of an old row waits for its lock, and is a draft until the commit.
LEMMA PurgeKeeps ==
  ASSUME RecoveryInv, NEW s \in Session, NEW x \in RecoveryRow, PurgeRow(s, x)
  PROVE  RecoveryInv'
<1>1. /\ pc[s] = "purge" /\ x \in OldRows(s) /\ lock[x] = None /\ Hold(s, x) /\ Write(s, x, None)
      /\ UNCHANGED <<pc, job, clock, asked, table, sent, delivered, recovered>>
  BY DEF PurgeRow, history
<1>2. RecoveryTyped /\ DraftOf(s) /\ RecoveryKnows(s) /\ job[s] \in RecoveryRequest /\ None \notin Session
  BY <1>1, RecoveryShapes DEF RecoveryInv
<1>3. x \notin DOMAIN draft[s]
  BY <1>1, <1>2 DEF DraftOf
<1>4. table[x] # None /\ table[x].start + Day < job[s].at
  BY <1>1, <1>3 DEF OldRows, Seen
<1>5. /\ DOMAIN draft'[s] = DOMAIN draft[s] \cup {x} /\ draft'[s][x] = None
      /\ \A y \in DOMAIN draft[s] : y # x => draft'[s][y] = draft[s][y]
      /\ draft' = [q \in Session |-> draft'[q]]
      /\ \A q \in Session \ {s} : draft'[q] = draft[q]
  BY <1>1, <1>2, DraftWritten
<1>6. /\ lock' \in [RecoveryRow -> Session \cup {None}] /\ lock'[x] = s
      /\ \A y \in RecoveryRow : \A q \in Session \ {s} : lock[y] = q => lock'[y] = q
      /\ \A y \in RecoveryRow : lock[y] = s => lock'[y] = s
  BY <1>1, <1>2, Held
<1>7. RecoveryMoves(s)
  BY <1>1, <1>2, <1>5, <1>6, RecoveryShapes DEF RecoveryMoves
<1>8. DraftOf(s)'
  BY <1>1, <1>2, <1>3, <1>4, <1>5, <1>6 DEF DraftOf
<1>9. RecoveryKnows(s)'
  BY <1>1, <1>2 DEF RecoveryKnows, Verifying
<1>10. asked' \in 0..MaxRequests
  BY <1>1, <1>2 DEF RecoveryTyped
<1> QED
  BY <1>1, <1>7, <1>8, <1>9, <1>10, Quiet DEF DeliveringCode

\* A request goes on to its next row.
LEMMA Entered ==
  ASSUME RecoveryTyped, NEW s \in Session, job[s] \in RecoveryRequest,
         NEW row \in Throttle, EnterThrottle(s, row) \/ EnterChallenge(s)
  PROVE  /\ job' \in [Session -> RecoveryRequest \cup {None}] /\ job'[s] \in RecoveryRequest
         /\ \A q \in Session \ {s} : job'[q] = job[q]
         /\ job'[s].at = job[s].at /\ job'[s].code = job[s].code /\ job'[s].phone = job[s].phone
         /\ EnterThrottle(s, row) => job'[s].row = row
         /\ EnterChallenge(s) => job'[s].row = job[s].phone
<1>1. PICK call \in RecoveryRequest : call = job[s]
  OBVIOUS
<1>2. clock \in Instant /\ row \in RecoveryRow /\ call.phone \in Phone /\ call.phone \in RecoveryRow /\ 0 \in Instant
  BY <1>1, RecoveryShapes, Numbers DEF RecoveryRequest
<1>3. CASE EnterThrottle(s, row)
  <2> DEFINE new == [call EXCEPT !.row = row, !.now = clock]
  <2>1. job' = [job EXCEPT ![s] = new]
    BY <1>1, <1>3, RecoveryShapes DEF EnterThrottle
  <2>2. new \in RecoveryRequest /\ new.at = call.at /\ new.code = call.code /\ new.phone = call.phone /\ new.row = row
    BY <1>2 DEF RecoveryRequest
  <2> HIDE DEF new
  <2>3. /\ job' \in [Session -> RecoveryRequest \cup {None}] /\ job'[s] = new
        /\ \A q \in Session \ {s} : job'[q] = job[q]
    BY <2>1, <2>2, RecoveryShapes
  <2>4. EnterChallenge(s) => new.row = call.phone
    <3>1. ASSUME EnterChallenge(s)
          PROVE  job'[s].row = job[s].phone
      <4>1. job' = [job EXCEPT ![s] = [call EXCEPT !.row = call.phone, !.now = 0]]
        BY <1>1, <3>1, RecoveryShapes DEF EnterChallenge
      <4>2. job'[s] = [call EXCEPT !.row = call.phone, !.now = 0]
        BY <4>1, RecoveryShapes
      <4> QED
        BY <1>1, <4>2 DEF RecoveryRequest
    <3> QED
      BY <1>1, <2>3, <3>1
  <2> QED
    BY <1>1, <2>2, <2>3, <2>4
<1>4. CASE EnterChallenge(s) /\ ~EnterThrottle(s, row)
  <2> DEFINE new == [call EXCEPT !.row = call.phone, !.now = 0]
  <2>1. job' = [job EXCEPT ![s] = new]
    BY <1>1, <1>4, RecoveryShapes DEF EnterChallenge
  <2>2. /\ new \in RecoveryRequest /\ new.at = call.at /\ new.code = call.code /\ new.phone = call.phone
        /\ new.row = call.phone
    BY <1>2 DEF RecoveryRequest
  <2> HIDE DEF new
  <2>3. /\ job' \in [Session -> RecoveryRequest \cup {None}] /\ job'[s] = new
        /\ \A q \in Session \ {s} : job'[q] = job[q]
    BY <2>1, <2>2, RecoveryShapes
  <2> QED
    BY <1>1, <1>4, <2>2, <2>3
<1> QED
  BY <1>3, <1>4

\* After the deletions the request turns to the throttle of its address.
LEMMA PurgedKeeps ==
  ASSUME RecoveryInv, NEW s \in Session, PurgeDone(s)
  PROVE  RecoveryInv'
<1>1. /\ pc[s] = "purge" /\ pc' = [pc EXCEPT ![s] = "insert"]
      /\ EnterThrottle(s, <<"issue_ip", job[s].address>>)
      /\ UNCHANGED <<lock, clock, asked, table, draft, sent, delivered, recovered>>
  BY DEF PurgeDone, Goto, history
<1>2. RecoveryTyped /\ DraftOf(s) /\ RecoveryKnows(s) /\ job[s] \in RecoveryRequest /\ "insert" \in RecoveryPc
  BY <1>1, RecoveryShapes DEF RecoveryInv, RecoveryPc
<1>3. PICK row \in Throttle : row = <<"issue_ip", job[s].address>>
  BY <1>2 DEF Throttle, RecoveryRequest
<1>4. pc'[s] = "insert" /\ draft'[s] = draft[s]
  BY <1>1, <1>2, RecoveryShapes
<1>5. /\ job' \in [Session -> RecoveryRequest \cup {None}] /\ job'[s] \in RecoveryRequest
      /\ \A q \in Session \ {s} : job'[q] = job[q]
      /\ job'[s].at = job[s].at /\ job'[s].code = job[s].code /\ job'[s].row = row
  BY <1>1, <1>2, <1>3, Entered
<1>6. RecoveryMoves(s)
  BY <1>1, <1>2, <1>4, <1>5, RecoveryShapes DEF RecoveryMoves
<1>7. DraftOf(s)'
  BY <1>1, <1>2, <1>4, <1>5 DEF DraftOf
<1>8. row \notin {"verify_ip"} \X Address
  BY <1>3
<1>9. RecoveryKnows(s)'
  BY <1>1, <1>2, <1>4, <1>5, <1>8 DEF RecoveryKnows, Verifying
<1>10. asked' \in 0..MaxRequests
  BY <1>1, <1>2 DEF RecoveryTyped
<1> QED
  BY <1>1, <1>4, <1>5, <1>6, <1>7, <1>9, <1>10, Quiet DEF DeliveringCode
-----------------------------------------------------------------------------
\* The row a request sees and has not deleted has the type of its table.
LEMMA SeenTyped ==
  ASSUME RecoveryInv, NEW s \in Session, NEW x \in RecoveryRow, Seen(s, x) # None
  PROVE  /\ x \in Throttle => Seen(s, x) \in Window
         /\ x \in Phone => \/ x \notin DOMAIN draft[s] /\ Seen(s, x) = table[x] /\ table[x] \in Challenge
                           \/ x \in DOMAIN draft[s] /\ Seen(s, x) = draft[s][x] /\ draft[s][x] # None
<1>1. RecoveryTyped /\ DraftOf(s)
  BY DEF RecoveryInv
<1>2. CASE x \in DOMAIN draft[s]
  <2>1. Seen(s, x) = draft[s][x] /\ (x \notin Phone => draft[s][x] \in Window \cup {None})
    BY <1>1, <1>2 DEF Seen, DraftOf
  <2> QED
    BY <1>1, <1>2, <2>1, RecoveryShapes
<1>3. CASE x \notin DOMAIN draft[s]
  BY <1>1, <1>3, RecoveryShapes DEF Seen
<1> QED
  BY <1>2, <1>3

\* A phone without a row has no codes that pace the request.
LEMMA MissingIsPaced ==
  ASSUME RecoveryInv, NEW s \in Session, NEW p \in Phone, pc[s] # "idle", Seen(s, p) = None
  PROVE  PacedBefore(p, job[s].at)
<1>1. RecoveryTyped /\ DraftOf(s) /\ PhoneOK(p) /\ RecoveryKnows(s) /\ job[s] \in RecoveryRequest
  BY RecoveryShapes DEF RecoveryInv
<1>2. CASE p \in DOMAIN draft[s]
  <2>1. table[p] # None /\ table[p].start + Day < job[s].at
    BY <1>1, <1>2 DEF DraftOf, Seen
  <2>2. job[s].at \in Nat /\ job[s].at <= job[s].at + MaxWait
    BY <1>1, Numbers
  <2> QED
    BY <2>1, <2>2, OldIsPaced
<1>3. CASE p \notin DOMAIN draft[s]
  BY <1>1, <1>3 DEF Seen, PhoneOK
<1> QED
  BY <1>2, <1>3

\* A row is inserted when the request sees none.
LEMMA InsertMissingKeeps ==
  ASSUME RecoveryInv, NEW s \in Session, InsertMissing(s)
  PROVE  RecoveryInv'
<1>1. PICK x \in RecoveryRow : x = job[s].row
  <2>1. pc[s] = "insert" /\ RecoveryTyped /\ RecoveryKnows(s)
    BY DEF InsertMissing, Goto, RecoveryInv
  <2> QED
    BY <2>1, RecoveryShapes DEF RecoveryKnows, RecoveryRequest
<1>2. /\ pc[s] = "insert" /\ pc' = [pc EXCEPT ![s] = "select"] /\ lock[x] \in {None, s}
      /\ UNCHANGED <<job, clock, asked, table, sent, delivered, recovered>>
      /\ IF Seen(s, x) # None THEN UNCHANGED <<lock, draft>> ELSE Hold(s, x) /\ Write(s, x, EmptyRow(s, x))
  BY <1>1 DEF InsertMissing, Goto, Available, history
<1>3. RecoveryTyped /\ DraftOf(s) /\ RecoveryKnows(s) /\ job[s] \in RecoveryRequest /\ "select" \in RecoveryPc
  BY <1>2, RecoveryShapes DEF RecoveryInv, RecoveryPc
<1>4. pc'[s] = "select" /\ job'[s] = job[s]
  BY <1>2, <1>3, RecoveryShapes
<1>5. asked' \in 0..MaxRequests
  BY <1>2, <1>3 DEF RecoveryTyped
<1>6. CASE Seen(s, x) # None
  <2>1. UNCHANGED <<lock, draft>>
    BY <1>2, <1>6
  <2>2. RecoveryMoves(s)
    BY <1>2, <1>3, <1>4, <2>1, RecoveryShapes DEF RecoveryMoves
  <2>3. DraftOf(s)'
    BY <1>2, <1>3, <1>4, <2>1 DEF DraftOf
  <2>4. RecoveryKnows(s)'
    BY <1>2, <1>3, <1>4, <2>1 DEF RecoveryKnows, Verifying
  <2> QED
    BY <1>2, <1>4, <1>5, <2>2, <2>3, <2>4, Quiet DEF DeliveringCode
<1>7. CASE Seen(s, x) = None
  <2> DEFINE row == EmptyRow(s, x)
  <2>1. Hold(s, x) /\ Write(s, x, row)
    BY <1>2, <1>7
  <2>2. x \notin Phone => row \in Window
    <3>1. x \notin Phone => x \in Throttle
      BY <1>3, RecoveryShapes
    <3>2. job[s].now \in Instant /\ 0 \in Nat
      BY <1>3 DEF RecoveryRequest
    <3> QED
      BY <3>1, <3>2 DEF EmptyRow, Window
  <2>3. x \in Phone => row = FreshReading(s) /\ PacedBefore(x, job[s].at)
    <3>1. x \in Phone => x \notin Throttle
      BY <1>3, RecoveryShapes
    <3> QED
      BY <1>2, <1>7, <3>1, MissingIsPaced DEF EmptyRow, FreshReading
  <2> HIDE DEF row
  <2>4. /\ DOMAIN draft'[s] = DOMAIN draft[s] \cup {x} /\ draft'[s][x] = row
        /\ \A y \in DOMAIN draft[s] : y # x => draft'[s][y] = draft[s][y]
        /\ draft' = [q \in Session |-> draft'[q]]
        /\ \A q \in Session \ {s} : draft'[q] = draft[q]
    BY <1>3, <2>1, DraftWritten
  <2>5. /\ lock' \in [RecoveryRow -> Session \cup {None}] /\ lock'[x] = s
        /\ \A y \in RecoveryRow : \A q \in Session \ {s} : lock[y] = q => lock'[y] = q
        /\ \A y \in RecoveryRow : lock[y] = s => lock'[y] = s
    BY <1>2, <1>3, <2>1, Held
  <2>6. RecoveryMoves(s)
    BY <1>2, <1>3, <1>4, <2>4, <2>5, RecoveryShapes DEF RecoveryMoves
  <2>7. ASSUME NEW y \in DOMAIN draft'[s]
        PROVE  /\ y \in RecoveryRow /\ lock'[y] = s
               /\ y \notin Phone => draft'[s][y] \in Window \cup {None}
               /\ y \in Phone => IF draft'[s][y] = None THEN table[y] # None /\ table[y].start + Day < job[s].at
                                 ELSE job[s].row = y /\ draft'[s][y] = FreshReading(s) /\ PacedBefore(y, job[s].at)
    <3>1. CASE y = x
      <4>1. row # None
        <5>1. x \in Phone => row \in [start : {job[s].at}, requests : {0}, code : {0}, expires : {0},
                                      last : {-Cooldown}, attempts : {0}]
          BY <2>3 DEF FreshReading
        <5>2. x \in Phone => row \in Challenge
          <6>1. job[s].at \in Instant /\ -Cooldown \in Int /\ 0 \in 0..GuessLimit
            BY <1>3, Numbers
          <6> QED
            BY <5>1, <6>1 DEF Challenge
        <5> QED
          BY <1>3, <2>2, <5>2, RecoveryShapes
      <4> QED
        BY <1>1, <2>2, <2>3, <2>4, <2>5, <3>1, <4>1
    <3>2. CASE y # x
      <4>1. y \in DOMAIN draft[s] /\ draft'[s][y] = draft[s][y] /\ lock[y] = s /\ y \in RecoveryRow
        BY <1>3, <2>4, <2>7, <3>2 DEF DraftOf
      <4> QED
        BY <1>2, <1>3, <2>5, <4>1 DEF DraftOf
    <3> QED
      BY <3>1, <3>2
  <2>8. DraftOf(s)'
    <3>1. FreshReading(s)' = FreshReading(s) /\ \A y \in Phone : PacedBefore(y, job[s].at)' <=> PacedBefore(y, job[s].at)
      BY <1>2, <1>4 DEF FreshReading, PacedBefore, Sends
    <3> QED
      BY <1>2, <1>4, <2>7, <3>1 DEF DraftOf
  <2>9. Verifying(s)' => DOMAIN draft'[s] \subseteq Throttle
    <3>1. Verifying(s)' => Verifying(s) /\ x \in Throttle
      BY <1>1, <1>2, <1>4 DEF Verifying, Throttle
    <3> QED
      BY <1>3, <2>4, <3>1 DEF RecoveryKnows
  <2>10. RecoveryKnows(s)'
    BY <1>2, <1>3, <1>4, <2>9 DEF RecoveryKnows
  <2> QED
    BY <1>2, <1>4, <1>5, <2>6, <2>8, <2>10, Quiet DEF DeliveringCode
<1> QED
  BY <1>6, <1>7

\* A throttle that is renewed or not has its type.
LEMMA ThrottleTyped ==
  ASSUME RecoveryInv, NEW s \in Session, NEW t \in Throttle, AtThrottle(s, t)
  PROVE  /\ ThrottleRow(s, t) \in Window
         /\ [ThrottleRow(s, t) EXCEPT !.requests = @ + 1] \in Window
<1>1. RecoveryTyped /\ t \in RecoveryRow /\ Seen(s, t) # None /\ pc[s] = "select"
  BY RecoveryShapes DEF RecoveryInv, AtThrottle
<1>2. Seen(s, t) \in Window /\ job[s].now \in Instant
  BY <1>1, SeenTyped, RecoveryShapes DEF RecoveryRequest
<1>3. ThrottleRow(s, t) \in Window
  BY <1>2 DEF ThrottleRow, Renewed, Window
<1> QED
  BY <1>3 DEF Window

\* A throttle with room counts the request.
LEMMA PassKeeps ==
  ASSUME RecoveryInv, NEW s \in Session, NEW t \in Throttle, PassThrottle(s, t)
  PROVE  RecoveryInv'
<1> DEFINE row == [ThrottleRow(s, t) EXCEPT !.requests = @ + 1]
           step == IF t[1] = "verify_ip" THEN "verify" ELSE "insert"
           next == <<"issue_global", None>>
<1>1. /\ AtThrottle(s, t) /\ Hold(s, t) /\ Write(s, t, row) /\ pc' = [pc EXCEPT ![s] = step]
      /\ IF t[1] = "issue_ip" THEN EnterThrottle(s, next) ELSE EnterChallenge(s)
      /\ UNCHANGED <<clock, asked, table, sent, delivered, recovered>>
  BY DEF PassThrottle, history
<1>2. /\ pc[s] = "select" /\ job[s].row = t /\ lock[t] \in {None, s}
  BY <1>1 DEF AtThrottle, Available
<1>3. RecoveryTyped /\ DraftOf(s) /\ RecoveryKnows(s) /\ job[s] \in RecoveryRequest /\ t \in RecoveryRow /\ t \notin Phone
  BY <1>2, RecoveryShapes DEF RecoveryInv
<1>4. row \in Window /\ step \in RecoveryPc /\ next \in Throttle /\ step \in {"verify", "insert"}
  BY <1>1, ThrottleTyped DEF RecoveryPc, Throttle
<1> HIDE DEF row, step
<1>5. /\ job' \in [Session -> RecoveryRequest \cup {None}] /\ job'[s] \in RecoveryRequest
      /\ \A q \in Session \ {s} : job'[q] = job[q]
      /\ job'[s].at = job[s].at /\ job'[s].code = job[s].code /\ job'[s].phone = job[s].phone
      /\ job'[s].row \in {next, job[s].phone}
  BY <1>1, <1>3, <1>4, Entered
<1>6. /\ DOMAIN draft'[s] = DOMAIN draft[s] \cup {t} /\ draft'[s][t] = row
      /\ \A y \in DOMAIN draft[s] : y # t => draft'[s][y] = draft[s][y]
      /\ draft' = [q \in Session |-> draft'[q]]
      /\ \A q \in Session \ {s} : draft'[q] = draft[q]
  BY <1>1, <1>3, DraftWritten
<1>7. /\ lock' \in [RecoveryRow -> Session \cup {None}] /\ lock'[t] = s
      /\ \A y \in RecoveryRow : \A q \in Session \ {s} : lock[y] = q => lock'[y] = q
      /\ \A y \in RecoveryRow : lock[y] = s => lock'[y] = s
  BY <1>1, <1>2, <1>3, Held
<1>8. pc'[s] = step /\ \A q \in Session \ {s} : pc'[q] = pc[q]
  BY <1>1, <1>3, RecoveryShapes
<1>9. RecoveryMoves(s)
  BY <1>1, <1>3, <1>4, <1>5, <1>6, <1>7, <1>8, RecoveryShapes DEF RecoveryMoves
<1>10. DraftOf(s)'
  <2>1. ASSUME NEW y \in DOMAIN draft'[s]
        PROVE  /\ y \in RecoveryRow /\ lock'[y] = s
               /\ y \notin Phone => draft'[s][y] \in Window \cup {None}
               /\ y \in Phone => draft'[s][y] = None /\ table[y] # None /\ table[y].start + Day < job[s].at
    <3>1. CASE y = t
      BY <1>3, <1>4, <1>6, <1>7, <3>1
    <3>2. CASE y # t
      BY <1>2, <1>3, <1>6, <1>7, <2>1, <3>2 DEF DraftOf
    <3> QED
      BY <3>1, <3>2
  <2> QED
    BY <1>1, <1>5, <2>1 DEF DraftOf
<1>11. RecoveryKnows(s)'
  <2>1. job'[s].row \in Throttle \cup {job[s].phone} /\ job'[s].row \notin {"verify_ip"} \X Address
    <3>1. job[s].phone \in Phone
      BY <1>3 DEF RecoveryRequest
    <3>2. job[s].phone \notin Throttle
      BY <1>3, <3>1, RecoveryShapes
    <3>3. {"verify_ip"} \X Address \subseteq Throttle
      BY DEF Throttle
    <3> QED
      BY <1>4, <1>5, <3>2, <3>3
  <2>2. step = "verify" => DOMAIN draft[s] \subseteq Throttle
    <3>1. t[1] = "verify_ip" => t \in {"verify_ip"} \X Address
      BY DEF Throttle
    <3> QED
      BY <1>2, <1>3, <3>1 DEF RecoveryKnows, Verifying, step
  <2>3. Verifying(s)' => step = "verify"
    BY <1>4, <1>8, <2>1 DEF Verifying
  <2>4. Verifying(s)' => DOMAIN draft'[s] \subseteq Throttle
    BY <1>6, <2>2, <2>3
  <2> QED
    BY <1>1, <1>2, <1>3, <1>4, <1>5, <1>8, <2>1, <2>4 DEF RecoveryKnows
<1>12. asked' \in 0..MaxRequests
  BY <1>1, <1>3 DEF RecoveryTyped
<1> QED
  BY <1>1, <1>2, <1>4, <1>5, <1>8, <1>9, <1>10, <1>11, <1>12, Quiet DEF DeliveringCode
-----------------------------------------------------------------------------
\* The row of a phone goes with an old challenge.
Removed(s, p) == p \in DOMAIN draft[s] /\ draft[s][p] = None /\ table'[p] = None

\* A phone whose challenge is the same or was old.
LEMMA KeptPhone ==
  ASSUME RecoveryInv, NEW s \in Session, pc[s] # "idle", NEW p \in Phone,
         table'[p] = table[p] \/ Removed(s, p),
         SameSends(p), clock' = clock,
         \A q \in Session : pc'[q] # "idle" => pc[q] # "idle" /\ job'[q].at = job[q].at
  PROVE  PhoneOK(p)'
<1>1. RecoveryTyped /\ PhoneOK(p) /\ DraftOf(s) /\ \A q \in Session : RecoveryKnows(q)
  BY DEF RecoveryInv
<1>2. ASSUME NEW t, PacedBefore(p, t)
      PROVE  PacedBefore(p, t)'
  BY <1>2 DEF PacedBefore, SameSends
<1>3. CASE table'[p] = table[p] /\ table[p] = None
  <2>1. PacedBefore(p, clock)'
    BY <1>1, <1>3 DEF PhoneOK, PacedBefore, SameSends
  <2>2. ASSUME NEW q \in Session, pc'[q] # "idle"
        PROVE  PacedBefore(p, job[q].at)'
    BY <1>1, <1>3, <2>2 DEF PhoneOK, PacedBefore, SameSends
  <2> QED
    BY <1>3, <2>1, <2>2 DEF PhoneOK
<1>4. CASE table'[p] = table[p] /\ table[p] # None
  <2>1. {i \in Sends(p) : sent[i].at >= table[p].start} = {i \in Sends(p)' : sent'[i].at >= table'[p].start}
    BY <1>4 DEF SameSends
  <2> QED
    BY <1>1, <1>4, <2>1 DEF PhoneOK, SameSends
<1>5. CASE Removed(s, p)
  <2>1. table[p] # None /\ table[p].start + Day < job[s].at
    BY <1>1, <1>5 DEF DraftOf, Removed
  <2>2. job[s].at \in Nat /\ job[s].at <= clock /\ clock \in Nat /\ MaxWait \in Nat
    BY <1>1, RecoveryShapes, Numbers DEF RecoveryKnows
  <2>3. job[s].at <= clock + MaxWait
    BY <2>2
  <2>4. PacedBefore(p, clock)
    BY <2>1, <2>2, <2>3, OldIsPaced
  <2>5. ASSUME NEW q \in Session, pc'[q] # "idle"
        PROVE  PacedBefore(p, job[q].at)
    <3>1. pc[q] # "idle" /\ job[q].at \in Nat /\ clock <= job[q].at + MaxWait
      BY <1>1, <2>5, RecoveryShapes, Numbers DEF RecoveryKnows
    <3>2. job[s].at <= job[q].at + MaxWait
      BY <2>2, <3>1
    <3> QED
      BY <2>1, <2>2, <3>1, <3>2, OldIsPaced
  <2>6. PacedBefore(p, clock)'
    BY <2>4 DEF PacedBefore, SameSends
  <2>7. ASSUME NEW q \in Session, pc'[q] # "idle"
        PROVE  PacedBefore(p, job[q].at)'
    BY <2>5, <2>7 DEF PacedBefore, SameSends
  <2> QED
    BY <1>5, <2>6, <2>7 DEF PhoneOK, Removed
<1> QED
  BY <1>3, <1>4, <1>5

\* The codes of such a phone stay usable, unless they had expired.
LEMMA GrownCode ==
  ASSUME RecoveryInv, NEW s \in Session, pc[s] # "idle", NEW c \in 1..Len(sent), NEW p \in Phone, p = sent[c].phone,
         table'[p] = table[p] \/ Removed(s, p),
         clock' = clock, Len(sent') \in Nat, Len(sent) <= Len(sent'), \A i \in 1..Len(sent) : sent'[i] = sent[i],
         recovered \subseteq recovered', Promised(c)' => Promised(c)
  PROVE  CodeOK(c)'
<1>1. RecoveryTyped /\ CodeOK(c) /\ DraftOf(s) /\ RecoveryKnows(s)
  BY DEF RecoveryInv
<1>2. CASE table'[p] = table[p]
  <2>1. \A d \in c + 1..Len(sent) : d \in c + 1..Len(sent') /\ sent'[d] = sent[d]
    BY <1>1, RecoveryShapes
  <2> QED
    BY <1>1, <1>2, <2>1 DEF CodeOK
<1>3. CASE Removed(s, p)
  <2>1. table[p] # None /\ table[p].start + Day < job[s].at
    BY <1>1, <1>3 DEF DraftOf, Removed
  <2>2. job[s].at \in Nat /\ job[s].at <= clock /\ clock \in Nat
    BY <1>1, RecoveryShapes, Numbers DEF RecoveryKnows
  <2>3. c \in Sends(p)
    BY DEF Sends
  <2>4. sent[c].at + CodeLife <= job[s].at /\ sent[c].at + CodeLife \in Nat
    <3>1. sent[c].at + CodeLife <= job[s].at
      BY <2>1, <2>2, <2>3, OldIsPaced
    <3>2. sent[c].at \in Nat /\ CodeLife \in Nat
      BY <1>1, RecoveryShapes, Numbers
    <3> QED
      BY <3>1, <3>2
  <2>5. clock >= sent[c].at + CodeLife
    BY <2>2, <2>4
  <2> QED
    BY <2>5 DEF CodeOK
<1> QED
  BY <1>2, <1>3

\* The same for a step that draws no code.
LEMMA KeptCode ==
  ASSUME RecoveryInv, NEW s \in Session, pc[s] # "idle", NEW c \in 1..Len(sent), NEW p \in Phone, p = sent[c].phone,
         table'[p] = table[p] \/ Removed(s, p),
         UNCHANGED <<clock, sent>>, recovered \subseteq recovered', Promised(c)' => Promised(c)
  PROVE  CodeOK(c)'
<1>1. Len(sent') \in Nat /\ Len(sent) <= Len(sent') /\ \A i \in 1..Len(sent) : sent'[i] = sent[i]
  BY RecoveryShapes DEF RecoveryInv
<1> QED
  BY <1>1, GrownCode

\* What a commit leaves in the tables.
LEMMA Committed ==
  ASSUME RecoveryInv, NEW s \in Session, NEW writes, CommitRows(s, writes)
  PROVE  /\ table' = [x \in RecoveryRow |-> table'[x]]
         /\ \A x \in RecoveryRow : table'[x] = IF x \in DOMAIN writes THEN writes[x] ELSE table[x]
         /\ Release(s) /\ draft' = [draft EXCEPT ![s] = NoDraft]
BY DEF CommitRows

\* The rows of a commit have their types when its writes have.
LEMMA RowsTyped ==
  ASSUME RecoveryTyped, table' = [x \in RecoveryRow |-> table'[x]],
         \A x \in RecoveryRow : table'[x] # table[x] => table'[x] \in IF x \in Phone THEN Challenge \cup {None} ELSE Window \cup {None}
  PROVE  /\ table' \in [RecoveryRow -> Window \cup Challenge \cup {None}]
         /\ \A x \in RecoveryRow : table'[x] # None => table'[x] \in IF x \in Phone THEN Challenge ELSE Window
<1>1. \A x \in RecoveryRow : table'[x] \in Window \cup Challenge \cup {None}
  BY RecoveryShapes
<1>2. ASSUME NEW x \in RecoveryRow, table'[x] # None
      PROVE  table'[x] \in IF x \in Phone THEN Challenge ELSE Window
  <2>1. CASE table'[x] = table[x]
    BY <1>2, <2>1 DEF RecoveryTyped
  <2>2. CASE table'[x] # table[x]
    BY <1>2, <2>2
  <2> QED
    BY <2>1, <2>2
<1> QED
  BY <1>1, <1>2

\* A commit that ends a request and at most removes challenges.
Refusal(s) ==
  /\ pc[s] # "idle" /\ Answer(s) /\ UNCHANGED <<clock, asked, sent, delivered, recovered>>
  /\ \E writes :
       /\ CommitRows(s, writes)
       /\ \A x \in RecoveryRow \ Phone : x \in DOMAIN writes => writes[x] \in Window \cup {None}
  /\ \A p \in Phone :
       /\ table'[p] = table[p] \/ Removed(s, p)
       /\ lock[p] \in Session \ {s} => table'[p] = table[p]

\* It keeps the invariant.
LEMMA RefusalKeeps ==
  ASSUME RecoveryInv, NEW s \in Session, Refusal(s)
  PROVE  RecoveryInv'
<1>11. /\ pc[s] # "idle" /\ Answer(s) /\ UNCHANGED <<clock, asked, sent, delivered, recovered>>
       /\ \A p \in Phone : table'[p] = table[p] \/ Removed(s, p)
       /\ \A p \in Phone : lock[p] \in Session \ {s} => table'[p] = table[p]
  BY DEF Refusal
<1>12. PICK writes :
         /\ CommitRows(s, writes)
         /\ \A x \in RecoveryRow \ Phone : x \in DOMAIN writes => writes[x] \in Window \cup {None}
  BY DEF Refusal
<1>1. RecoveryTyped /\ asked' \in 0..MaxRequests
  BY <1>11 DEF RecoveryInv, RecoveryTyped
<1>2. /\ table' = [x \in RecoveryRow |-> table'[x]]
      /\ \A x \in RecoveryRow : table'[x] = IF x \in DOMAIN writes THEN writes[x] ELSE table[x]
      /\ Release(s) /\ draft' = [draft EXCEPT ![s] = NoDraft]
  BY <1>12, Committed
<1>3. RecoveryMoves(s) /\ pc'[s] = "idle" /\ DraftOf(s)' /\ RecoveryKnows(s)' /\ ~DeliveringCode(s)'
  BY <1>1, <1>2, <1>11, Ended
<1>4. \A p \in Phone : SameSends(p)
  BY <1>11 DEF SameSends, Sends
<1>5. Relied(s)
  BY <1>1, <1>3, <1>4, <1>11, RecoveryShapes DEF Relied
<1>6. \A q \in Session : pc'[q] # "idle" => pc[q] # "idle" /\ job'[q].at = job[q].at
  BY <1>3 DEF RecoveryMoves
<1>7. \A p \in Phone : PhoneOK(p)'
  BY <1>4, <1>6, <1>11, KeptPhone
<1>8. ASSUME NEW c \in 1..Len(sent')
      PROVE  CodeOK(c)'
  <2>1. Promised(c)' => Promised(c)
    BY <1>3, <1>11 DEF Promised, RecoveryMoves
  <2>2. c \in 1..Len(sent) /\ sent[c].phone \in Phone
    BY <1>1, <1>8, <1>11, RecoveryShapes DEF Send
  <2> QED
    BY <1>11, <2>1, <2>2, KeptCode
<1>9. /\ table' \in [RecoveryRow -> Window \cup Challenge \cup {None}]
      /\ \A x \in RecoveryRow : table'[x] # None => table'[x] \in IF x \in Phone THEN Challenge ELSE Window
  <2>1. \A x \in RecoveryRow : table'[x] # table[x] =>
           table'[x] \in IF x \in Phone THEN Challenge \cup {None} ELSE Window \cup {None}
    BY <1>2, <1>11, <1>12 DEF Removed
  <2> QED
    BY <1>1, <1>2, <2>1, RowsTyped
<1>10. CodesSpaced' /\ sent' \in Seq(Send) /\ (delivered' \cup recovered') \subseteq 1..Len(sent')
  BY <1>1, <1>11 DEF RecoveryInv, CodesSpaced, RecoveryTyped
<1> QED
  BY <1>1, <1>3, <1>5, <1>7, <1>8, <1>9, <1>10, StepOf
-----------------------------------------------------------------------------
\* Phones in the draft of a session that is at another row have lost an old challenge.
LEMMA DraftRemoves ==
  ASSUME RecoveryInv, NEW s \in Session, NEW p \in Phone, p \in DOMAIN draft[s], ~(pc[s] = "select" /\ job[s].row = p)
  PROVE  draft[s][p] = None /\ lock[p] = s
BY DEF RecoveryInv, DraftOf

\* A throttle that is full refuses, and commits what the others counted.
LEMMA ThrottleRefuses ==
  ASSUME RecoveryInv, NEW s \in Session, NEW t \in Throttle, RefuseThrottle(s, t)
  PROVE  Refusal(s)
<1> DEFINE row == ThrottleRow(s, t)  writes == Put(draft[s], t, row)
<1>1. /\ AtThrottle(s, t) /\ pc[s] = "select" /\ job[s].row = t
      /\ CommitRows(s, writes) /\ Answer(s)
      /\ UNCHANGED <<clock, asked, sent, delivered, recovered>>
  BY DEF RefuseThrottle, AtThrottle, history
<1>2. RecoveryTyped /\ DraftOf(s) /\ t \in RecoveryRow /\ t \notin Phone /\ None \notin Session
  BY RecoveryShapes DEF RecoveryInv
<1>3. row \in Window
  BY <1>1, ThrottleTyped
<1> HIDE DEF row
<1>4. /\ DOMAIN writes = DOMAIN draft[s] \cup {t} /\ writes[t] = row
      /\ \A y \in DOMAIN draft[s] : y # t => writes[y] = draft[s][y]
  BY DEF Put
<1> HIDE DEF writes
<1>5. \A x \in RecoveryRow : table'[x] = IF x \in DOMAIN writes THEN writes[x] ELSE table[x]
  BY <1>1, Committed
<1>6. ASSUME NEW x \in RecoveryRow \ Phone, x \in DOMAIN writes
      PROVE  writes[x] \in Window \cup {None}
  BY <1>2, <1>3, <1>4, <1>6 DEF DraftOf
<1>7. ASSUME NEW p \in Phone
      PROVE  /\ table'[p] = table[p] \/ Removed(s, p)
             /\ lock[p] \in Session \ {s} => table'[p] = table[p]
  <2>1. p \in RecoveryRow /\ p # t
    BY <1>2, RecoveryShapes
  <2>2. CASE p \in DOMAIN draft[s]
    <3>1. draft[s][p] = None /\ lock[p] = s
      BY <1>1, <2>1, <2>2, DraftRemoves
    <3> QED
      BY <1>4, <1>5, <2>1, <2>2, <3>1 DEF Removed
  <2>3. CASE p \notin DOMAIN draft[s]
    BY <1>4, <1>5, <2>1, <2>3
  <2> QED
    BY <2>2, <2>3
<1> QED
  BY <1>1, <1>6, <1>7 DEF Refusal

\* A code that is not usable refuses and counts the request of the address.
LEMMA UnusableRefuses ==
  ASSUME RecoveryInv, NEW s \in Session, NEW p \in Phone, RejectUnusable(s, p)
  PROVE  Refusal(s)
<1>1. /\ pc[s] = "verify" /\ CommitRows(s, draft[s]) /\ Answer(s)
      /\ UNCHANGED <<clock, asked, sent, delivered, recovered>>
  BY DEF RejectUnusable, Verified, history
<1>2. RecoveryTyped /\ DraftOf(s) /\ DOMAIN draft[s] \subseteq Throttle
  BY <1>1 DEF RecoveryInv, RecoveryKnows, Verifying
<1>3. \A x \in RecoveryRow : table'[x] = IF x \in DOMAIN draft[s] THEN draft[s][x] ELSE table[x]
  BY <1>1, Committed
<1>4. \A q \in Phone : table'[q] = table[q]
  BY <1>2, <1>3, RecoveryShapes
<1>5. \A x \in RecoveryRow \ Phone : x \in DOMAIN draft[s] => draft[s][x] \in Window \cup {None}
  BY <1>2 DEF DraftOf
<1> QED
  BY <1>1, <1>4, <1>5 DEF Refusal

\* A challenge as the request finds it: the committed one, or the one it inserted.
LEMMA ChallengeSeen ==
  ASSUME RecoveryInv, NEW s \in Session, NEW p \in Phone, Challenged(s, p)
  PROVE  /\ pc[s] = "select" /\ job[s].row = p /\ job[s].phone = p /\ job[s] \in RecoveryRequest
         /\ lock[p] \in {None, s}
         /\ \/ /\ p \notin DOMAIN draft[s] /\ Seen(s, p) = table[p]
               /\ table[p] \in Challenge /\ table[p] # None
            \/ /\ p \in DOMAIN draft[s] /\ Seen(s, p) = FreshReading(s) /\ PacedBefore(p, job[s].at)
<1>1. RecoveryTyped /\ DraftOf(s) /\ RecoveryKnows(s) /\ p \in RecoveryRow /\ p \notin Throttle
  BY RecoveryShapes DEF RecoveryInv
<1>2. /\ pc[s] = "select" /\ job[s].row = p /\ Available(s, p) /\ Seen(s, p) # None
  BY DEF Challenged
<1>3. job[s].phone = p /\ job[s] \in RecoveryRequest
  BY <1>1, <1>2, RecoveryShapes DEF RecoveryKnows
<1>4. CASE p \in DOMAIN draft[s]
  BY <1>1, <1>2, <1>3, <1>4 DEF Seen, DraftOf, Available
<1>5. CASE p \notin DOMAIN draft[s]
  BY <1>1, <1>2, <1>3, <1>5, RecoveryShapes DEF Seen, Available
<1> QED
  BY <1>4, <1>5

\* A refused phone keeps its challenge.
LEMMA PhoneRefuses ==
  ASSUME RecoveryInv, NEW s \in Session, NEW p \in Phone, RefusePhone(s, p)
  PROVE  Refusal(s)
<1>1. /\ Challenged(s, p) /\ Answer(s) /\ UNCHANGED <<clock, asked, sent, delivered, recovered>>
  BY DEF RefusePhone, history
<1>2. RecoveryTyped /\ DraftOf(s) /\ None \notin Session
  BY RecoveryShapes DEF RecoveryInv
<1>3. job[s].at \in Nat /\ job[s].at \in Instant
  BY <1>1, ChallengeSeen, Numbers
<1>4. PICK row : /\ CommitRows(s, Put(draft[s], p, row))
                 /\ \/ TooSoon(s, p) /\ row = Seen(s, p)
                    \/ ChallengeRow(s, p).requests >= SendLimit /\ row = ChallengeRow(s, p)
  BY DEF RefusePhone
<1>5. p \notin DOMAIN draft[s] /\ row = table[p]
  <2>1. CASE Seen(s, p) = FreshReading(s)
    <3>1. ~TooSoon(s, p)
      BY <1>3, <2>1, Numbers DEF TooSoon, FreshReading
    <3>2. ChallengeRow(s, p).requests = 0
      BY <2>1 DEF ChallengeRow, Renewed, FreshReading
    <3> QED
      BY <1>4, <3>1, <3>2, Numbers
  <2>2. CASE p \notin DOMAIN draft[s] /\ Seen(s, p) = table[p] /\ table[p] \in Challenge
    <3>1. CASE row = Seen(s, p)
      BY <2>2, <3>1
    <3>2. CASE ChallengeRow(s, p).requests >= SendLimit /\ row = ChallengeRow(s, p)
      <4>1. CASE job[s].at >= table[p].start + SendWindow
        <5>1. ChallengeRow(s, p).requests = 0
          BY <2>2, <4>1 DEF ChallengeRow, Renewed, Challenge
        <5> QED
          BY <3>2, <5>1, Numbers
      <4>2. CASE ~(job[s].at >= table[p].start + SendWindow)
        BY <2>2, <3>2, <4>2 DEF ChallengeRow, Renewed
      <4> QED
        BY <4>1, <4>2
    <3> QED
      BY <1>4, <3>1, <3>2
  <2> QED
    BY <1>1, <2>1, <2>2, ChallengeSeen
<1> DEFINE writes == Put(draft[s], p, row)
<1>6. /\ DOMAIN writes = DOMAIN draft[s] \cup {p} /\ writes[p] = row
      /\ \A y \in DOMAIN draft[s] : y # p => writes[y] = draft[s][y]
  BY DEF Put
<1>7. CommitRows(s, writes)
  BY <1>4
<1> HIDE DEF writes
<1>8. \A x \in RecoveryRow : table'[x] = IF x \in DOMAIN writes THEN writes[x] ELSE table[x]
  BY <1>7, Committed
<1>9. ASSUME NEW x \in RecoveryRow \ Phone, x \in DOMAIN writes
      PROVE  writes[x] \in Window \cup {None}
  BY <1>2, <1>6, <1>9 DEF DraftOf
<1>10. ASSUME NEW q \in Phone
       PROVE  /\ table'[q] = table[q] \/ Removed(s, q)
              /\ lock[q] \in Session \ {s} => table'[q] = table[q]
  <2>1. q \in RecoveryRow
    BY <1>2, RecoveryShapes
  <2>2. CASE q = p
    BY <1>5, <1>6, <1>8, <2>1, <2>2
  <2>3. CASE q # p /\ q \in DOMAIN draft[s]
    <3>1. draft[s][q] = None /\ lock[q] = s
      BY <1>1, <2>3, DraftRemoves, ChallengeSeen
    <3> QED
      BY <1>6, <1>8, <2>1, <2>3, <3>1 DEF Removed
  <2>4. CASE q # p /\ q \notin DOMAIN draft[s]
    BY <1>6, <1>8, <2>1, <2>4
  <2> QED
    BY <2>2, <2>3, <2>4
<1>11. pc[s] # "idle"
  BY <1>1, ChallengeSeen
<1> QED
  BY <1>1, <1>7, <1>9, <1>10, <1>11 DEF Refusal
-----------------------------------------------------------------------------
\* A challenge that changes only its code and its wrong answers counts and paces the same.
LEMMA TouchedPhone ==
  ASSUME RecoveryInv, NEW p \in Phone, table[p] # None, table'[p] # None, SameSends(p),
         table'[p].start = table[p].start, table'[p].last = table[p].last,
         table'[p].requests = table[p].requests
  PROVE  PhoneOK(p)'
<1>1. PhoneOK(p)
  BY DEF RecoveryInv
<1>2. {i \in Sends(p) : sent[i].at >= table[p].start} = {i \in Sends(p)' : sent'[i].at >= table'[p].start}
  BY DEF SameSends
<1> QED
  BY <1>1, <1>2 DEF PhoneOK, SameSends

\* An answer to a code that is usable writes one challenge.
LEMMA VerifiedWrites ==
  ASSUME RecoveryInv, NEW s \in Session, NEW p \in Phone, Verified(s, p),
         NEW row, CommitRows(s, Put(draft[s], p, row))
  PROVE  /\ table' = [x \in RecoveryRow |-> table'[x]] /\ table'[p] = row
         /\ \A q \in Phone \ {p} : table'[q] = table[q]
         /\ \A t \in RecoveryRow \ Phone : table'[t] = table[t] \/ table'[t] \in Window \cup {None}
         /\ Release(s) /\ draft' = [draft EXCEPT ![s] = NoDraft]
<1>1. RecoveryTyped /\ pc[s] = "verify"
  BY DEF RecoveryInv, Verified
<1>2. DraftOf(s) /\ DOMAIN draft[s] \subseteq Throttle
  BY <1>1 DEF RecoveryInv, RecoveryKnows, Verifying
<1> DEFINE writes == Put(draft[s], p, row)
<1>3. /\ DOMAIN writes = DOMAIN draft[s] \cup {p} /\ writes[p] = row
      /\ \A y \in DOMAIN draft[s] : y # p => writes[y] = draft[s][y]
  BY DEF Put
<1>4. CommitRows(s, writes)
  OBVIOUS
<1> HIDE DEF writes
<1>5. /\ table' = [x \in RecoveryRow |-> table'[x]]
      /\ \A x \in RecoveryRow : table'[x] = IF x \in DOMAIN writes THEN writes[x] ELSE table[x]
      /\ Release(s) /\ draft' = [draft EXCEPT ![s] = NoDraft]
  BY <1>4, Committed
<1>6. table'[p] = row /\ \A q \in Phone \ {p} : table'[q] = table[q]
  BY <1>1, <1>2, <1>3, <1>5, RecoveryShapes
<1>7. ASSUME NEW t \in RecoveryRow \ Phone
      PROVE  table'[t] = table[t] \/ table'[t] \in Window \cup {None}
  BY <1>2, <1>3, <1>5, <1>7 DEF DraftOf
<1> QED
  BY <1>5, <1>6, <1>7

\* It keeps the invariant, whether it is right or wrong.
LEMMA VerifiedKeeps ==
  ASSUME RecoveryInv, NEW s \in Session, NEW p \in Phone, Verified(s, p), table[p] # None, Usable(table[p]),
         NEW row \in Challenge, CommitRows(s, Put(draft[s], p, row)), Answer(s),
         row.start = table[p].start, row.last = table[p].last, row.requests = table[p].requests,
         UNCHANGED <<clock, asked, sent, delivered>>, recovered \subseteq recovered',
         recovered' \subseteq 1..Len(sent),
         row.attempts = GuessLimit \/ row.code = table[p].code \/ table[p].code \in recovered'
  PROVE  RecoveryInv'
<1>1. RecoveryTyped /\ asked' \in 0..MaxRequests /\ pc[s] = "verify" /\ lock[p] = None
  BY DEF RecoveryInv, RecoveryTyped, Verified
<1>2. row # None /\ None \notin Session
  BY <1>1, RecoveryShapes
<1>5. /\ table' = [x \in RecoveryRow |-> table'[x]] /\ table'[p] = row
      /\ \A q \in Phone \ {p} : table'[q] = table[q]
      /\ \A t \in RecoveryRow \ Phone : table'[t] = table[t] \/ table'[t] \in Window \cup {None}
      /\ Release(s) /\ draft' = [draft EXCEPT ![s] = NoDraft]
  BY VerifiedWrites
<1>6. table'[p] = row /\ row # None /\ \A q \in Phone \ {p} : table'[q] = table[q]
  BY <1>2, <1>5
<1>7. RecoveryMoves(s) /\ pc'[s] = "idle" /\ DraftOf(s)' /\ RecoveryKnows(s)' /\ ~DeliveringCode(s)'
  BY <1>1, <1>5, Ended
<1>8. \A q \in Phone : SameSends(q)
  BY DEF SameSends, Sends
<1>9. Relied(s)
  <2>1. \A q \in Phone : lock[q] \in Session \ {s} => table'[q] = table[q]
    BY <1>1, <1>2, <1>6
  <2> QED
    BY <1>1, <1>7, <1>8, <2>1, RecoveryShapes DEF Relied
<1>10. ASSUME NEW q \in Phone
       PROVE  PhoneOK(q)'
  <2>1. CASE q = p
    BY <1>6, <1>8, <2>1, TouchedPhone
  <2>2. CASE q # p
    <3>1. \A r \in Session : pc'[r] # "idle" => pc[r] # "idle" /\ job'[r].at = job[r].at
      BY <1>7 DEF RecoveryMoves
    <3> QED
      BY <1>1, <1>6, <1>8, <2>2, <3>1, KeptPhone
  <2> QED
    BY <2>1, <2>2
<1>11. ASSUME NEW c \in 1..Len(sent')
       PROVE  CodeOK(c)'
  <2>1. Promised(c)' => Promised(c)
    BY <1>7 DEF Promised, RecoveryMoves
  <2>2. c \in 1..Len(sent) /\ sent[c].phone \in Phone /\ CodeOK(c)
    BY <1>1, <1>11, RecoveryShapes DEF Send, RecoveryInv
  <2>3. CASE sent[c].phone = p
    <3>1. ~(table[p].attempts = GuessLimit)
      <4>1. table[p].attempts < GuessLimit /\ table[p].attempts \in Nat /\ GuessLimit \in Nat
        BY <1>1, RecoveryShapes, Numbers DEF Usable
      <4> QED
        BY <4>1
    <3> QED
      BY <1>6, <2>1, <2>2, <2>3, <3>1 DEF CodeOK
  <2>4. CASE sent[c].phone # p
    BY <1>1, <1>6, <2>1, <2>2, <2>4, KeptCode
  <2> QED
    BY <2>3, <2>4
<1>12. /\ table' \in [RecoveryRow -> Window \cup Challenge \cup {None}]
       /\ \A x \in RecoveryRow : table'[x] # None => table'[x] \in IF x \in Phone THEN Challenge ELSE Window
  <2>1. \A x \in RecoveryRow : table'[x] # table[x] =>
           table'[x] \in IF x \in Phone THEN Challenge \cup {None} ELSE Window \cup {None}
    BY <1>5, <1>6
  <2> QED
    BY <1>1, <1>5, <2>1, RowsTyped
<1>13. CodesSpaced' /\ sent' \in Seq(Send) /\ (delivered' \cup recovered') \subseteq 1..Len(sent')
  BY <1>1 DEF RecoveryInv, CodesSpaced, RecoveryTyped
<1> QED
  BY <1>1, <1>7, <1>9, <1>10, <1>11, <1>12, <1>13, StepOf

\* The last wrong answer destroys the code, and a right one takes it.
LEMMA AnswersKeep ==
  ASSUME RecoveryInv, NEW s \in Session, NEW p \in Phone, RejectWrong(s, p) \/ AcceptCode(s, p)
  PROVE  RecoveryInv'
<1>1. /\ Verified(s, p) /\ table[p] # None /\ Usable(table[p]) /\ Answer(s)
      /\ UNCHANGED <<clock, asked, sent, delivered>>
  BY DEF RejectWrong, AcceptCode, history
<1>2. RecoveryTyped /\ RecoveryKnows(s) /\ pc[s] = "verify"
  BY <1>1 DEF RecoveryInv, Verified
<1>3. PICK old \in Challenge : old = table[p]
  BY <1>1, <1>2, RecoveryShapes
<1>4. old.attempts + 1 \in 0..GuessLimit /\ old.attempts \in Nat /\ GuessLimit \in Nat /\ old.code \in Nat /\ 0 \in Nat
  BY <1>1, <1>3, Numbers DEF Usable
<1>5. CASE RejectWrong(s, p)
  <2> DEFINE code == IF old.attempts + 1 >= GuessLimit THEN 0 ELSE old.code
             row == [old EXCEPT !.attempts = old.attempts + 1, !.code = code]
  <2>1. CommitRows(s, Put(draft[s], p, row)) /\ recovered' = recovered
    BY <1>3, <1>5 DEF RejectWrong, history
  <2>2. code \in Nat /\ (code = old.code \/ old.attempts + 1 = GuessLimit)
    BY <1>4
  <2> HIDE DEF code
  <2>3. /\ row \in Challenge /\ row.start = old.start /\ row.last = old.last /\ row.requests = old.requests
        /\ row.attempts = old.attempts + 1 /\ row.code = code
    BY <1>4, <2>2 DEF Challenge
  <2> HIDE DEF row
  <2> QED
    BY <1>1, <1>2, <1>3, <2>1, <2>2, <2>3, VerifiedKeeps DEF RecoveryTyped
<1>6. CASE AcceptCode(s, p)
  <2> DEFINE row == [old EXCEPT !.attempts = old.attempts + 1, !.code = 0]
  <2>1. CommitRows(s, Put(draft[s], p, row)) /\ recovered' = recovered \cup {old.code} /\ job[s].code = old.code
    BY <1>3, <1>6 DEF AcceptCode
  <2>2. row \in Challenge /\ row.start = old.start /\ row.last = old.last /\ row.requests = old.requests
    BY <1>4 DEF Challenge
  <2> HIDE DEF row
  <2>3. old.code \in 1..Len(sent)
    <3>1. old.code # 0 /\ old.code <= Len(sent) /\ Len(sent) \in Nat
      BY <1>1, <1>2, <1>3, <2>1, RecoveryShapes DEF Usable, RecoveryKnows
    <3> QED
      BY <1>4, <3>1
  <2> QED
    BY <1>1, <1>2, <1>3, <2>1, <2>2, <2>3, VerifiedKeeps DEF RecoveryTyped
<1> QED
  BY <1>5, <1>6

\* A request that answers after its commit.
LEMMA CodeAnswered ==
  ASSUME RecoveryInv, NEW s \in Session, DeliveringCode(s), Answer(s), UNCHANGED <<lock, clock, draft>>
  PROVE  RecoveryMoves(s) /\ pc'[s] = "idle" /\ DraftOf(s)' /\ RecoveryKnows(s)' /\ ~DeliveringCode(s)'
<1>1. RecoveryTyped /\ DOMAIN draft[s] = {}
  BY DEF RecoveryInv, RecoveryKnows, DeliveringCode
<1>2. pc' = [pc EXCEPT ![s] = "idle"] /\ job' = [job EXCEPT ![s] = None] /\ "idle" \in RecoveryPc
  BY DEF Answer, RecoveryPc
<1>3. pc'[s] = "idle" /\ job'[s] = None /\ draft'[s] = draft[s]
  BY <1>1, <1>2, RecoveryShapes
<1>4. RecoveryMoves(s)
  BY <1>1, <1>2, <1>3, RecoveryShapes DEF RecoveryMoves
<1> QED
  BY <1>1, <1>3, <1>4 DEF DraftOf, RecoveryKnows, Verifying, DeliveringCode

\* A delivered code was drawn and not withdrawn.
LEMMA DeliverKeeps ==
  ASSUME RecoveryInv, NEW s \in Session, Deliver(s)
  PROVE  RecoveryInv'
<1>1. /\ pc[s] = "deliver" /\ delivered' = delivered \cup {job[s].code} /\ Answer(s)
      /\ UNCHANGED <<lock, clock, asked, table, draft, sent, recovered>>
  BY DEF Deliver
<1>2. RecoveryTyped /\ RecoveryKnows(s) /\ DeliveringCode(s) /\ job[s].code \in 1..Len(sent)
  BY <1>1 DEF RecoveryInv, RecoveryKnows, DeliveringCode
<1>3. RecoveryMoves(s) /\ pc'[s] = "idle" /\ DraftOf(s)' /\ RecoveryKnows(s)' /\ ~DeliveringCode(s)'
  BY <1>1, <1>2, CodeAnswered
<1>4. \A p \in Phone : SameSends(p) /\ table'[p] = table[p]
  BY <1>1 DEF SameSends, Sends
<1>5. Relied(s)
  BY <1>1, <1>2, <1>3, <1>4, RecoveryShapes DEF Relied
<1>6. \A p \in Phone : PhoneOK(p)'
  <2>1. \A q \in Session : pc'[q] # "idle" => pc[q] # "idle" /\ job'[q].at = job[q].at
    BY <1>3 DEF RecoveryMoves
  <2> QED
    BY <1>1, <1>4, <2>1, KeptPhone
<1>7. ASSUME NEW c \in 1..Len(sent')
      PROVE  CodeOK(c)'
  <2>1. Promised(c)' => Promised(c)
    BY <1>1, <1>3 DEF Promised, RecoveryMoves
  <2>2. CodeOK(c)
    BY <1>1, <1>7 DEF RecoveryInv
  <2> QED
    BY <1>1, <2>1, <2>2 DEF CodeOK
<1>8. /\ table' \in [RecoveryRow -> Window \cup Challenge \cup {None}]
      /\ \A x \in RecoveryRow : table'[x] # None => table'[x] \in IF x \in Phone THEN Challenge ELSE Window
  BY <1>1, <1>2 DEF RecoveryTyped
<1>9. CodesSpaced' /\ sent' \in Seq(Send) /\ (delivered' \cup recovered') \subseteq 1..Len(sent') /\ asked' \in 0..MaxRequests
  BY <1>1, <1>2 DEF RecoveryInv, CodesSpaced, RecoveryTyped
<1> QED
  BY <1>3, <1>5, <1>6, <1>7, <1>8, <1>9, StepOf

\* A withdrawn code was not delivered: the phone loses no code that reached the customer.
LEMMA WithdrawKeeps ==
  ASSUME RecoveryInv, NEW s \in Session, Withdraw(s)
  PROVE  RecoveryInv'
<1>1. PICK p \in Phone : p = job[s].phone
  <2>1. pc[s] = "withdraw" /\ RecoveryTyped
    BY DEF Withdraw, RecoveryInv
  <2> QED
    BY <2>1, RecoveryShapes DEF RecoveryRequest
<1>2. /\ pc[s] = "withdraw" /\ Answer(s) /\ UNCHANGED <<lock, clock, asked, draft, sent, delivered, recovered>>
      /\ \/ table' = table
         \/ /\ table[p] # None /\ table[p].code = job[s].code
            /\ lock[p] = None /\ table' = [table EXCEPT ![p].code = 0]
  BY <1>1 DEF Withdraw, history
<1>3. RecoveryTyped /\ RecoveryKnows(s) /\ DeliveringCode(s) /\ OwnCodes /\ None \notin Session /\ p \in RecoveryRow
  BY <1>2, RecoveryShapes DEF RecoveryInv, DeliveringCode
<1>4. RecoveryMoves(s) /\ pc'[s] = "idle" /\ DraftOf(s)' /\ RecoveryKnows(s)' /\ ~DeliveringCode(s)'
  BY <1>2, <1>3, CodeAnswered
<1>5. \A q \in Phone : SameSends(q)
  BY <1>2 DEF SameSends, Sends
<1>6. \A q \in Session : pc'[q] # "idle" => pc[q] # "idle" /\ job'[q].at = job[q].at
  BY <1>4 DEF RecoveryMoves
<1>7. CASE table' = table
  <2>1. Relied(s)
    BY <1>2, <1>3, <1>4, <1>5, <1>7, RecoveryShapes DEF Relied
  <2>2. \A q \in Phone : PhoneOK(q)'
    BY <1>2, <1>5, <1>6, <1>7, KeptPhone
  <2>3. ASSUME NEW c \in 1..Len(sent')
        PROVE  CodeOK(c)'
    <3>1. Promised(c)' => Promised(c)
      BY <1>2, <1>4 DEF Promised, RecoveryMoves
    <3>2. CodeOK(c)
      BY <1>2, <2>3 DEF RecoveryInv
    <3> QED
      BY <1>2, <1>7, <3>1, <3>2 DEF CodeOK
  <2>4. /\ table' \in [RecoveryRow -> Window \cup Challenge \cup {None}]
        /\ \A x \in RecoveryRow : table'[x] # None => table'[x] \in IF x \in Phone THEN Challenge ELSE Window
    BY <1>3, <1>7 DEF RecoveryTyped
  <2>5. CodesSpaced' /\ sent' \in Seq(Send) /\ (delivered' \cup recovered') \subseteq 1..Len(sent') /\ asked' \in 0..MaxRequests
    BY <1>2, <1>3 DEF RecoveryInv, CodesSpaced, RecoveryTyped
  <2> QED
    BY <1>4, <2>1, <2>2, <2>3, <2>4, <2>5, StepOf
<1>8. CASE table[p] # None /\ table[p].code = job[s].code /\ lock[p] = None /\ table' = [table EXCEPT ![p].code = 0]
  <2>1. PICK old \in Challenge : old = table[p]
    BY <1>3, <1>8, RecoveryShapes
  <2> DEFINE row == [old EXCEPT !.code = 0]
  <2>2. /\ row \in Challenge /\ row.start = old.start /\ row.last = old.last /\ row.requests = old.requests
        /\ row.attempts = old.attempts
    BY DEF Challenge
  <2>3. table' = [table EXCEPT ![p] = row]
    BY <1>3, <1>8, <2>1, RecoveryShapes
  <2> HIDE DEF row
  <2>4. /\ table' = [x \in RecoveryRow |-> table'[x]] /\ table'[p] = row /\ row # None
        /\ \A x \in RecoveryRow \ {p} : table'[x] = table[x]
    BY <1>3, <2>2, <2>3, RecoveryShapes
  <2>5. Relied(s)
    <3>1. \A q \in Phone : lock[q] \in Session \ {s} => table'[q] = table[q]
      BY <1>3, <1>8, <2>4, RecoveryShapes
    <3> QED
      BY <1>2, <1>3, <1>4, <1>5, <3>1, RecoveryShapes DEF Relied
  <2>6. ASSUME NEW q \in Phone
        PROVE  PhoneOK(q)'
    <3>1. CASE q = p
      BY <1>5, <1>8, <2>1, <2>2, <2>4, <3>1, TouchedPhone
    <3>2. CASE q # p
      <4>1. table'[q] = table[q]
        BY <1>3, <2>4, <3>2, RecoveryShapes
      <4> QED
        BY <1>2, <1>5, <1>6, <4>1, KeptPhone
    <3> QED
      BY <3>1, <3>2
  <2>7. ASSUME NEW c \in 1..Len(sent')
        PROVE  CodeOK(c)'
    <3>1. Promised(c)' => Promised(c) /\ c # job[s].code
      <4>1. Promised(c)' => Promised(c)
        BY <1>2, <1>4 DEF Promised, RecoveryMoves
      <4>2. job[s].code \notin delivered
        BY <1>2, <1>3 DEF RecoveryKnows
      <4>3. ASSUME NEW q \in Session, pc'[q] = "deliver"
            PROVE  job'[q].code # job[s].code
        BY <1>3, <1>4, <4>3 DEF RecoveryMoves, OwnCodes, DeliveringCode
      <4> QED
        BY <1>2, <4>1, <4>2, <4>3 DEF Promised
    <3>2. c \in 1..Len(sent) /\ sent[c].phone \in Phone /\ CodeOK(c)
      BY <1>2, <1>3, <2>7, RecoveryShapes DEF Send, RecoveryInv
    <3>3. CASE sent[c].phone = p
      BY <1>2, <1>8, <2>1, <2>2, <2>4, <3>1, <3>2, <3>3 DEF CodeOK
    <3>4. CASE sent[c].phone # p
      <4>1. table'[sent[c].phone] = table[sent[c].phone]
        BY <1>3, <2>4, <3>2, <3>4, RecoveryShapes
      <4> QED
        BY <1>2, <3>1, <3>2, <4>1, KeptCode
    <3> QED
      BY <3>3, <3>4
  <2>8. /\ table' \in [RecoveryRow -> Window \cup Challenge \cup {None}]
        /\ \A x \in RecoveryRow : table'[x] # None => table'[x] \in IF x \in Phone THEN Challenge ELSE Window
    <3>1. \A x \in RecoveryRow : table'[x] # table[x] =>
             table'[x] \in IF x \in Phone THEN Challenge \cup {None} ELSE Window \cup {None}
      BY <2>2, <2>4
    <3> QED
      BY <1>3, <2>4, <3>1, RowsTyped
  <2>9. CodesSpaced' /\ sent' \in Seq(Send) /\ (delivered' \cup recovered') \subseteq 1..Len(sent') /\ asked' \in 0..MaxRequests
    BY <1>2, <1>3 DEF RecoveryInv, CodesSpaced, RecoveryTyped
  <2> QED
    BY <1>4, <2>5, <2>6, <2>7, <2>8, <2>9, StepOf
<1> QED
  BY <1>2, <1>7, <1>8
-----------------------------------------------------------------------------
\* The challenge a code is drawn on is in its window, counts the codes of that window, and
\* the last code of the phone is a cooldown away.
LEMMA DrawnOn ==
  ASSUME RecoveryInv, NEW s \in Session, NEW p \in Phone, Challenged(s, p), ~TooSoon(s, p),
         NEW row, row = ChallengeRow(s, p)
  PROVE  /\ row \in Challenge /\ row.start <= job[s].at /\ job[s].at < row.start + SendWindow
         /\ PacedBefore(p, job[s].at)
         /\ row.requests = Cardinality({i \in Sends(p) : sent[i].at >= row.start})
<1>1. job[s].at \in Nat /\ job[s].at \in Instant
  BY ChallengeSeen, Numbers
<1>2. RecoveryTyped /\ PhoneOK(p) /\ Sends(p) \subseteq 1..Len(sent) /\ \A i \in Sends(p) : sent[i].at \in Nat
  BY RecoveryShapes DEF RecoveryInv, Sends
<1>3. Cardinality({}) = 0
  BY FS_EmptySet
<1>4. CASE Seen(s, p) = FreshReading(s) /\ PacedBefore(p, job[s].at)
  <2>1. row = FreshReading(s)
    BY <1>1, <1>4, Numbers DEF ChallengeRow, Renewed, FreshReading
  <2>2. row \in Challenge /\ row.start = job[s].at /\ row.requests = 0
    BY <1>1, <2>1, Numbers DEF FreshReading, Challenge
  <2>3. {i \in Sends(p) : sent[i].at >= row.start} = {}
    BY <1>1, <1>2, <1>4, <2>2, Numbers DEF PacedBefore
  <2>4. row.start <= job[s].at /\ job[s].at < row.start + SendWindow
    BY <1>1, <2>2, Numbers
  <2> QED
    BY <1>3, <1>4, <2>2, <2>3, <2>4
<1>5. CASE Seen(s, p) = table[p] /\ table[p] \in Challenge /\ table[p] # None
  <2>1. PICK old \in Challenge : old = table[p]
    BY <1>5
  <2>2. /\ old.start \in Nat /\ old.requests \in Nat /\ old.last \in Int
        /\ job[s].at >= old.last + Cooldown
        /\ old.start <= old.last /\ old.last < old.start + SendWindow
        /\ \A i \in Sends(p) : sent[i].at <= old.last
        /\ old.requests = Cardinality({i \in Sends(p) : sent[i].at >= old.start})
    BY <1>1, <1>2, <1>5, <2>1, Numbers DEF PhoneOK, TooSoon
  <2>3. PacedBefore(p, job[s].at)
    BY <1>1, <1>2, <2>2, Numbers DEF PacedBefore
  <2>4. CASE job[s].at >= old.start + SendWindow
    <3>1. PICK at \in Instant : at = job[s].at
      BY <1>1
    <3> DEFINE renewed == [old EXCEPT !.start = at, !.requests = 0]
    <3>5. row = renewed
      BY <1>5, <2>1, <2>4, <3>1 DEF ChallengeRow, Renewed
    <3>6. renewed \in Challenge /\ renewed.start = at /\ renewed.requests = 0
      BY <2>1, <3>1 DEF Challenge
    <3> HIDE DEF renewed
    <3>2. row \in Challenge /\ row.start = job[s].at /\ row.requests = 0
      BY <3>1, <3>5, <3>6
    <3>3. {i \in Sends(p) : sent[i].at >= row.start} = {}
      BY <1>1, <1>2, <2>3, <3>2, Numbers DEF PacedBefore
    <3>4. row.start <= job[s].at /\ job[s].at < row.start + SendWindow
      BY <1>1, <3>2, Numbers
    <3> QED
      BY <1>3, <2>3, <3>2, <3>3, <3>4
  <2>5. CASE ~(job[s].at >= old.start + SendWindow)
    <3>1. row = old
      BY <1>5, <2>1, <2>5 DEF ChallengeRow, Renewed
    <3>2. old.start <= job[s].at /\ job[s].at < old.start + SendWindow
      BY <1>1, <2>2, <2>5, Numbers
    <3> QED
      BY <2>2, <2>3, <3>1, <3>2
  <2> QED
    BY <2>4, <2>5
<1> QED
  BY <1>4, <1>5, ChallengeSeen

\* The codes of a phone can be counted.
LEMMA FiniteSends ==
  ASSUME RecoveryTyped, NEW p \in Phone
  PROVE  IsFiniteSet(Sends(p))
<1>1. Len(sent) \in Nat
  BY RecoveryShapes
<1>2. IsFiniteSet(1..Len(sent))
  BY <1>1, FS_Interval
<1>3. Sends(p) \subseteq 1..Len(sent)
  BY DEF Sends
<1> QED
  BY <1>2, <1>3, FS_Subset

\* A phone that is sent one more code.
LEMMA DrawnPhone ==
  ASSUME RecoveryInv, NEW p \in Phone, NEW at \in Instant, NEW row \in Challenge,
         sent' = Append(sent, [phone |-> p, at |-> at]), table'[p] # None,
         row.start <= at, at < row.start + SendWindow, PacedBefore(p, at),
         row.requests = Cardinality({i \in Sends(p) : sent[i].at >= row.start}), row.requests < SendLimit,
         table'[p].start = row.start, table'[p].last = at, table'[p].requests = row.requests + 1
  PROVE  PhoneOK(p)'
<1>1. RecoveryTyped /\ at \in Nat /\ Len(sent) \in Nat /\ \A i \in 1..Len(sent) : sent[i].at \in Nat
  BY RecoveryShapes, Numbers DEF RecoveryInv
<1> DEFINE n == Len(sent) + 1
<1>2. /\ Len(sent') = n /\ n \in Nat /\ sent'[n].phone = p /\ sent'[n].at = at
      /\ \A i \in 1..Len(sent) : sent'[i] = sent[i]
  BY <1>1 DEF RecoveryTyped
<1>3. 1..n = (1..Len(sent)) \cup {n} /\ n \notin 1..Len(sent)
  BY <1>1
<1> HIDE DEF n
<1>4. Sends(p)' = Sends(p) \cup {n} /\ n \notin Sends(p)
  BY <1>2, <1>3 DEF Sends
<1>5. \A i \in Sends(p) : sent'[i] = sent[i] /\ sent[i].at \in Nat
  BY <1>1, <1>2 DEF Sends
<1> DEFINE Counted == {i \in Sends(p) : sent[i].at >= row.start}
<1>6. {i \in Sends(p)' : sent'[i].at >= table'[p].start} = Counted \cup {n}
  <2>1. \A i \in Sends(p) \cup {n} : sent'[i].at >= row.start <=> i \in Counted \cup {n}
    BY <1>2, <1>4, <1>5
  <2> QED
    BY <1>4, <2>1
<1>7. Cardinality(Counted \cup {n}) = Cardinality(Counted) + 1
  <2>1. IsFiniteSet(Sends(p)) /\ Counted \subseteq Sends(p)
    BY <1>1, FiniteSends
  <2>2. IsFiniteSet(Counted) /\ n \notin Counted
    BY <1>4, <2>1, FS_Subset
  <2> QED
    BY <2>2, FS_AddElement
<1>8. \A i \in Sends(p)' : sent'[i].at <= table'[p].last
  <2>1. \A i \in Sends(p) : sent[i].at <= at
    BY <1>1, <1>5, Numbers DEF PacedBefore
  <2>2. ASSUME NEW i \in Sends(p)'
        PROVE  sent'[i].at <= at
    <3>1. CASE i = n
      BY <1>1, <1>2, <3>1
    <3>2. CASE i \in Sends(p)
      BY <1>5, <2>1, <3>2
    <3> QED
      BY <1>4, <2>2, <3>1, <3>2
  <2> QED
    BY <2>2
<1>9. row.requests + 1 <= SendLimit
  BY Numbers
<1>10. table'[p].requests = Cardinality({i \in Sends(p)' : sent'[i].at >= table'[p].start})
  BY <1>6, <1>7
<1> QED
  BY <1>8, <1>9, <1>10 DEF PhoneOK

\* The codes of the others, and the pace of all.
LEMMA DrawnCodes ==
  ASSUME RecoveryTyped, CodesSpaced, NEW p \in Phone, NEW at \in Instant, PacedBefore(p, at),
         sent' = Append(sent, [phone |-> p, at |-> at])
  PROVE  /\ sent' \in Seq(Send) /\ Len(sent') = Len(sent) + 1 /\ Len(sent) \in Nat
         /\ sent'[Len(sent) + 1] = [phone |-> p, at |-> at]
         /\ \A i \in 1..Len(sent) : sent'[i] = sent[i]
         /\ \A q \in Phone \ {p} : SameSends(q)
         /\ CodesSpaced'
<1> DEFINE n == Len(sent) + 1
<1>1. sent \in Seq(Send) /\ Len(sent) \in Nat /\ [phone |-> p, at |-> at] \in Send
  BY RecoveryShapes DEF Send
<1>2. /\ sent' \in Seq(Send) /\ Len(sent') = n /\ sent'[n] = [phone |-> p, at |-> at]
      /\ \A i \in 1..Len(sent) : sent'[i] = sent[i]
  BY <1>1
<1>3. 1..n = (1..Len(sent)) \cup {n} /\ n \notin 1..Len(sent)
  BY <1>1
<1>4. \A q \in Phone \ {p} : SameSends(q)
  BY <1>2, <1>3 DEF SameSends, Sends
<1>5. ASSUME NEW i \in 1..n, NEW j \in 1..n, i < j, sent'[i].phone = sent'[j].phone
      PROVE  sent'[j].at >= sent'[i].at + Cooldown
  <2>1. i \in 1..Len(sent) /\ sent'[i] = sent[i] /\ sent[i].at \in Nat
    BY <1>1, <1>2, <1>5, RecoveryShapes
  <2>2. CASE j = n
    <3>1. i \in Sends(p) /\ sent'[j].at = at
      BY <1>2, <1>5, <2>1, <2>2 DEF Sends
    <3> QED
      BY <2>1, <3>1, Numbers DEF PacedBefore
  <2>3. CASE j \in 1..Len(sent)
    BY <1>2, <1>5, <2>1, <2>3 DEF CodesSpaced
  <2> QED
    BY <1>3, <2>2, <2>3
<1>6. CodesSpaced'
  BY <1>2, <1>5 DEF CodesSpaced
<1> QED
  BY <1>1, <1>2, <1>4, <1>6
\* A drawn code replaces the code of its phone; the commit may also delete old challenges of
\* other phones.
LEMMA DrawWrites ==
  ASSUME RecoveryInv, NEW s \in Session, NEW p \in Phone, Draw(s, p)
  PROVE  /\ table' = [x \in RecoveryRow |-> table'[x]]
         /\ table'[p] \in Challenge /\ table'[p].code = Len(sent) + 1 /\ table'[p].attempts = 0
         /\ table'[p].expires = job[s].at + CodeLife /\ table'[p].last = job[s].at
         /\ table'[p].start = ChallengeRow(s, p).start
         /\ table'[p].requests = ChallengeRow(s, p).requests + 1
         /\ \A q \in Phone \ {p} :
              /\ table'[q] = table[q] \/ Removed(s, q)
              /\ lock[q] \in Session \ {s} => table'[q] = table[q]
         /\ \A t \in RecoveryRow \ Phone : table'[t] = table[t] \/ table'[t] \in Window \cup {None}
         /\ Release(s) /\ draft' = [draft EXCEPT ![s] = NoDraft]
<1>1. PICK at \in Instant : at = job[s].at
  BY ChallengeSeen, Numbers DEF Draw
<1>2. PICK seen : seen = ChallengeRow(s, p)
  OBVIOUS
<1>3. PICK c \in Nat : c = Len(sent) + 1
  BY RecoveryShapes DEF RecoveryInv
<1> DEFINE row == [seen EXCEPT !.code = c, !.expires = at + CodeLife, !.last = at,
                               !.attempts = 0, !.requests = seen.requests + 1]
           writes == Put(draft[s], p, row)
<1>4. Challenged(s, p) /\ ~TooSoon(s, p) /\ CommitRows(s, writes)
  BY <1>1, <1>2, <1>3 DEF Draw
<1>5. seen \in Challenge
  BY <1>2, <1>4, DrawnOn
<1>6. /\ row \in Challenge /\ row.start = seen.start /\ row.last = at /\ row.code = c
      /\ row.requests = seen.requests + 1 /\ row.attempts = 0 /\ row.expires = at + CodeLife
  <2>1. PICK until \in Nat : until = at + CodeLife
    BY <1>1, Numbers
  <2>6. seen.requests \in Nat
    BY <1>5, Numbers
  <2>2. PICK more \in Nat : more = seen.requests + 1
    BY <2>6
  <2>3. at \in Int /\ 0 \in 0..GuessLimit
    BY <1>1, Numbers
  <2>4. row = [seen EXCEPT !.code = c, !.expires = until, !.last = at, !.attempts = 0, !.requests = more]
    BY <2>1, <2>2
  <2> HIDE DEF row
  <2>5. /\ row \in Challenge /\ row.start = seen.start /\ row.last = at /\ row.code = c /\ row.requests = more
        /\ row.attempts = 0 /\ row.expires = until
    BY <1>3, <1>5, <2>1, <2>2, <2>3, <2>4 DEF Challenge
  <2> QED
    BY <2>1, <2>2, <2>5
<1>7. /\ DOMAIN writes = DOMAIN draft[s] \cup {p} /\ writes[p] = row
      /\ \A y \in DOMAIN draft[s] : y # p => writes[y] = draft[s][y]
  BY DEF Put
<1> HIDE DEF row, writes
<1>8. RecoveryTyped /\ DraftOf(s)
  BY DEF RecoveryInv
<1>9. pc[s] = "select" /\ job[s].row = p
  BY <1>4, ChallengeSeen
<1>10. /\ table' = [x \in RecoveryRow |-> table'[x]]
       /\ \A x \in RecoveryRow : table'[x] = IF x \in DOMAIN writes THEN writes[x] ELSE table[x]
       /\ Release(s) /\ draft' = [draft EXCEPT ![s] = NoDraft]
  BY <1>4, Committed
<1>12. table'[p] = row
  BY <1>7, <1>8, <1>10, RecoveryShapes
<1>13. ASSUME NEW q \in Phone \ {p}
       PROVE  /\ table'[q] = table[q] \/ Removed(s, q)
              /\ lock[q] \in Session \ {s} => table'[q] = table[q]
  <2>1. q \in RecoveryRow
    BY <1>8, RecoveryShapes
  <2>2. CASE q \in DOMAIN draft[s]
    <3>1. draft[s][q] = None /\ lock[q] = s
      BY <1>9, <1>13, <2>2, DraftRemoves
    <3> QED
      BY <1>7, <1>10, <1>13, <2>1, <2>2, <3>1 DEF Removed
  <2>3. CASE q \notin DOMAIN draft[s]
    BY <1>7, <1>10, <1>13, <2>1, <2>3
  <2> QED
    BY <2>2, <2>3
<1>14. ASSUME NEW t \in RecoveryRow \ Phone
       PROVE  table'[t] = table[t] \/ table'[t] \in Window \cup {None}
  BY <1>7, <1>8, <1>10, <1>14 DEF DraftOf
<1> QED
  BY <1>1, <1>2, <1>3, <1>6, <1>10, <1>12, <1>13, <1>14

\* It keeps the invariant.
LEMMA DrawKeeps ==
  ASSUME RecoveryInv, NEW s \in Session, NEW p \in Phone, Draw(s, p)
  PROVE  RecoveryInv'
<1>1. PICK at \in Instant : at = job[s].at
  BY ChallengeSeen, Numbers DEF Draw
<1>2. PICK seen : seen = ChallengeRow(s, p)
  OBVIOUS
<1>3. PICK c \in Nat : c = Len(sent) + 1
  BY RecoveryShapes DEF RecoveryInv
<1>4. /\ Challenged(s, p) /\ ~TooSoon(s, p) /\ seen.requests < SendLimit
      /\ sent' = Append(sent, [phone |-> p, at |-> at])
      /\ job' = [job EXCEPT ![s].code = c] /\ pc' = [pc EXCEPT ![s] = "deliver"]
      /\ UNCHANGED <<clock, asked, delivered, recovered>>
  BY <1>1, <1>2, <1>3 DEF Draw
<1>5. /\ seen \in Challenge /\ seen.start <= at /\ at < seen.start + SendWindow /\ PacedBefore(p, at)
      /\ seen.requests = Cardinality({i \in Sends(p) : sent[i].at >= seen.start})
  BY <1>1, <1>2, <1>4, DrawnOn
<1>10. /\ table' = [x \in RecoveryRow |-> table'[x]]
       /\ \A t \in RecoveryRow \ Phone : table'[t] = table[t] \/ table'[t] \in Window \cup {None}
       /\ Release(s) /\ draft' = [draft EXCEPT ![s] = NoDraft]
  BY DrawWrites
<1>6. /\ table'[p] \in Challenge /\ table'[p].start = seen.start /\ table'[p].last = at
      /\ table'[p].code = c /\ table'[p].requests = seen.requests + 1
  BY <1>1, <1>2, <1>3, DrawWrites
<1>8. /\ RecoveryTyped /\ CodesSpaced /\ RecoveryKnows(s) /\ DraftOf(s) /\ None \notin Session /\ asked' \in 0..MaxRequests
      /\ delivered \cup recovered \subseteq 1..Len(sent)
  BY <1>4, RecoveryShapes DEF RecoveryInv, RecoveryTyped
<1>9. /\ pc[s] = "select" /\ job[s].row = p /\ job[s].phone = p /\ job[s] \in RecoveryRequest
      /\ lock[p] \in {None, s}
  BY <1>4, ChallengeSeen
<1>11. /\ sent' \in Seq(Send) /\ Len(sent') = c /\ Len(sent) \in Nat
       /\ sent'[c] = [phone |-> p, at |-> at]
       /\ \A i \in 1..Len(sent) : sent'[i] = sent[i]
       /\ \A q \in Phone \ {p} : SameSends(q)
       /\ CodesSpaced'
  BY <1>1, <1>3, <1>4, <1>5, <1>8, DrawnCodes
<1>12. table'[p] # None
  BY <1>6, <1>8, RecoveryShapes
<1>13. \A q \in Phone \ {p} :
         /\ table'[q] = table[q] \/ Removed(s, q)
         /\ lock[q] \in Session \ {s} => table'[q] = table[q]
  BY DrawWrites
<1>14. RecoveryMoves(s) /\ pc'[s] = "deliver" /\ job'[s].code = c /\ job'[s].at = at /\ draft'[s] = NoDraft
  <2>1. PICK call \in RecoveryRequest : call = job[s]
    BY <1>9
  <2> DEFINE next == [call EXCEPT !.code = c]
  <2>2. next \in RecoveryRequest /\ next.code = c /\ next.at = call.at
    BY <1>3 DEF RecoveryRequest
  <2>3. job' = [job EXCEPT ![s] = next]
    BY <1>4, <1>8, <2>1, RecoveryShapes
  <2> HIDE DEF next
  <2>4. pc'[s] = "deliver" /\ job'[s] = next /\ "deliver" \in RecoveryPc /\ draft'[s] = NoDraft
    BY <1>4, <1>8, <1>10, <2>3, RecoveryShapes DEF RecoveryPc
  <2>5. /\ lock' \in [RecoveryRow -> Session \cup {None}]
        /\ \A x \in RecoveryRow : \A q \in Session \ {s} : lock[x] = q => lock'[x] = q
    BY <1>8, <1>10, RecoveryShapes DEF Release
  <2>6. /\ pc' \in [Session -> RecoveryPc] /\ job' \in [Session -> RecoveryRequest \cup {None}]
        /\ \A q \in Session \ {s} : pc'[q] = pc[q] /\ job'[q] = job[q]
    BY <1>4, <1>8, <2>2, <2>3, <2>4, RecoveryShapes
  <2>7. draft' = [q \in Session |-> draft'[q]] /\ \A q \in Session \ {s} : draft'[q] = draft[q]
    BY <1>8, <1>10, RecoveryShapes
  <2> QED
    BY <1>1, <1>4, <2>1, <2>2, <2>4, <2>5, <2>6, <2>7 DEF RecoveryMoves
<1>15. DOMAIN draft'[s] = {} /\ DraftOf(s)'
  BY <1>14 DEF NoDraft, DraftOf
<1>16. RecoveryKnows(s)'
  <2>1. job[s].at <= clock /\ clock <= job[s].at + MaxWait
    BY <1>8, <1>9 DEF RecoveryKnows
  <2>2. at <= clock' /\ clock' <= at + MaxWait /\ c <= Len(sent')
    BY <1>1, <1>3, <1>4, <1>11, <2>1
  <2>3. c \in (1..Len(sent')) \ delivered'
    BY <1>3, <1>4, <1>8, <1>11
  <2> QED
    BY <1>14, <1>15, <2>2, <2>3 DEF RecoveryKnows, Verifying
<1>17. Relied(s)
  <2>1. \A q \in Phone : lock[q] \in Session \ {s} => table'[q] = table[q] /\ SameSends(q)
    BY <1>8, <1>9, <1>11, <1>13
  <2>2. Len(sent') \in Nat /\ Len(sent) <= Len(sent') /\ c > Len(sent)
    BY <1>3, <1>11
  <2> QED
    BY <1>4, <1>14, <2>1, <2>2 DEF Relied
<1>18. ASSUME NEW q \in Phone
       PROVE  PhoneOK(q)'
  <2>1. CASE q = p
    BY <1>1, <1>4, <1>5, <1>6, <1>12, <2>1, DrawnPhone
  <2>2. CASE q # p
    <3>1. \A r \in Session : pc'[r] # "idle" => pc[r] # "idle" /\ job'[r].at = job[r].at
      BY <1>1, <1>9, <1>14 DEF RecoveryMoves
    <3> QED
      BY <1>4, <1>9, <1>11, <1>13, <2>2, <3>1, KeptPhone
  <2> QED
    BY <2>1, <2>2
<1>19. ASSUME NEW d \in 1..Len(sent')
       PROVE  CodeOK(d)'
  <2>1. CASE d = c
    BY <1>6, <1>11, <1>12, <2>1 DEF CodeOK
  <2>2. CASE d \in 1..Len(sent)
    <3>1. d # c /\ c \in d + 1..Len(sent') /\ sent[d].phone \in Phone
      BY <1>3, <1>8, <1>11, <2>2, RecoveryShapes DEF Send
    <3>2. CASE sent[d].phone = p
      BY <1>11, <2>2, <3>1, <3>2 DEF CodeOK
    <3>3. CASE sent[d].phone # p
      <4>1. Promised(d)' => Promised(d)
        BY <1>4, <1>14, <3>1 DEF Promised, RecoveryMoves
      <4>2. table'[sent[d].phone] = table[sent[d].phone] \/ Removed(s, sent[d].phone)
        BY <1>13, <3>1, <3>3
      <4>3. Len(sent') \in Nat /\ Len(sent) <= Len(sent')
        BY <1>3, <1>11
      <4> QED
        BY <1>4, <1>9, <1>11, <2>2, <3>1, <4>1, <4>2, <4>3, GrownCode
    <3> QED
      BY <3>2, <3>3
  <2>3. d = c \/ d \in 1..Len(sent)
    BY <1>3, <1>11, <1>19
  <2> QED
    BY <2>1, <2>2, <2>3
<1>20. /\ table' \in [RecoveryRow -> Window \cup Challenge \cup {None}]
       /\ \A x \in RecoveryRow : table'[x] # None => table'[x] \in IF x \in Phone THEN Challenge ELSE Window
  <2>1. ASSUME NEW x \in RecoveryRow, table'[x] # table[x]
        PROVE  table'[x] \in IF x \in Phone THEN Challenge \cup {None} ELSE Window \cup {None}
    <3>1. CASE x \in Phone
      BY <1>6, <1>13, <2>1, <3>1 DEF Removed
    <3>2. CASE x \notin Phone
      BY <1>10, <2>1, <3>2
    <3> QED
      BY <3>1, <3>2
  <2> QED
    BY <1>8, <1>10, <2>1, RowsTyped
<1>21. (delivered' \cup recovered') \subseteq 1..Len(sent')
  BY <1>3, <1>4, <1>8, <1>11
<1> QED
  BY <1>8, <1>11, <1>14, <1>15, <1>16, <1>17, <1>18, <1>19, <1>20, <1>21, StepOf
-----------------------------------------------------------------------------
\* Time passes while nobody is served for longer than the bound.
LEMMA TickKeeps ==
  ASSUME RecoveryInv, RecoveryTick
  PROVE  RecoveryInv'
<1>1. /\ clock < Horizon /\ clock' = clock + 1
      /\ \A s \in Session : pc[s] # "idle" => clock < job[s].at + MaxWait
      /\ UNCHANGED <<pc, job, lock, asked, table, draft, sent, delivered, recovered>>
  BY DEF RecoveryTick, Serving, history
<1>2. RecoveryTyped /\ clock \in Nat /\ MaxWait \in Nat /\ Horizon \in Nat /\ Len(sent) \in Nat
      /\ \A s \in Session : pc[s] # "idle" => job[s].at \in Nat
  BY RecoveryShapes, Numbers, HorizonAssumption DEF RecoveryInv
<1>3. clock' \in Instant /\ clock <= clock' /\ clock' \in Nat
  BY <1>1, <1>2 DEF Instant
<1>4. RecoveryTyped'
  BY <1>1, <1>2, <1>3 DEF RecoveryTyped
<1>5. OwnCodes' /\ CodesSpaced'
  BY <1>1 DEF RecoveryInv, OwnCodes, DeliveringCode, CodesSpaced
<1>6. \A p \in Phone : Sends(p)' = Sends(p) /\ \A i \in Sends(p) : sent[i].at \in Nat
  BY <1>1, <1>2, RecoveryShapes DEF Sends
<1>7. ASSUME NEW s \in Session
      PROVE  DraftOf(s)' /\ RecoveryKnows(s)'
  <2>1. DraftOf(s) /\ RecoveryKnows(s)
    BY DEF RecoveryInv
  <2>2. FreshReading(s)' = FreshReading(s)
    BY <1>1 DEF FreshReading
  <2>3. \A p \in Phone : PacedBefore(p, job[s].at) => PacedBefore(p, job[s].at)'
    BY <1>1, <1>6 DEF PacedBefore
  <2>4. DraftOf(s)'
    BY <1>1, <2>1, <2>2, <2>3 DEF DraftOf
  <2>5. pc[s] # "idle" => job[s].at <= clock' /\ clock' <= job[s].at + MaxWait
    BY <1>1, <1>2, <2>1 DEF RecoveryKnows
  <2>6. Verifying(s)' <=> Verifying(s)
    BY <1>1 DEF Verifying
  <2>7. RecoveryKnows(s)'
    BY <1>1, <2>1, <2>5, <2>6 DEF RecoveryKnows
  <2> QED
    BY <2>4, <2>7
<1>8. ASSUME NEW p \in Phone
      PROVE  PhoneOK(p)'
  <2>1. PhoneOK(p)
    BY DEF RecoveryInv
  <2>2. CASE table[p] = None
    <3>1. PacedBefore(p, clock) /\ \A s \in Session : pc[s] # "idle" => PacedBefore(p, job[s].at)
      BY <2>1, <2>2 DEF PhoneOK
    <3>2. \A i \in Sends(p)' : sent'[i].at + Cooldown <= clock'
      BY <1>1, <1>2, <1>3, <1>6, <3>1, Numbers DEF PacedBefore
    <3>3. PacedBefore(p, clock)'
      BY <3>2 DEF PacedBefore
    <3>4. \A s \in Session : pc'[s] # "idle" => PacedBefore(p, job[s].at)'
      BY <1>1, <1>6, <3>1 DEF PacedBefore
    <3> QED
      BY <1>1, <2>2, <3>3, <3>4 DEF PhoneOK
  <2>3. CASE table[p] # None
    BY <1>1, <1>6, <2>1, <2>3 DEF PhoneOK
  <2> QED
    BY <2>2, <2>3
<1>9. ASSUME NEW c \in 1..Len(sent')
      PROVE  CodeOK(c)'
  <2>1. CodeOK(c) /\ c \in 1..Len(sent)
    BY <1>1, <1>9 DEF RecoveryInv
  <2>2. Promised(c)' <=> Promised(c)
    BY <1>1 DEF Promised
  <2>3. sent[c].at + CodeLife \in Nat
    BY SMTT(30), <1>2, <2>1, RecoveryShapes, Numbers
  <2>4. clock >= sent[c].at + CodeLife => clock' >= sent[c].at + CodeLife
    BY <1>2, <1>3, <2>3
  <2> QED
    BY <1>1, <2>1, <2>2, <2>4 DEF CodeOK
<1> QED
  BY <1>4, <1>5, <1>7, <1>8, <1>9 DEF RecoveryInv

\* The invariant holds before the first request.
LEMMA Starts ==
  RecoveryInit => RecoveryInv
<1> SUFFICES ASSUME RecoveryInit
             PROVE  RecoveryInv
  OBVIOUS
<1>1. /\ pc = [s \in Session |-> "idle"] /\ job = [s \in Session |-> None]
      /\ lock = [x \in RecoveryRow |-> None] /\ clock = 0 /\ asked = 0
      /\ table = [x \in RecoveryRow |-> None] /\ draft = [s \in Session |-> NoDraft]
      /\ sent = <<>> /\ delivered = {} /\ recovered = {}
  BY DEF RecoveryInit, BackendInit, NoRecovery
<1>2. RecoveryTyped
  BY <1>1, Numbers DEF RecoveryTyped, RecoveryPc
<1>3. 1..Len(sent) = {}
  BY <1>1
<1>4. OwnCodes /\ CodesSpaced
  BY <1>1, <1>3 DEF OwnCodes, DeliveringCode, CodesSpaced
<1>5. \A s \in Session : DraftOf(s) /\ RecoveryKnows(s)
  BY <1>1 DEF DraftOf, RecoveryKnows, Verifying, NoDraft
<1>6. \A p \in Phone : PhoneOK(p)
  <2>1. \A p \in Phone : Sends(p) = {} /\ table[p] = None
    BY <1>1, <1>3 DEF Sends, RecoveryRow
  <2> QED
    BY <1>1, <2>1 DEF PhoneOK, PacedBefore
<1> QED
  BY <1>2, <1>3, <1>4, <1>5, <1>6 DEF RecoveryInv

\* Every step keeps the invariant.
LEMMA RecoveryStepKeeps ==
  ASSUME RecoveryInv, [RecoveryNext]_recoveryVars
  PROVE  RecoveryInv'
<1>1. ASSUME NEW s \in Session, NEW p \in Phone, NEW a \in Address, AskCode(s, p, a)
      PROVE  RecoveryInv'
  <2>1. PICK call : call = [phone |-> p, address |-> a, row |-> None, code |-> 0, at |-> clock, now |-> clock]
    OBVIOUS
  <2>2. clock \in Instant /\ Len(sent) \in Nat
    BY RecoveryShapes DEF RecoveryInv
  <2>3. call \in RecoveryRequest /\ call.at = clock /\ call.code = 0
    BY <2>1, <2>2 DEF RecoveryRequest
  <2> QED
    BY <1>1, <2>1, <2>2, <2>3, AskKeeps DEF AskCode
<1>2. ASSUME NEW s \in Session, NEW p \in Phone, NEW a \in Address, NEW c \in 0..Len(sent), AskBookings(s, p, a, c)
      PROVE  RecoveryInv'
  <2>1. PICK call : call = [phone |-> p, address |-> a, row |-> <<"verify_ip", a>>, code |-> c,
                            at |-> clock, now |-> clock]
    OBVIOUS
  <2>2. clock \in Instant /\ Len(sent) \in Nat /\ <<"verify_ip", a>> \in RecoveryRow
    BY RecoveryShapes DEF RecoveryInv, RecoveryRow, Throttle
  <2>3. call \in RecoveryRequest /\ call.at = clock /\ call.code = c /\ call.row = <<"verify_ip", a>>
    BY <2>1, <2>2 DEF RecoveryRequest
  <2>4. call.code <= Len(sent) /\ call.row \in {"verify_ip"} \X Address
    BY <2>3
  <2> QED
    BY <1>2, <2>1, <2>3, <2>4, AskKeeps DEF AskBookings
<1>3. CASE UNCHANGED recoveryVars
  <2>1. UNCHANGED <<pc, job, lock, clock, asked, table, draft, sent, delivered, recovered>>
    BY <1>3 DEF recoveryVars
  <2>2. RecoveryTyped' /\ OwnCodes' /\ CodesSpaced'
    BY <2>1 DEF RecoveryInv, RecoveryTyped, OwnCodes, DeliveringCode, CodesSpaced
  <2>4. ASSUME NEW s \in Session
        PROVE  DraftOf(s)' /\ RecoveryKnows(s)'
    <3>1. DraftOf(s) /\ RecoveryKnows(s) /\ FreshReading(s)' = FreshReading(s)
      BY <2>1 DEF RecoveryInv, FreshReading
    <3>2. \A p : PacedBefore(p, job[s].at) => PacedBefore(p, job[s].at)'
      BY <2>1 DEF PacedBefore, Sends
    <3> QED
      BY <2>1, <3>1, <3>2 DEF DraftOf, RecoveryKnows, Verifying
  <2>5. ASSUME NEW p \in Phone
        PROVE  PhoneOK(p)'
    <3>1. PhoneOK(p) /\ Sends(p)' = Sends(p)
      BY <2>1 DEF RecoveryInv, Sends
    <3>2. PacedBefore(p, clock)' <=> PacedBefore(p, clock)
      BY <2>1 DEF PacedBefore, Sends
    <3>3. \A s \in Session : PacedBefore(p, job[s].at)' <=> PacedBefore(p, job[s].at)
      BY <2>1 DEF PacedBefore, Sends
    <3> QED
      BY <2>1, <3>1, <3>2, <3>3 DEF PhoneOK
  <2>6. \A c \in 1..Len(sent') : CodeOK(c)'
    BY <2>1 DEF RecoveryInv, CodeOK, Promised
  <2> QED
    BY <2>2, <2>4, <2>5, <2>6 DEF RecoveryInv
<1> QED
  BY <1>1, <1>2, <1>3, RefusalKeeps, PhoneRefuses, ThrottleRefuses, UnusableRefuses, DrawKeeps, AnswersKeep,
     PassKeeps, PurgeKeeps, PurgedKeeps, InsertMissingKeeps, LostKeeps, DeliverKeeps, FailKeeps, WithdrawKeeps, TickKeeps
     DEF RecoveryNext

\* So it always holds.
LEMMA RecoveryInvariant ==
  RecoverySpec => []RecoveryInv
BY Starts, RecoveryStepKeeps, PTL DEF RecoverySpec
-----------------------------------------------------------------------------
LEMMA RecoveryTypesHold == RecoveryInv => RecoveryTypeOK
<1> SUFFICES ASSUME RecoveryInv
             PROVE  RecoveryTypeOK
  OBVIOUS
<1>1. RecoveryTyped /\ \A s \in Session : DraftOf(s) /\ RecoveryKnows(s)
  BY DEF RecoveryInv
<1>2. \A t \in Throttle : table[t] # None => table[t] \in Window
  BY <1>1, RecoveryShapes
<1>3. \A p \in Phone : table[p] # None => table[p] \in Challenge
  BY <1>1, RecoveryShapes
<1>4. \A s \in Session : \A x \in DOMAIN draft[s] : lock[x] = s
  BY <1>1 DEF DraftOf
<1>5. ASSUME NEW s \in Session
      PROVE  IF pc[s] = "idle" THEN job[s] = None
               ELSE job[s] \in RecoveryRequest /\ job[s].code <= Len(sent)
  BY <1>1 DEF RecoveryTyped, RecoveryKnows
<1>6. \A i \in 1..Len(sent) : sent[i] \in [phone : Phone, at : Instant]
  BY <1>1, RecoveryShapes DEF Send
<1> QED
  BY <1>1, <1>2, <1>3, <1>4, <1>5, <1>6 DEF RecoveryTypeOK, RecoveryTyped, RecoveryPc

\* The rows, the locks and the requests have their types; only the holder of a row's lock has a
\* draft of it, and requests and histories name codes that were drawn.
THEOREM RecoveryTypes == RecoverySpec => []RecoveryTypeOK
BY RecoveryTypesHold, RecoveryInvariant, PTL

LEMMA DeliveredCodesHold == RecoveryInv => DeliveredCodeLives
<1> SUFFICES ASSUME RecoveryInv, NEW c \in delivered \ recovered
             PROVE  LET p == sent[c].phone IN
                    \/ clock >= sent[c].at + CodeLife
                    \/ \E d \in c + 1..Len(sent) : sent[d].phone = p
                    \/ table[p] # None /\ (table[p].code = c \/ table[p].attempts = GuessLimit)
  BY DEF DeliveredCodeLives
<1>1. c \in 1..Len(sent)
  BY DEF RecoveryInv, RecoveryTyped
<1>2. CodeOK(c) /\ Promised(c)
  BY <1>1 DEF RecoveryInv, Promised
<1> QED
  BY <1>2 DEF CodeOK

\* A code that reached the customer stays usable until it expires, is used, is replaced or meets
\* the last wrong answer: a withdrawal names a code that was not delivered, and a row is deleted
\* only when its codes have expired.
THEOREM DeliveredCodesLive == RecoverySpec => []DeliveredCodeLives
BY DeliveredCodesHold, RecoveryInvariant, PTL

LEMMA CountsHold == RecoveryInv => SendsCounted
<1> SUFFICES ASSUME RecoveryInv
             PROVE  SendsCounted
  OBVIOUS
<1>1. ASSUME NEW p \in Phone, table[p] # None
      PROVE  /\ table[p].requests <= SendLimit
             /\ table[p].requests =
                  Cardinality({i \in 1..Len(sent) : sent[i].phone = p /\ sent[i].at >= table[p].start})
  <2>1. {i \in Sends(p) : sent[i].at >= table[p].start} =
        {i \in 1..Len(sent) : sent[i].phone = p /\ sent[i].at >= table[p].start}
    BY DEF Sends
  <2> QED
    BY <1>1, <2>1 DEF RecoveryInv, PhoneOK
<1> QED
  BY <1>1 DEF SendsCounted, RecoveryInv, CodesSpaced

\* No phone is sent two codes closer than the cooldown, and its challenge counts exactly the codes
\* of the window, at most the limit, although a challenge can be deleted between the statements of
\* another request: a deleted row was too old to count or to pace anything that is being served.
THEOREM CodesCounted == RecoverySpec => []SendsCounted
BY CountsHold, RecoveryInvariant, PTL
-----------------------------------------------------------------------------
\* The codes of the challenges as the abstract specification sees them.
lives == [p \in Phone |-> LiveCode(p)]
missed == [p \in Phone |-> IF LiveCode(p) = 0 THEN 0 ELSE table[p].attempts]
untils == [p \in Phone |-> IF LiveCode(p) = 0 THEN 0 ELSE table[p].expires]

CodeOf(row) == IF row = None THEN 0 ELSE row.code
MissesOf(row) == IF CodeOf(row) = 0 THEN 0 ELSE row.attempts
UntilOf(row) == IF CodeOf(row) = 0 THEN 0 ELSE row.expires

\* The mapped columns, phone by phone.
LEMMA Columns ==
  /\ lives = [p \in Phone |-> CodeOf(table[p])] /\ lives' = [p \in Phone |-> CodeOf(table'[p])]
  /\ missed = [p \in Phone |-> MissesOf(table[p])] /\ missed' = [p \in Phone |-> MissesOf(table'[p])]
  /\ untils = [p \in Phone |-> UntilOf(table[p])] /\ untils' = [p \in Phone |-> UntilOf(table'[p])]
BY DEF lives, missed, untils, LiveCode, CodeOf, MissesOf, UntilOf

\* A write of one challenge, and the removal of others.
LEMMA MappedWrite ==
  ASSUME NEW p \in Phone, NEW P \in SUBSET Phone,
         \A q \in Phone \ {p} : table'[q] = IF q \in P THEN None ELSE table[q]
  PROVE  /\ lives' = [RecoveryCode!Cut(lives, P) EXCEPT ![p] = CodeOf(table'[p])]
         /\ missed' = [RecoveryCode!Cut(missed, P) EXCEPT ![p] = MissesOf(table'[p])]
         /\ untils' = [RecoveryCode!Cut(untils, P) EXCEPT ![p] = UntilOf(table'[p])]
         /\ lives[p] = CodeOf(table[p]) /\ missed[p] = MissesOf(table[p]) /\ untils[p] = UntilOf(table[p])
<1>1. CodeOf(None) = 0 /\ MissesOf(None) = 0 /\ UntilOf(None) = 0
  BY DEF CodeOf, MissesOf, UntilOf
<1>2. lives' = [RecoveryCode!Cut(lives, P) EXCEPT ![p] = CodeOf(table'[p])] /\ lives[p] = CodeOf(table[p])
  BY <1>1, Columns DEF RecoveryCode!Cut
<1>3. missed' = [RecoveryCode!Cut(missed, P) EXCEPT ![p] = MissesOf(table'[p])] /\ missed[p] = MissesOf(table[p])
  BY <1>1, Columns DEF RecoveryCode!Cut
<1>4. untils' = [RecoveryCode!Cut(untils, P) EXCEPT ![p] = UntilOf(table'[p])] /\ untils[p] = UntilOf(table[p])
  BY <1>1, Columns DEF RecoveryCode!Cut
<1> QED
  BY <1>2, <1>3, <1>4

\* Nothing more goes with the code of one phone.
LEMMA CutNone ==
  ASSUME NEW p \in Phone
  PROVE  /\ RecoveryCode!Cut(lives, {}) = lives /\ RecoveryCode!Cut(missed, {}) = missed
         /\ RecoveryCode!Cut(untils, {}) = untils
         /\ RecoveryCode!Cut(lives, {p}) = [lives EXCEPT ![p] = 0]
         /\ RecoveryCode!Cut(missed, {p}) = [missed EXCEPT ![p] = 0]
         /\ RecoveryCode!Cut(untils, {p}) = [untils EXCEPT ![p] = 0]
BY DEF RecoveryCode!Cut, lives, missed, untils

\* A write of one challenge.
LEMMA OneWrite ==
  ASSUME NEW p \in Phone, \A q \in Phone \ {p} : table'[q] = table[q]
  PROVE  /\ lives' = [lives EXCEPT ![p] = CodeOf(table'[p])]
         /\ missed' = [missed EXCEPT ![p] = MissesOf(table'[p])]
         /\ untils' = [untils EXCEPT ![p] = UntilOf(table'[p])]
         /\ lives[p] = CodeOf(table[p]) /\ missed[p] = MissesOf(table[p]) /\ untils[p] = UntilOf(table[p])
<1>1. PICK P \in SUBSET Phone : P = {}
  OBVIOUS
<1>2. \A q \in Phone \ {p} : table'[q] = IF q \in P THEN None ELSE table[q]
  BY <1>1
<1>3. /\ lives' = [RecoveryCode!Cut(lives, P) EXCEPT ![p] = CodeOf(table'[p])]
      /\ missed' = [RecoveryCode!Cut(missed, P) EXCEPT ![p] = MissesOf(table'[p])]
      /\ untils' = [RecoveryCode!Cut(untils, P) EXCEPT ![p] = UntilOf(table'[p])]
      /\ lives[p] = CodeOf(table[p]) /\ missed[p] = MissesOf(table[p]) /\ untils[p] = UntilOf(table[p])
  BY <1>2, MappedWrite
<1> QED
  BY <1>1, <1>3, CutNone

\* The code of one phone that goes without being accepted is withdrawn.
LEMMA OneWithdrawn ==
  ASSUME NEW p \in Phone, \A q \in Phone \ {p} : table'[q] = table[q], CodeOf(table'[p]) = 0,
         UNCHANGED <<sent, recovered, clock>>
  PROVE  RecoveryCode!Next
<1>1. MissesOf(table'[p]) = 0 /\ UntilOf(table'[p]) = 0
  BY DEF MissesOf, UntilOf
<1>3. /\ lives' = [lives EXCEPT ![p] = 0] /\ missed' = [missed EXCEPT ![p] = 0]
      /\ untils' = [untils EXCEPT ![p] = 0]
  BY <1>1, OneWrite
<1>4. /\ lives' = RecoveryCode!Cut(lives, {p}) /\ missed' = RecoveryCode!Cut(missed, {p})
      /\ untils' = RecoveryCode!Cut(untils, {p})
  BY <1>3, CutNone
<1>5. RecoveryCode!Withdraw
  <2>1. {p} \in SUBSET Phone
    OBVIOUS
  <2> QED
    BY <1>4, <2>1 DEF RecoveryCode!Withdraw, RecoveryCode!Gone, lives, missed, untils
<1> QED
  BY <1>5 DEF RecoveryCode!Next

\* Steps that leave the challenges and the codes stutter.
LEMMA MappedStutter ==
  ASSUME \A p \in Phone : table'[p] = table[p], UNCHANGED <<sent, recovered, clock>>
  PROVE  UNCHANGED RecoveryCode!codeVars
<1>1. lives' = lives /\ missed' = missed /\ untils' = untils
  BY Columns
<1> QED
  BY <1>1 DEF RecoveryCode!codeVars, lives, missed, untils

\* A refusal withdraws the codes of the challenges it deletes.
LEMMA RefusalWithdraws ==
  ASSUME NEW s \in Session, Refusal(s)
  PROVE  RecoveryCode!Next
<1>1. \A p \in Phone : table'[p] = table[p] \/ table'[p] = None
  BY DEF Refusal, Removed
<1>2. PICK P \in SUBSET Phone : P = {p \in Phone : table'[p] # table[p]}
  OBVIOUS
<1>3. \A p \in Phone : table'[p] = IF p \in P THEN None ELSE table[p]
  BY <1>1, <1>2
<1>4. CodeOf(None) = 0 /\ MissesOf(None) = 0 /\ UntilOf(None) = 0
  BY DEF CodeOf, MissesOf, UntilOf
<1>5. /\ lives' = RecoveryCode!Cut(lives, P) /\ missed' = RecoveryCode!Cut(missed, P)
      /\ untils' = RecoveryCode!Cut(untils, P)
  BY <1>3, <1>4, Columns DEF RecoveryCode!Cut
<1>6. UNCHANGED <<sent, recovered, clock>>
  BY DEF Refusal
<1>7. RecoveryCode!Withdraw
  BY <1>5, <1>6 DEF RecoveryCode!Withdraw, RecoveryCode!Gone, lives, missed, untils
<1> QED
  BY <1>7 DEF RecoveryCode!Next

\* A drawn code replaces the one before, lasts as long as a code may from the request on, and its
\* commit withdraws the codes of other challenges that it deletes.
LEMMA DrawIssues ==
  ASSUME RecoveryInv, NEW s \in Session, NEW p \in Phone, Draw(s, p)
  PROVE  RecoveryCode!Next
<1>1. PICK row : row = table'[p]
  OBVIOUS
<1>2. /\ row \in Challenge /\ row.code = Len(sent) + 1 /\ row.attempts = 0 /\ row.expires = job[s].at + CodeLife
      /\ \A q \in Phone \ {p} : table'[q] = table[q] \/ table'[q] = None
  BY <1>1, DrawWrites DEF Removed
<1>3. RecoveryTyped /\ Len(sent) \in Nat /\ clock \in Nat /\ CodeLife \in Nat
  BY RecoveryShapes, Numbers DEF RecoveryInv
<1>4. job[s].at \in Nat /\ job[s].at <= clock
  BY <1>3, ChallengeSeen, Numbers DEF Draw, RecoveryInv, RecoveryKnows
<1>5. Len(sent') = Len(sent) + 1 /\ UNCHANGED <<recovered, clock>>
  BY <1>3, Numbers DEF Draw, RecoveryTyped
<1>6. row # None /\ row.code # 0
  BY <1>2, <1>3, RecoveryShapes
<1>7. CodeOf(row) = Len(sent) + 1 /\ MissesOf(row) = 0 /\ UntilOf(row) = job[s].at + CodeLife
  BY <1>2, <1>6 DEF CodeOf, MissesOf, UntilOf
<1>8. PICK P \in SUBSET Phone : P = {q \in Phone \ {p} : table'[q] # table[q]}
  OBVIOUS
<1>9. \A q \in Phone \ {p} : table'[q] = IF q \in P THEN None ELSE table[q]
  BY <1>2, <1>8
<1>10. PICK t \in 0..(clock + CodeLife) : t = job[s].at + CodeLife
  BY <1>3, <1>4
<1>11. /\ lives' = [RecoveryCode!Cut(lives, P) EXCEPT ![p] = Len(sent) + 1]
       /\ missed' = [RecoveryCode!Cut(missed, P) EXCEPT ![p] = 0]
       /\ untils' = [RecoveryCode!Cut(untils, P) EXCEPT ![p] = t]
  BY <1>1, <1>7, <1>9, <1>10, MappedWrite
<1>12. RecoveryCode!Issue(p)
  BY <1>5, <1>10, <1>11 DEF RecoveryCode!Issue, lives, missed, untils
<1> QED
  BY <1>12 DEF RecoveryCode!Next

\* An accepted code was live, within its life and short of the limit of wrong answers.
LEMMA CodeAccepted ==
  ASSUME RecoveryInv, NEW s \in Session, NEW p \in Phone, AcceptCode(s, p)
  PROVE  RecoveryCode!Next
<1>1. /\ Verified(s, p) /\ table[p] # None /\ Usable(table[p]) /\ job[s].code = table[p].code
      /\ recovered' = recovered \cup {table[p].code} /\ UNCHANGED <<clock, sent>>
  BY DEF AcceptCode
<1>2. PICK old \in Challenge : old = table[p]
  BY <1>1, RecoveryShapes DEF RecoveryInv
<1> DEFINE row == [old EXCEPT !.attempts = old.attempts + 1, !.code = 0]
<1>3. CommitRows(s, Put(draft[s], p, row))
  BY <1>2 DEF AcceptCode
<1>4. row.code = 0
  BY DEF Challenge
<1> HIDE DEF row
<1>5. table'[p] = row /\ \A q \in Phone \ {p} : table'[q] = table[q]
  BY <1>1, <1>3, VerifiedWrites
<1>6. CodeOf(row) = 0 /\ MissesOf(row) = 0 /\ UntilOf(row) = 0
  BY <1>4 DEF CodeOf, MissesOf, UntilOf
<1>7. /\ old.code # 0 /\ old.attempts < GuessLimit /\ old.expires > clock
      /\ CodeOf(old) = old.code /\ MissesOf(old) = old.attempts /\ UntilOf(old) = old.expires
  BY <1>1, <1>2 DEF Usable, CodeOf, MissesOf, UntilOf
<1>8. clock <= old.expires
  BY <1>7, <1>2, RecoveryShapes DEF RecoveryInv, Challenge
<1>9. /\ lives' = [lives EXCEPT ![p] = 0] /\ missed' = [missed EXCEPT ![p] = 0]
      /\ untils' = [untils EXCEPT ![p] = 0]
      /\ lives[p] = old.code /\ missed[p] = old.attempts /\ untils[p] = old.expires
  BY <1>2, <1>5, <1>6, <1>7, OneWrite
<1>10. /\ lives' = RecoveryCode!Cut(lives, {p}) /\ missed' = RecoveryCode!Cut(missed, {p})
       /\ untils' = RecoveryCode!Cut(untils, {p})
  BY <1>9, CutNone
<1>11. RecoveryCode!Accept(p)
  BY <1>1, <1>2, <1>7, <1>8, <1>9, <1>10 DEF RecoveryCode!Accept, RecoveryCode!Gone, lives, missed, untils
<1> QED
  BY <1>11 DEF RecoveryCode!Next

\* A wrong answer is counted, and the last one withdraws the code.
LEMMA MissCounts ==
  ASSUME RecoveryInv, NEW s \in Session, NEW p \in Phone, RejectWrong(s, p)
  PROVE  RecoveryCode!Next
<1>1. /\ Verified(s, p) /\ table[p] # None /\ Usable(table[p])
      /\ UNCHANGED <<clock, sent, recovered>>
  BY DEF RejectWrong, history
<1>2. PICK old \in Challenge : old = table[p]
  BY <1>1, RecoveryShapes DEF RecoveryInv
<1> DEFINE code == IF old.attempts + 1 >= GuessLimit THEN 0 ELSE old.code
           row == [old EXCEPT !.attempts = old.attempts + 1, !.code = code]
<1>3. CommitRows(s, Put(draft[s], p, row))
  BY <1>2 DEF RejectWrong
<1>4. row.code = code /\ row.attempts = old.attempts + 1 /\ row.expires = old.expires /\ row # None
  <2>1. old.attempts + 1 \in 0..GuessLimit /\ code \in Nat
    BY <1>1, <1>2, Numbers DEF Usable
  <2> HIDE DEF code
  <2>2. row \in Challenge
    BY <2>1 DEF Challenge
  <2>3. row # None
    BY <2>2, RecoveryShapes DEF RecoveryInv
  <2> QED
    BY <2>3 DEF Challenge
<1> HIDE DEF row
<1>5. table'[p] = row /\ \A q \in Phone \ {p} : table'[q] = table[q]
  BY <1>1, <1>3, VerifiedWrites
<1>6. CASE old.attempts + 1 >= GuessLimit
  BY <1>1, <1>4, <1>5, <1>6, OneWithdrawn DEF CodeOf
<1>7. CASE ~(old.attempts + 1 >= GuessLimit)
  <2>1. /\ CodeOf(row) = old.code /\ MissesOf(row) = old.attempts + 1 /\ UntilOf(row) = old.expires
        /\ CodeOf(old) = old.code /\ MissesOf(old) = old.attempts /\ UntilOf(old) = old.expires
        /\ old.code # 0
    BY <1>1, <1>2, <1>4, <1>7 DEF Usable, CodeOf, MissesOf, UntilOf
  <2>2. /\ lives' = [lives EXCEPT ![p] = lives[p]] /\ untils' = [untils EXCEPT ![p] = untils[p]]
        /\ missed' = [missed EXCEPT ![p] = missed[p] + 1]
        /\ lives[p] = old.code /\ missed[p] = old.attempts
    BY <1>2, <1>5, <2>1, OneWrite
  <2>3. lives' = lives /\ untils' = untils
    BY <2>2 DEF lives, untils
  <2>4. missed[p] + 1 < GuessLimit
    BY <1>7, <2>2, Numbers
  <2>5. RecoveryCode!Miss(p)
    BY <1>1, <2>1, <2>2, <2>3, <2>4 DEF RecoveryCode!Miss, lives, missed, untils
  <2> QED
    BY <2>5 DEF RecoveryCode!Next
<1> QED
  BY <1>6, <1>7

\* The failed delivery withdraws its own code, or finds another one.
LEMMA FailureWithdraws ==
  ASSUME RecoveryInv, NEW s \in Session, Withdraw(s)
  PROVE  [RecoveryCode!Next]_(RecoveryCode!codeVars)
<1>1. PICK p \in Phone : p = job[s].phone
  <2>1. pc[s] = "withdraw" /\ RecoveryTyped
    BY DEF Withdraw, RecoveryInv
  <2> QED
    BY <2>1, RecoveryShapes DEF RecoveryRequest
<1>2. /\ UNCHANGED <<clock, sent, recovered>>
      /\ \/ table' = table
         \/ table[p] # None /\ table' = [table EXCEPT ![p].code = 0]
  BY <1>1 DEF Withdraw, history
<1>3. CASE table' = table
  BY <1>2, <1>3, MappedStutter
<1>4. CASE table[p] # None /\ table' = [table EXCEPT ![p].code = 0]
  <2>1. PICK old \in Challenge : old = table[p]
    BY <1>4, RecoveryShapes DEF RecoveryInv
  <2> DEFINE row == [old EXCEPT !.code = 0]
  <2>2. row.code = 0
    BY DEF Challenge
  <2>3. RecoveryTyped /\ table' = [table EXCEPT ![p] = row]
    BY <1>4, <2>1, RecoveryShapes DEF RecoveryInv
  <2> HIDE DEF row
  <2>4. table'[p] = row /\ \A q \in Phone \ {p} : table'[q] = table[q]
    BY <2>3, RecoveryShapes
  <2>5. CodeOf(table'[p]) = 0
    BY <2>2, <2>4 DEF CodeOf
  <2> QED
    BY <1>2, <2>4, <2>5, OneWithdrawn
<1> QED
  BY <1>2, <1>3, <1>4

LEMMA NoCodesAtFirst == RecoveryInit => RecoveryCode!Init
<1>1. ASSUME RecoveryInit
      PROVE  \A p \in Phone : LiveCode(p) = 0
  BY <1>1 DEF RecoveryInit, NoRecovery, LiveCode, RecoveryRow
<1> QED
  BY <1>1 DEF RecoveryInit, BackendInit, NoRecovery, RecoveryCode!Init

LEMMA CodeSteps ==
  ASSUME RecoveryInv, [RecoveryNext]_recoveryVars
  PROVE  [RecoveryCode!Next]_(RecoveryCode!codeVars)
<1>1. ASSUME UNCHANGED <<table, sent, recovered, clock>>
      PROVE  UNCHANGED RecoveryCode!codeVars
  BY <1>1, MappedStutter
<1>2. CASE RecoveryTick
  BY <1>2 DEF RecoveryTick, history, RecoveryCode!Next, RecoveryCode!Pass, LiveCode
<1>3. CASE \E s \in Session, p \in Phone :
             \/ \E a \in Address : AskCode(s, p, a) \/ \E c \in 0..Len(sent) : AskBookings(s, p, a, c)
             \/ RefusePhone(s, p) \/ Draw(s, p)
             \/ RejectUnusable(s, p) \/ RejectWrong(s, p) \/ AcceptCode(s, p)
  <2>1. ASSUME NEW s \in Session, NEW p \in Phone, NEW a \in Address,
               AskCode(s, p, a) \/ \E c \in 0..Len(sent) : AskBookings(s, p, a, c)
        PROVE  UNCHANGED RecoveryCode!codeVars
    BY <1>1, <2>1 DEF AskCode, AskBookings, Ask
  <2> QED
    BY <1>3, <2>1, PhoneRefuses, UnusableRefuses, RefusalWithdraws, DrawIssues, MissCounts, CodeAccepted
<1>4. CASE \E s \in Session, t \in Throttle : PassThrottle(s, t) \/ RefuseThrottle(s, t)
  <2>1. ASSUME NEW s \in Session, NEW t \in Throttle, PassThrottle(s, t)
        PROVE  UNCHANGED RecoveryCode!codeVars
    BY <1>1, <2>1 DEF PassThrottle, history
  <2> QED
    BY <1>4, <2>1, ThrottleRefuses, RefusalWithdraws
<1>5. CASE \E s \in Session, x \in RecoveryRow : PurgeRow(s, x)
  BY <1>1, <1>5 DEF PurgeRow, history
<1>6. CASE \E s \in Session :
             \/ PurgeDone(s) \/ InsertMissing(s) \/ RowGone(s)
             \/ Deliver(s) \/ FailDelivery(s) \/ Withdraw(s) \/ AbortRecovery(s)
  <2>1. ASSUME NEW s \in Session,
               PurgeDone(s) \/ InsertMissing(s) \/ RowGone(s) \/ Deliver(s) \/ FailDelivery(s) \/ AbortRecovery(s)
        PROVE  UNCHANGED <<table, sent, recovered, clock>>
    BY <2>1 DEF PurgeDone, InsertMissing, RowGone, Deliver, FailDelivery, AbortRecovery, history
  <2> QED
    BY <1>1, <1>6, <2>1, FailureWithdraws
<1>7. CASE UNCHANGED recoveryVars
  BY <1>1, <1>7 DEF recoveryVars
<1> QED
  BY <1>2, <1>3, <1>4, <1>5, <1>6, <1>7 DEF RecoveryNext

\* The challenges are one-time codes, whatever requests, deliveries and deletions interleave: one
\* live code per phone, accepted once, within its life, dead at the last wrong answer and never
\* alive again.
THEOREM ChallengesOneTime == RecoverySpec => RecoveryImplementsOneTimeCode
BY NoCodesAtFirst, CodeSteps, RecoveryInvariant, PTL DEF RecoverySpec, RecoveryImplementsOneTimeCode, RecoveryCode!Spec
=============================================================================

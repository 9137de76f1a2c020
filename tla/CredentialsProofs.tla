--------------------------- MODULE CredentialsProofs ---------------------------
(***************************************************************************)
(* Sign-in for any number of accounts, sessions and requests: the lock     *)
(* after wrong passwords, the reset codes as one-time codes, and the       *)
(* versions of tokens where requests of management run alone.              *)
(***************************************************************************)
EXTENDS Credentials, FiniteSetTheorems, TLAPS

\* What the requests carry.
Decided == {"login", "request", "reset"}
Managing == {"change", "revoke", "update", "profile"}

CallRecord ==
  [kind : Decided \cup Managing \cup {"delete"}, account : Account, password : BOOLEAN, code : Nat,
   active : BOOLEAN \cup {None}, was : BOOLEAN \cup {None}, seen : SignInRow \cup {None}]

SignInStep == {"idle", "lock", "decide", "profile", "write"}

SignInTyped ==
  /\ CredentialsTypeOK
  /\ account \in [Account -> SignInRow \cup {None}] /\ resets \in Nat
  /\ job \in [Session -> CallRecord \cup {None}]
  /\ \A s \in Session : pc[s] # "idle" => job[s] \in CallRecord

\* A request that decides holds the lock of the account it read; one that writes may have read
\* the account long before.
SignInKnows(s) ==
  /\ pc[s] = "lock" => job[s].kind \in Decided
  /\ pc[s] = "decide" =>
       /\ job[s].kind \in Decided
       /\ lock[job[s].account] = s
       /\ job[s].seen = account[job[s].account] /\ job[s].seen \in SignInRow
  /\ pc[s] \in {"profile", "write"} /\ job[s].kind = "profile" =>
       job[s].account \in Professional /\ job[s].active \in BOOLEAN
  /\ pc[s] = "profile" => job[s].kind = "profile"
  /\ pc[s] = "write" => job[s].kind \in Managing \cup {"delete"}

\* Wrong passwords were met in the order of time.
Ordered(a) ==
  \A i \in 1..Len(wrong[a]) :
    wrong[a][i] <= clock /\ \A j \in i..Len(wrong[a]) : wrong[a][i] <= wrong[a][j]

\* The one after the limit came when the lock had ended.
WrongSpaced(a) ==
  \A i \in 1..Len(wrong[a]) :
    i + LoginLimit <= Len(wrong[a]) => wrong[a][i] + LockTime <= wrong[a][i + LoginLimit]

\* All but the last ones, as many as the account counts, were answered with a lock.
Locked(a) ==
  account[a] # None =>
    \A i \in 1..Len(wrong[a]) :
      i + account[a].failures <= Len(wrong[a]) => wrong[a][i] + LockTime <= account[a].locked

SignInInv ==
  /\ SignInTyped
  /\ \A s \in Session : SignInKnows(s)
  /\ \A a \in Account : Ordered(a) /\ WrongSpaced(a) /\ Locked(a)

\* A token is accepted, or the account has a later version.
Current ==
  \A t \in tokens : account[t[1]] # None => t[2] < account[t[1]].version \/ Valid(t)

\* Rows that agree on what decides about tokens.
SameVersion(x, y) == x # None /\ x.version = y.version /\ x.active = y.active

\* A request that writes what it read writes over the version and the activity it read.
UpToDate(s) ==
  pc[s] = "write" /\ job[s].kind # "delete" /\ account[job[s].account] # None =>
    SameVersion(job[s].seen, account[job[s].account])

TokenInv == Current /\ \A s \in Session : UpToDate(s)
-----------------------------------------------------------------------------
\* The steps of a request after its beginning; five of them only end it.
SignInRequest(s) ==
  \/ LockAccount(s) \/ RefuseUnknown(s) \/ AbortSignIn(s)
  \/ RefuseLogin(s) \/ RejectPassword(s) \/ AcceptPassword(s)
  \/ DrawReset(s) \/ RefuseDraw(s)
  \/ RefuseReset(s) \/ RejectReset(s) \/ AcceptReset(s)
  \/ FlushProfile(s) \/ WriteStale(s) \/ WriteProfileAlone(s) \/ DeleteAccount(s)

SignInRefused(s) == pc[s] # "idle" /\ Refuse(s)

\* The steps by what they do.
LEMMA RequestCases ==
  ASSUME NEW s, SignInRequest(s)
  PROVE  \/ SignInRefused(s) \/ LockAccount(s) \/ FlushProfile(s)
         \/ RejectPassword(s) \/ AcceptPassword(s) \/ DrawReset(s) \/ RejectReset(s) \/ AcceptReset(s)
         \/ WriteStale(s) \/ WriteProfileAlone(s) \/ DeleteAccount(s)
BY DEF SignInRequest, SignInRefused, RefuseUnknown, AbortSignIn, RefuseLogin, RefuseDraw, RefuseReset, Deciding

\* What the assumptions and the types say, for the steps that follow.
LEMMA SignInShapes ==
  ASSUME SignInTyped
  PROVE  /\ pc \in [Session -> SignInStep] /\ job \in [Session -> CallRecord \cup {None}]
         /\ \A s \in Session : pc[s] # "idle" => job[s] \in CallRecord
         /\ clock \in Nat /\ clock \in Instant /\ resets \in Nat
         /\ lock \in [CredentialRow -> Session \cup {None}]
         /\ account \in [Account -> SignInRow \cup {None}]
         /\ \A a \in Account : account[a] # None => account[a].code <= resets
         /\ profile \in [Professional -> BOOLEAN] /\ tokens \subseteq Account \X Nat
         /\ wrong \in [Account -> Seq(Instant)] /\ redeemed \subseteq 1..resets
         /\ None \notin Session /\ None \notin Account \cup SignInRow
         /\ Professional \subseteq Account /\ Account \subseteq CredentialRow
         /\ \A a \in Professional : Profile(a) \in CredentialRow /\ Profile(a) \notin Account
         /\ LoginLimit \in Nat \ {0} /\ LockTime \in Nat \ {0} /\ ResetGuesses \in Nat \ {0}
         /\ ResetLife \in Nat /\ ResetCooldown \in Nat
<1>1. \A a \in Professional : Profile(a) \in {"profile"} \X Account
  BY AccountAssumption DEF Profile
<1>2. \A a \in Professional : Profile(a) \in CredentialRow /\ Profile(a) \notin Account
  BY <1>1, AccountAssumption DEF CredentialRow
<1>3. Account \subseteq CredentialRow /\ Instant \subseteq Nat
  BY HorizonAssumption DEF CredentialRow, Instant
<1> QED
  BY <1>2, <1>3, AccountAssumption, SessionAssumption DEF SignInTyped, CredentialsTypeOK, SignInStep

\* A flush leaves a row; a column that was not assigned is the one of the table.
LEMMA FlushedSignIn ==
  ASSUME NEW stored \in SignInRow, NEW seen \in SignInRow, NEW row \in SignInRow
  PROVE  LET new == Flushed(stored, seen, row) IN
         /\ new \in SignInRow
         /\ stored = seen => new = row
         /\ row.code = seen.code => new.code = stored.code
         /\ row.expires = seen.expires => new.expires = stored.expires
         /\ row.attempts = seen.attempts => new.attempts = stored.attempts
         /\ row.failures = seen.failures => new.failures = stored.failures
         /\ row.locked = seen.locked => new.locked = stored.locked
         /\ SameVersion(seen, stored) => new.version = row.version /\ new.active = row.active
<1> DEFINE new == Flushed(stored, seen, row)
           Column == {"active", "version", "failures", "locked", "code", "expires", "requested", "attempts"}
<1>1. DOMAIN row = Column
  BY DEF SignInRow
<1>2. new = [f \in Column |-> IF row[f] # seen[f] THEN row[f] ELSE stored[f]]
  BY <1>1 DEF Flushed
<1>3. new = [active |-> new.active, version |-> new.version, failures |-> new.failures,
             locked |-> new.locked, code |-> new.code, expires |-> new.expires,
             requested |-> new.requested, attempts |-> new.attempts]
  BY <1>2
<1>4. /\ new.active \in BOOLEAN /\ new.version \in Nat /\ new.failures \in 0..LoginLimit - 1
      /\ new.locked \in Nat /\ new.code \in Nat /\ new.expires \in Nat /\ new.requested \in Int
      /\ new.attempts \in 0..ResetGuesses
  BY <1>2 DEF SignInRow
<1>5. new \in SignInRow
  BY <1>3, <1>4 DEF SignInRow
<1>6. ASSUME stored = seen
      PROVE  new = row
  <2>1. \A f \in Column : new[f] = row[f]
    BY <1>2, <1>6
  <2> QED
    BY <1>1, <1>2, <2>1 DEF SignInRow
<1>7. /\ row.code = seen.code => new.code = stored.code
      /\ row.expires = seen.expires => new.expires = stored.expires
      /\ row.attempts = seen.attempts => new.attempts = stored.attempts
      /\ row.failures = seen.failures => new.failures = stored.failures
      /\ row.locked = seen.locked => new.locked = stored.locked
  BY <1>2
<1>8. SameVersion(seen, stored) => new.version = row.version /\ new.active = row.active
  BY <1>2 DEF SameVersion
<1> HIDE DEF new
<1> QED
  BY <1>5, <1>6, <1>7, <1>8 DEF new

\* A request of management assigns the version and the activity, and clears the count with a
\* new password.
LEMMA AssignedRow ==
  ASSUME NEW call \in CallRecord, call.seen \in SignInRow
  PROVE  LET row == Assigned(call)  seen == call.seen IN
         /\ row \in SignInRow
         /\ row.code = seen.code /\ row.expires = seen.expires /\ row.attempts = seen.attempts
         /\ ~call.password => row.failures = seen.failures /\ row.locked = seen.locked
         /\ row.version >= seen.version
         /\ row.active = IF call.active = None THEN seen.active ELSE call.active
         /\ row.active # seen.active => row.version > seen.version
<1> DEFINE seen == call.seen
           row == IF call.kind = "revoke" THEN [call.seen EXCEPT !.version = @ + 1]
                  ELSE IF call.password THEN [Cleared(call.seen) EXCEPT !.version = @ + 1]
                  ELSE call.seen
<1>1. seen \in SignInRow /\ seen.version \in Nat /\ 0 \in 0..LoginLimit - 1
  BY AccountAssumption DEF SignInRow
<1>2. /\ row \in SignInRow
      /\ row.code = seen.code /\ row.expires = seen.expires /\ row.attempts = seen.attempts
      /\ ~call.password => row.failures = seen.failures /\ row.locked = seen.locked
      /\ row.version >= seen.version /\ row.active = seen.active
  <2>1. CASE call.kind = "revoke"
    <3>1. row = [seen EXCEPT !.version = seen.version + 1]
      BY <2>1
    <3> HIDE DEF row, seen
    <3> QED
      BY <1>1, <3>1 DEF SignInRow
  <2>2. CASE call.kind # "revoke" /\ call.password
    <3>1. row = [Cleared(seen) EXCEPT !.version = @ + 1]
      BY <2>2
    <3>2. Cleared(seen) \in SignInRow /\ Cleared(seen).code = seen.code
          /\ Cleared(seen).expires = seen.expires /\ Cleared(seen).attempts = seen.attempts
          /\ Cleared(seen).version = seen.version /\ Cleared(seen).active = seen.active
      BY <1>1 DEF Cleared, SignInRow
    <3> HIDE DEF row, seen
    <3> QED
      BY <1>1, <2>2, <3>1, <3>2 DEF SignInRow
  <2>3. CASE call.kind # "revoke" /\ ~call.password
    <3>1. row = seen
      BY <2>3
    <3> HIDE DEF row, seen
    <3>2. seen.version >= seen.version
      BY <1>1
    <3> QED
      BY <1>1, <3>1, <3>2
  <2> QED
    BY <2>1, <2>2, <2>3
<1>3. Assigned(call) = IF call.active = None THEN row ELSE Activated(row, call.active)
  BY DEF Assigned
<1> HIDE DEF row, seen
<1>4. CASE call.active = None
  BY <1>2, <1>3, <1>4 DEF seen
<1>5. CASE call.active # None
  <2> DEFINE version == IF row.active # call.active THEN row.version + 1 ELSE row.version
             new == [row EXCEPT !.active = call.active, !.version = version]
  <2>1. Assigned(call) = new
    BY <1>3, <1>5 DEF Activated
  <2>2. call.active \in BOOLEAN /\ row.version \in Nat
    BY <1>2, <1>5 DEF CallRecord, SignInRow
  <2>5. version \in Nat /\ version >= row.version /\ (call.active # row.active => version > row.version)
    BY <2>2
  <2> HIDE DEF version
  <2>3. /\ new \in SignInRow
        /\ new.code = row.code /\ new.expires = row.expires /\ new.attempts = row.attempts
        /\ new.failures = row.failures /\ new.locked = row.locked
        /\ new.version >= row.version /\ new.active = call.active
        /\ new.active # row.active => new.version > row.version
    BY <1>2, <2>2, <2>5 DEF SignInRow
  <2> HIDE DEF new
  <2>4. seen.version \in Nat /\ new.version \in Nat
    BY <1>1, <2>3 DEF SignInRow
  <2> QED
    BY <1>2, <1>5, <2>1, <2>2, <2>3, <2>4 DEF seen
<1> QED
  BY <1>4, <1>5
-----------------------------------------------------------------------------
\* What the others rely on while a request writes.
AccountKept(s) ==
  /\ account' \in [Account -> SignInRow \cup {None}]
  /\ \A x \in Account : account'[x] # None => account'[x].code <= resets'
  /\ \A x \in Account : lock[x] \in Session \ {s} => account'[x] = account[x]
  /\ resets' \in Nat /\ resets <= resets'
  /\ tokens' \subseteq Account \X Nat /\ wrong' \in [Account -> Seq(Instant)]
  /\ redeemed' \subseteq 1..resets' /\ profile' \in [Professional -> BOOLEAN]

Guarded(a) == Ordered(a) /\ WrongSpaced(a) /\ Locked(a)

\* A request that has decided stores the row it computed: nobody wrote since it read.
LEMMA DecidedStore ==
  ASSUME SignInInv, NEW s \in Session, pc[s] = "decide", NEW row \in SignInRow, Store(s, row)
  PROVE  /\ job[s].account \in Account /\ job[s].seen \in SignInRow /\ job[s] \in CallRecord
         /\ account[job[s].account] = job[s].seen
         /\ account' = [account EXCEPT ![job[s].account] = row]
         /\ account'[job[s].account] = row
         /\ lock[job[s].account] = s
<1>1. SignInTyped /\ SignInKnows(s) /\ job[s] \in CallRecord
  BY DEF SignInInv, SignInTyped
<1>2. job[s].account \in Account /\ account[job[s].account] = job[s].seen /\ job[s].seen \in SignInRow
      /\ lock[job[s].account] = s
  BY <1>1 DEF SignInKnows, CallRecord
<1>3. Flushed(account[job[s].account], job[s].seen, row) = row
  BY <1>2, FlushedSignIn
<1>4. account' = [account EXCEPT ![job[s].account] = Flushed(account[job[s].account], job[s].seen, row)]
  BY DEF Store
<1> QED
  BY <1>1, <1>2, <1>3, <1>4, SignInShapes

\* A write of an account whose lock no other session holds.
LEMMA OneAccount ==
  ASSUME SignInInv, NEW s \in Session, NEW a \in Account, NEW row \in SignInRow \cup {None},
         account' = [account EXCEPT ![a] = row], lock[a] \in {None, s},
         row # None => row.code <= resets', resets' \in Nat, resets <= resets'
  PROVE  /\ account' \in [Account -> SignInRow \cup {None}]
         /\ \A x \in Account : account'[x] # None => account'[x].code <= resets'
         /\ \A x \in Account : lock[x] \in Session \ {s} => account'[x] = account[x]
         /\ account'[a] = row /\ \A x \in Account \ {a} : account'[x] = account[x]
<1>1. SignInTyped
  BY DEF SignInInv
<1>2. account'[a] = row /\ \A x \in Account \ {a} : account'[x] = account[x]
  BY <1>1, SignInShapes
<1>3. account' \in [Account -> SignInRow \cup {None}]
  BY <1>1, SignInShapes
<1>4. ASSUME NEW x \in Account, account'[x] # None
      PROVE  account'[x].code <= resets'
  <2>1. CASE x = a
    BY <1>2, <1>4, <2>1
  <2>2. CASE x # a
    <3>1. account[x] # None /\ account'[x] = account[x] /\ account[x] \in SignInRow
      BY <1>1, <1>2, <1>4, <2>2, SignInShapes
    <3>2. account[x].code <= resets /\ account[x].code \in Nat
      BY <1>1, <3>1, SignInShapes DEF SignInRow
    <3> QED
      BY <1>1, <3>1, <3>2, SignInShapes
  <2> QED
    BY <2>1, <2>2
<1>5. \A x \in Account : lock[x] \in Session \ {s} => account'[x] = account[x]
  BY <1>1, <1>2, SignInShapes
<1> QED
  BY <1>2, <1>3, <1>4, <1>5

\* An account whose wrong passwords and count stay, while time may pass.
LEMMA GuardStays ==
  ASSUME SignInInv, NEW a \in Account, wrong'[a] = wrong[a], clock' \in Nat, clock <= clock',
         account'[a] # None =>
           /\ account[a] # None
           /\ account'[a].failures = account[a].failures /\ account'[a].locked = account[a].locked
  PROVE  Guarded(a)'
<1>1. Guarded(a) /\ SignInTyped
  BY DEF SignInInv, Guarded
<1>2. wrong[a] \in Seq(Nat)
  BY <1>1, SignInShapes, HorizonAssumption DEF Instant
<1>3. Ordered(a)'
  BY <1>1, <1>2, SignInShapes DEF Guarded, Ordered
<1>4. WrongSpaced(a)' /\ Locked(a)'
  BY <1>1 DEF Guarded, WrongSpaced, Locked
<1> QED
  BY <1>3, <1>4 DEF Guarded

\* An account whose count was cleared.
LEMMA GuardCleared ==
  ASSUME NEW a \in Account, wrong'[a] = <<>>
  PROVE  Guarded(a)'
BY DEF Guarded, Ordered, WrongSpaced, Locked

\* The row after a wrong password.
LEMMA RejectedRow ==
  ASSUME SignInInv, NEW seen \in SignInRow
  PROVE  LET row == IF seen.failures + 1 >= LoginLimit
                    THEN [seen EXCEPT !.failures = 0, !.locked = clock + LockTime]
                    ELSE [seen EXCEPT !.failures = @ + 1]
         IN /\ row \in SignInRow /\ row.code = seen.code /\ row.expires = seen.expires
            /\ row.attempts = seen.attempts /\ row.version = seen.version /\ row.active = seen.active
            /\ \/ row.failures = 0 /\ row.locked = clock + LockTime
               \/ row.failures = seen.failures + 1 /\ row.locked = seen.locked
<1>1. /\ seen.failures \in 0..LoginLimit - 1 /\ clock + LockTime \in Nat /\ LoginLimit \in Nat \ {0}
  BY SignInShapes DEF SignInInv, SignInRow
<1>2. CASE seen.failures + 1 >= LoginLimit
  <2> DEFINE until == clock + LockTime
             row == [seen EXCEPT !.failures = 0, !.locked = until]
  <2>1. until \in Nat /\ 0 \in 0..LoginLimit - 1
    BY <1>1
  <2> HIDE DEF until
  <2>2. row \in SignInRow /\ row.code = seen.code /\ row.expires = seen.expires
        /\ row.attempts = seen.attempts /\ row.version = seen.version /\ row.active = seen.active
        /\ row.failures = 0 /\ row.locked = until
    BY <2>1 DEF SignInRow
  <2> QED
    BY <1>2, <2>2 DEF until
<1>3. CASE ~(seen.failures + 1 >= LoginLimit)
  <2>1. seen.failures + 1 \in 0..LoginLimit - 1
    BY <1>1, <1>3
  <2> QED
    BY <1>3, <2>1 DEF SignInRow
<1> QED
  BY <1>2, <1>3

\* A wrong password after the limit is met only when the lock of the account has ended.
LEMMA RejectKeeps ==
  ASSUME SignInInv, NEW s \in Session, RejectPassword(s)
  PROVE  AccountKept(s) /\ \A x \in Account : Guarded(x)'
<1>0. PICK a \in Account : a = job[s].account
  BY DEF SignInInv, SignInTyped, CallRecord, RejectPassword, Deciding
<1> DEFINE seen == job[s].seen  w == wrong[a]
           row == IF seen.failures + 1 >= LoginLimit
                  THEN [seen EXCEPT !.failures = 0, !.locked = clock + LockTime]
                  ELSE [seen EXCEPT !.failures = @ + 1]
<1>1. /\ pc[s] = "decide" /\ MayLogin(s) /\ Store(s, row)
      /\ wrong' = [wrong EXCEPT ![a] = Append(w, clock)]
      /\ UNCHANGED <<profile, tokens, resets, redeemed>>
  BY <1>0 DEF RejectPassword, Deciding
<1>2. seen \in SignInRow
  BY <1>1 DEF SignInInv, SignInKnows
<1>3. row \in SignInRow /\ row.code = seen.code
      /\ \/ row.failures = 0 /\ row.locked = clock + LockTime
         \/ row.failures = seen.failures + 1 /\ row.locked = seen.locked
  BY <1>2, RejectedRow
<1> HIDE DEF row
<1>4. /\ a \in Account /\ account[a] = seen /\ account' = [account EXCEPT ![a] = row]
      /\ account'[a] = row /\ lock[a] = s
  BY <1>0, <1>1, <1>3, DecidedStore
<1>5. /\ w \in Seq(Instant) /\ clock \in Instant /\ Instant \subseteq Nat /\ LoginLimit \in Nat \ {0}
      /\ LockTime \in Nat \ {0} /\ clock' = clock
      /\ account \in [Account -> SignInRow \cup {None}] /\ wrong \in [Account -> Seq(Instant)]
  BY <1>1, <1>4, SignInShapes, HorizonAssumption DEF SignInInv, Store, Instant
<1>6. seen.locked <= clock /\ seen.locked \in Nat /\ seen.failures \in 0..LoginLimit - 1 /\ seen # None
  BY <1>0, <1>1, <1>2, SignInShapes DEF SignInInv, MayLogin, SignInRow
<1>7. wrong'[a] = Append(w, clock) /\ \A x \in Account \ {a} : wrong'[x] = wrong[x]
  BY <1>1, <1>4, <1>5
<1>8. \A x \in Account \ {a} : account'[x] = account[x]
  BY <1>4, <1>5
<1>9. AccountKept(s)
  <2>1. row.code <= resets' /\ resets' \in Nat /\ resets <= resets' /\ wrong' \in [Account -> Seq(Instant)]
    BY <1>1, <1>3, <1>4, <1>5, <1>6, SignInShapes DEF SignInInv
  <2> QED
    BY <1>1, <1>3, <1>4, <2>1, OneAccount, SignInShapes DEF SignInInv, AccountKept
<1>10. Guarded(a)'
  <2> DEFINE v == Append(w, clock)  n == Len(w)
  <2>1. Ordered(a) /\ WrongSpaced(a) /\ Locked(a)
    BY <1>4 DEF SignInInv
  <2>2. /\ n \in Nat /\ Len(v) = n + 1 /\ v[n + 1] = clock
        /\ \A i \in 1..n : v[i] = w[i] /\ w[i] \in Nat /\ w[i] <= clock
    <3>1. \A i \in 1..n : w[i] <= clock
      BY <2>1 DEF Ordered
    <3> HIDE DEF w
    <3>2. n \in Nat /\ Len(v) = n + 1 /\ v[n + 1] = clock
      BY <1>5
    <3>3. ASSUME NEW i \in 1..n
          PROVE  v[i] = w[i] /\ w[i] \in Nat
      <4>1. w[i] \in Instant
        BY <1>5
      <4>2. v[i] = w[i]
        BY <1>5
      <4> QED
        BY <1>5, <4>1, <4>2
    <3> QED
      BY <3>1, <3>2, <3>3
  <2>3. \A i \in 1..n : \A j \in i..n : w[i] <= w[j]
    BY <2>1 DEF Ordered
  <2>4. \A i \in 1..n : i + LoginLimit <= n => w[i] + LockTime <= w[i + LoginLimit]
    BY <2>1 DEF WrongSpaced
  <2>5. \A i \in 1..n : i + seen.failures <= n => w[i] + LockTime <= seen.locked
    BY <1>4, <1>6, <2>1 DEF Locked
  <2> HIDE DEF v, n, w, seen
  <2>6. ASSUME NEW i \in 1..n + 1
        PROVE  v[i] <= clock /\ \A j \in i..n + 1 : v[i] <= v[j]
    <3>1. CASE i = n + 1
      BY <1>5, <2>2, <3>1
    <3>2. CASE i \in 1..n
      <4>1. ASSUME NEW j \in i..n + 1
            PROVE  v[i] <= v[j]
        <5>1. CASE j = n + 1
          BY <2>2, <3>2, <5>1
        <5>2. CASE j # n + 1
          <6>1. j \in i..n /\ j \in 1..n
            BY <2>2, <3>2, <5>2
          <6> QED
            BY <2>2, <2>3, <3>2, <6>1
        <5> QED
          BY <5>1, <5>2
      <4> QED
        BY <2>2, <3>2, <4>1
    <3> QED
      BY <2>2, <3>1, <3>2
  <2>7. ASSUME NEW i \in 1..n + 1, i + LoginLimit <= n + 1
        PROVE  v[i] + LockTime <= v[i + LoginLimit]
    <3>1. i \in 1..n /\ i + LoginLimit \in 1..n + 1
      BY <1>5, <2>2, <2>7
    <3>2. CASE i + LoginLimit <= n
      <4>1. i + LoginLimit \in 1..n
        BY <2>2, <3>1, <3>2
      <4> QED
        BY <2>2, <2>4, <3>1, <3>2, <4>1
    <3>3. CASE i + LoginLimit = n + 1
      <4>1. i + seen.failures <= n
        BY <1>5, <1>6, <2>2, <3>3
      <4>2. w[i] + LockTime <= seen.locked
        BY <2>5, <3>1, <4>1
      <4> QED
        <5>1. v[i] = w[i] /\ w[i] \in Nat /\ v[i + LoginLimit] = clock
          BY <2>2, <3>1, <3>3
        <5> QED
          BY <1>5, <1>6, <4>2, <5>1
    <3> QED
      BY <1>5, <2>2, <2>7, <3>2, <3>3
  <2>8. ASSUME NEW i \in 1..n + 1, i + row.failures <= n + 1
        PROVE  v[i] + LockTime <= row.locked
    <3>1. CASE row.failures = 0 /\ row.locked = clock + LockTime
      <4>1. v[i] \in Nat /\ v[i] <= clock
        <5>1. i = n + 1 \/ i \in 1..n
          BY <2>2
        <5> QED
          BY <1>5, <2>2, <2>6, <5>1
      <4> QED
        BY <1>5, <3>1, <4>1
    <3>2. CASE row.failures = seen.failures + 1 /\ row.locked = seen.locked
      <4>1. i + seen.failures <= n /\ i \in 1..n
        BY <1>6, <2>2, <2>8, <3>2
      <4> QED
        BY <2>2, <2>5, <3>2, <4>1
    <3> QED
      BY <1>3, <3>1, <3>2
  <2>9. wrong'[a] = v /\ Len(v) = n + 1 /\ clock' = clock /\ account'[a] = row
    BY <1>4, <1>5, <1>7, <2>2 DEF v, w
  <2>10. Ordered(a)'
    BY <2>6, <2>9 DEF Ordered
  <2>11. WrongSpaced(a)'
    BY <2>7, <2>9 DEF WrongSpaced
  <2>12. Locked(a)'
    BY <2>8, <2>9 DEF Locked
  <2> QED
    BY <2>10, <2>11, <2>12 DEF Guarded
<1>11. ASSUME NEW x \in Account \ {a}
       PROVE  Guarded(x)'
  BY <1>5, <1>7, <1>8, GuardStays
<1> QED
  BY <1>9, <1>10, <1>11
-----------------------------------------------------------------------------
\* The rows after the right password, a new code, a wrong code and a new password.
LEMMA ClearedRow ==
  ASSUME NEW seen \in SignInRow
  PROVE  /\ Cleared(seen) \in SignInRow /\ Cleared(seen).failures = 0
         /\ Cleared(seen).code = seen.code /\ Cleared(seen).expires = seen.expires
         /\ Cleared(seen).attempts = seen.attempts /\ Cleared(seen).version = seen.version
         /\ Cleared(seen).active = seen.active
<1>1. 0 \in 0..LoginLimit - 1
  BY AccountAssumption
<1> QED
  BY <1>1 DEF Cleared, SignInRow

\* The row after a code is drawn.
DrawnRow(seen) ==
  [seen EXCEPT !.code = resets + 1, !.expires = clock + ResetLife, !.requested = clock, !.attempts = 0]

\* A drawn code is the next one, and has no wrong answers.
LEMMA DrawnRowFacts ==
  ASSUME SignInTyped, NEW seen \in SignInRow
  PROVE  /\ DrawnRow(seen) \in SignInRow
         /\ DrawnRow(seen).code = resets + 1 /\ DrawnRow(seen).expires = clock + ResetLife
         /\ DrawnRow(seen).attempts = 0 /\ DrawnRow(seen).version = seen.version
         /\ DrawnRow(seen).active = seen.active
         /\ DrawnRow(seen).failures = seen.failures /\ DrawnRow(seen).locked = seen.locked
<1>1. resets + 1 \in Nat /\ clock + ResetLife \in Nat /\ clock \in Int /\ 0 \in 0..ResetGuesses
  BY SignInShapes
<1> QED
  BY <1>1 DEF DrawnRow, SignInRow

\* The last wrong answer destroys the code.
LEMMA MissedRow ==
  ASSUME SignInTyped, NEW seen \in SignInRow, seen.attempts < ResetGuesses
  PROVE  /\ Missed(seen) \in SignInRow /\ Missed(seen).attempts = seen.attempts + 1
         /\ IF seen.attempts + 1 >= ResetGuesses THEN Missed(seen).code = 0
            ELSE Missed(seen).code = seen.code /\ Missed(seen).expires = seen.expires
         /\ Missed(seen).version = seen.version /\ Missed(seen).active = seen.active
         /\ Missed(seen).failures = seen.failures /\ Missed(seen).locked = seen.locked
<1>1. seen.attempts + 1 \in 0..ResetGuesses /\ 0 \in Nat
  BY SMTT(30), SignInShapes DEF SignInRow
<1>2. CASE seen.attempts + 1 >= ResetGuesses
  BY <1>1, <1>2 DEF Missed, SignInRow
<1>3. CASE ~(seen.attempts + 1 >= ResetGuesses)
  BY <1>1, <1>3 DEF Missed, SignInRow
<1> QED
  BY <1>2, <1>3

\* A redeemed code is gone, and the tokens given so far carry an old version.
LEMMA ResetRowFacts ==
  ASSUME NEW seen \in SignInRow
  PROVE  /\ ResetRow(seen) \in SignInRow /\ ResetRow(seen).code = 0
         /\ ResetRow(seen).version = seen.version + 1 /\ ResetRow(seen).active = seen.active
<1> DEFINE row == Cleared(seen)
<1>1. row \in SignInRow /\ row.version = seen.version /\ row.active = seen.active /\ seen.version \in Nat
  BY ClearedRow DEF SignInRow
<1>2. ResetRow(seen) = [row EXCEPT !.version = @ + 1, !.code = 0, !.expires = 0,
                                  !.requested = -ResetCooldown, !.attempts = 0]
  BY DEF ResetRow
<1>3. -ResetCooldown \in Int /\ 0 \in 0..ResetGuesses /\ 0 \in Nat /\ row.version + 1 \in Nat
  BY <1>1, AccountAssumption
<1> HIDE DEF row
<1> QED
  BY <1>1, <1>2, <1>3 DEF SignInRow

\* The right password clears the count.
LEMMA AcceptKeeps ==
  ASSUME SignInInv, NEW s \in Session, AcceptPassword(s)
  PROVE  AccountKept(s) /\ \A x \in Account : Guarded(x)'
<1>1. PICK a \in Account : a = job[s].account
  BY DEF SignInInv, SignInTyped, CallRecord, AcceptPassword, Deciding
<1> DEFINE seen == job[s].seen  row == Cleared(seen)
<1>2. /\ pc[s] = "decide" /\ Store(s, row) /\ tokens' = tokens \cup {<<a, seen.version>>}
      /\ wrong' = [wrong EXCEPT ![a] = <<>>] /\ UNCHANGED <<profile, resets, redeemed>> /\ clock' = clock
  BY <1>1 DEF AcceptPassword, Deciding, Store
<1>3. seen \in SignInRow
  BY <1>2 DEF SignInInv, SignInKnows
<1>4. row \in SignInRow /\ row.code = seen.code /\ seen.version \in Nat
  BY <1>3, ClearedRow DEF SignInRow
<1> HIDE DEF row
<1>5. /\ account[a] = seen /\ account' = [account EXCEPT ![a] = row] /\ lock[a] = s
  BY <1>1, <1>2, <1>4, DecidedStore
<1>6. seen # None /\ wrong \in [Account -> Seq(Instant)] /\ clock \in Nat /\ SignInTyped
  BY <1>3, SignInShapes DEF SignInInv
<1>7. wrong'[a] = <<>> /\ \A x \in Account \ {a} : wrong'[x] = wrong[x]
  BY <1>2, <1>6
<1>8. \A x \in Account \ {a} : account'[x] = account[x]
  BY <1>5, <1>6, SignInShapes
<1>9. AccountKept(s)
  <2>1. row.code <= resets' /\ resets' \in Nat /\ resets <= resets'
    BY <1>2, <1>4, <1>5, <1>6, SignInShapes
  <2>2. tokens' \subseteq Account \X Nat /\ wrong' \in [Account -> Seq(Instant)]
    BY <1>2, <1>4, <1>6, SignInShapes
  <2> QED
    BY <1>2, <1>4, <1>5, <1>6, <2>1, <2>2, OneAccount, SignInShapes DEF AccountKept
<1> QED
  BY <1>2, <1>6, <1>7, <1>8, <1>9, GuardStays, GuardCleared

\* Drawing a code leaves the count.
LEMMA ResetDrawKeeps ==
  ASSUME SignInInv, NEW s \in Session, DrawReset(s)
  PROVE  AccountKept(s) /\ \A x \in Account : Guarded(x)'
<1>1. PICK a \in Account : a = job[s].account
  BY DEF SignInInv, SignInTyped, CallRecord, DrawReset, Deciding
<1> DEFINE seen == job[s].seen  row == DrawnRow(seen)
<1>2. /\ pc[s] = "decide" /\ Store(s, row) /\ resets' = resets + 1
      /\ UNCHANGED <<profile, tokens, wrong, redeemed>> /\ clock' = clock
  BY <1>1 DEF DrawReset, Deciding, Store, DrawnRow
<1>3. seen \in SignInRow /\ SignInTyped
  BY <1>2 DEF SignInInv, SignInKnows
<1>4. row \in SignInRow /\ row.code = resets + 1 /\ row.failures = seen.failures /\ row.locked = seen.locked
  BY <1>3, DrawnRowFacts
<1> HIDE DEF row
<1>5. /\ account[a] = seen /\ account' = [account EXCEPT ![a] = row] /\ lock[a] = s /\ account'[a] = row
  BY <1>1, <1>2, <1>4, DecidedStore
<1>6. seen # None /\ clock \in Nat /\ resets \in Nat
  BY <1>3, SignInShapes
<1>7. \A x \in Account \ {a} : account'[x] = account[x]
  BY <1>3, <1>5, SignInShapes
<1>8. AccountKept(s)
  <2>1. row.code <= resets' /\ resets' \in Nat /\ resets <= resets'
    BY <1>2, <1>4, <1>6
  <2>2. redeemed' \subseteq 1..resets'
    BY <1>2, <1>3, <1>6, SignInShapes
  <2> QED
    BY <1>2, <1>3, <1>4, <1>5, <2>1, <2>2, OneAccount, SignInShapes DEF AccountKept
<1> QED
  BY <1>2, <1>4, <1>5, <1>6, <1>7, <1>8, GuardStays

\* A wrong code leaves the count.
LEMMA MissKeeps ==
  ASSUME SignInInv, NEW s \in Session, RejectReset(s)
  PROVE  AccountKept(s) /\ \A x \in Account : Guarded(x)'
<1>1. PICK a \in Account : a = job[s].account
  BY DEF SignInInv, SignInTyped, CallRecord, RejectReset, Deciding
<1> DEFINE seen == job[s].seen  row == Missed(seen)
<1>2. /\ pc[s] = "decide" /\ Store(s, row) /\ seen.attempts < ResetGuesses
      /\ UNCHANGED <<profile, tokens, wrong, resets, redeemed>> /\ clock' = clock
  BY <1>1 DEF RejectReset, Deciding, Store, CodeUsable, signInHistory
<1>3. seen \in SignInRow /\ SignInTyped
  BY <1>2 DEF SignInInv, SignInKnows
<1>4. row \in SignInRow /\ row.code \in {0, seen.code}
      /\ row.failures = seen.failures /\ row.locked = seen.locked
  BY <1>2, <1>3, MissedRow
<1> HIDE DEF row
<1>5. /\ account[a] = seen /\ account' = [account EXCEPT ![a] = row] /\ lock[a] = s /\ account'[a] = row
  BY <1>1, <1>2, <1>4, DecidedStore
<1>6. seen # None /\ clock \in Nat /\ resets \in Nat
  BY <1>3, SignInShapes
<1>7. \A x \in Account \ {a} : account'[x] = account[x]
  BY <1>3, <1>5, SignInShapes
<1>8. AccountKept(s)
  <2>1. row.code <= resets' /\ resets' \in Nat /\ resets <= resets'
    BY <1>2, <1>3, <1>4, <1>5, <1>6, SignInShapes
  <2> QED
    BY <1>2, <1>3, <1>4, <1>5, <2>1, OneAccount, SignInShapes DEF AccountKept
<1> QED
  BY <1>2, <1>4, <1>5, <1>6, <1>7, <1>8, GuardStays

\* A new password clears the count.
LEMMA ResetKeeps ==
  ASSUME SignInInv, NEW s \in Session, AcceptReset(s)
  PROVE  AccountKept(s) /\ \A x \in Account : Guarded(x)'
<1>1. PICK a \in Account : a = job[s].account
  BY DEF SignInInv, SignInTyped, CallRecord, AcceptReset, Deciding
<1> DEFINE seen == job[s].seen  row == ResetRow(seen)
<1>2. /\ pc[s] = "decide" /\ Store(s, row) /\ seen.code # 0 /\ redeemed' = redeemed \cup {seen.code}
      /\ wrong' = [wrong EXCEPT ![a] = <<>>] /\ UNCHANGED <<profile, tokens, resets>> /\ clock' = clock
  BY <1>1 DEF AcceptReset, Deciding, Store, CodeUsable
<1>3. seen \in SignInRow /\ SignInTyped
  BY <1>2 DEF SignInInv, SignInKnows
<1>4. row \in SignInRow /\ row.code = 0 /\ seen.code \in Nat
  BY <1>3, ResetRowFacts DEF SignInRow
<1> HIDE DEF row
<1>5. /\ account[a] = seen /\ account' = [account EXCEPT ![a] = row] /\ lock[a] = s
  BY <1>1, <1>2, <1>4, DecidedStore
<1>6. seen # None /\ wrong \in [Account -> Seq(Instant)] /\ clock \in Nat /\ resets \in Nat
  BY <1>3, SignInShapes
<1>7. wrong'[a] = <<>> /\ \A x \in Account \ {a} : wrong'[x] = wrong[x]
  BY <1>2, <1>6
<1>8. \A x \in Account \ {a} : account'[x] = account[x]
  BY <1>3, <1>5, SignInShapes
<1>9. AccountKept(s)
  <2>1. row.code <= resets' /\ resets' \in Nat /\ resets <= resets'
    BY <1>2, <1>4, <1>6
  <2>2. seen.code \in 1..resets
    BY <1>2, <1>3, <1>4, <1>5, <1>6, SignInShapes
  <2>3. redeemed' \subseteq 1..resets' /\ wrong' \in [Account -> Seq(Instant)]
    BY <1>2, <1>3, <1>6, <2>2, SignInShapes
  <2> QED
    BY <1>2, <1>3, <1>4, <1>5, <2>1, <2>3, OneAccount, SignInShapes DEF AccountKept
<1> QED
  BY <1>2, <1>6, <1>7, <1>8, <1>9, GuardStays, GuardCleared
-----------------------------------------------------------------------------
\* The activity that a request writes to a profile is its own.
LEMMA ProfileTyped ==
  ASSUME SignInInv, NEW s \in Session, pc[s] = "write"
  PROVE  ProfileAfter(s) \in [Professional -> BOOLEAN]
<1>1. SignInKnows(s) /\ SignInTyped
  BY DEF SignInInv
<1>2. job[s].kind = "profile" => job[s].account \in Professional /\ job[s].active \in BOOLEAN
  BY <1>1 DEF SignInKnows
<1> QED
  BY <1>1, <1>2, SignInShapes DEF ProfileAfter

\* A request of management, however old what it read, does not write the code of an account, nor
\* its count unless it sets a new password.
LEMMA StaleWrite ==
  ASSUME SignInInv, NEW s \in Session, WriteStale(s)
  PROVE  \E a \in Account, row \in SignInRow :
           /\ a = job[s].account /\ account[a] \in SignInRow
           /\ account' = [account EXCEPT ![a] = row] /\ account'[a] = row /\ lock[a] \in {None, s}
           /\ row = Flushed(account[a], job[s].seen, Assigned(job[s]))
           /\ row.code = account[a].code /\ row.expires = account[a].expires
           /\ row.attempts = account[a].attempts
           /\ ~job[s].password => row.failures = account[a].failures /\ row.locked = account[a].locked
<1>1. pc[s] = "write" /\ SignInTyped
  BY DEF SignInInv, WriteStale, Writing
<1>2. job[s] \in CallRecord
  BY <1>1, SignInShapes
<1>3. PICK a \in Account : a = job[s].account
  BY <1>2 DEF CallRecord
<1>4. job[s].seen \in SignInRow
  BY <1>2 DEF WriteStale, CallRecord
<1>5. account[a] \in SignInRow /\ account' = [account EXCEPT ![a] = Flushed(account[a], job[s].seen, Assigned(job[s]))]
  BY <1>1, <1>3, SignInShapes DEF WriteStale, Store
<1>6. lock[a] \in {None, s}
  BY <1>3 DEF WriteStale, Writing, Available
<1>7. /\ Assigned(job[s]) \in SignInRow
      /\ Assigned(job[s]).code = job[s].seen.code /\ Assigned(job[s]).expires = job[s].seen.expires
      /\ Assigned(job[s]).attempts = job[s].seen.attempts
      /\ ~job[s].password =>
           Assigned(job[s]).failures = job[s].seen.failures /\ Assigned(job[s]).locked = job[s].seen.locked
  BY <1>2, <1>4, AssignedRow
<1> DEFINE row == Flushed(account[a], job[s].seen, Assigned(job[s]))
<1>8. /\ row \in SignInRow
      /\ row.code = account[a].code /\ row.expires = account[a].expires
      /\ row.attempts = account[a].attempts
      /\ ~job[s].password => row.failures = account[a].failures /\ row.locked = account[a].locked
  BY <1>4, <1>5, <1>7, FlushedSignIn
<1>9. account'[a] = row
  BY <1>1, <1>5, SignInShapes
<1> HIDE DEF row
<1> QED
  BY <1>3, <1>5, <1>6, <1>8, <1>9 DEF row

\* A request of management clears the count with a new password, and else leaves it.
LEMMA StaleKeeps ==
  ASSUME SignInInv, NEW s \in Session, WriteStale(s)
  PROVE  AccountKept(s) /\ \A x \in Account : Guarded(x)'
<1>1. PICK a \in Account, row \in SignInRow :
        /\ a = job[s].account /\ account[a] \in SignInRow
        /\ account' = [account EXCEPT ![a] = row] /\ account'[a] = row /\ lock[a] \in {None, s}
        /\ row.code = account[a].code
        /\ ~job[s].password => row.failures = account[a].failures /\ row.locked = account[a].locked
  BY StaleWrite
<1>2. /\ pc[s] = "write" /\ clock' = clock /\ UNCHANGED <<tokens, resets, redeemed>>
      /\ profile' = ProfileAfter(s)
      /\ wrong' = IF job[s].password THEN [wrong EXCEPT ![a] = <<>>] ELSE wrong
  BY <1>1 DEF WriteStale, Writing, Store
<1>3. /\ SignInTyped /\ wrong \in [Account -> Seq(Instant)] /\ clock \in Nat /\ account[a] # None
      /\ account \in [Account -> SignInRow \cup {None}]
  BY <1>1, SignInShapes DEF SignInInv
<1>4. \A x \in Account \ {a} : wrong'[x] = wrong[x] /\ account'[x] = account[x]
  BY <1>1, <1>2, <1>3
<1>5. AccountKept(s)
  <2>1. row.code <= resets' /\ resets' \in Nat /\ resets <= resets'
    BY <1>1, <1>2, <1>3, SignInShapes
  <2>2. wrong' \in [Account -> Seq(Instant)] /\ profile' \in [Professional -> BOOLEAN]
    BY <1>2, <1>3, ProfileTyped
  <2> QED
    BY <1>1, <1>2, <1>3, <2>1, <2>2, OneAccount, SignInShapes DEF AccountKept
<1>6. Guarded(a)'
  <2>1. CASE job[s].password
    <3>1. wrong'[a] = <<>>
      BY <1>2, <1>3, <2>1
    <3> QED
      BY <3>1, GuardCleared
  <2>2. CASE ~job[s].password
    BY <1>1, <1>2, <1>3, <2>2, GuardStays
  <2> QED
    BY <2>1, <2>2
<1> QED
  BY <1>2, <1>3, <1>4, <1>5, <1>6, GuardStays

\* A profile without an account, or a deleted account.
LEMMA EndKeeps ==
  ASSUME SignInInv, NEW s \in Session, WriteProfileAlone(s) \/ DeleteAccount(s)
  PROVE  AccountKept(s) /\ \A x \in Account : Guarded(x)'
<1>1. pc[s] = "write" /\ SignInTyped /\ clock' = clock /\ UNCHANGED signInHistory
  BY DEF SignInInv, WriteProfileAlone, DeleteAccount, Writing
<1>2. clock \in Nat /\ UNCHANGED <<tokens, wrong, resets, redeemed>>
  BY <1>1, SignInShapes DEF signInHistory
<1>3. CASE WriteProfileAlone(s)
  <2>1. account' = account /\ profile' \in [Professional -> BOOLEAN]
    BY <1>1, <1>3, ProfileTyped DEF WriteProfileAlone
  <2> QED
    BY <1>1, <1>2, <2>1, GuardStays, SignInShapes DEF AccountKept
<1>4. CASE DeleteAccount(s)
  <2>1. PICK a \in Account : a = job[s].account
    BY <1>1, SignInShapes DEF CallRecord
  <2>2. account' = [account EXCEPT ![a] = None] /\ lock[a] \in {None, s} /\ profile' = profile
    BY <1>4, <2>1 DEF DeleteAccount, Writing, Available
  <2>3. account'[a] = None /\ \A x \in Account \ {a} : account'[x] = account[x]
    BY <1>1, <2>2, SignInShapes
  <2>4. AccountKept(s)
    BY <1>1, <1>2, <2>2, OneAccount, SignInShapes DEF AccountKept
  <2> QED
    BY <1>1, <1>2, <2>3, <2>4, GuardStays
<1> QED
  BY <1>3, <1>4

\* The other steps write nothing.
LEMMA AccountUnchanged ==
  ASSUME SignInInv, NEW s, UNCHANGED <<account, profile, signInHistory>>, clock' \in Nat, clock <= clock'
  PROVE  AccountKept(s) /\ \A x \in Account : Guarded(x)'
<1>1. UNCHANGED <<tokens, wrong, resets, redeemed>> /\ SignInTyped
  BY DEF SignInInv, signInHistory
<1> QED
  BY <1>1, GuardStays, SignInShapes DEF AccountKept

\* Every step of a request keeps the tables and the guard of the passwords.
LEMMA RequestWrites ==
  ASSUME SignInInv, NEW s \in Session, SignInRequest(s)
  PROVE  AccountKept(s) /\ \A x \in Account : Guarded(x)'
<1>1. CASE RejectPassword(s) \/ AcceptPassword(s) \/ DrawReset(s) \/ RejectReset(s) \/ AcceptReset(s)
  BY <1>1, RejectKeeps, AcceptKeeps, ResetDrawKeeps, MissKeeps, ResetKeeps
<1>2. CASE WriteStale(s) \/ WriteProfileAlone(s) \/ DeleteAccount(s)
  BY <1>2, StaleKeeps, EndKeeps
<1>3. CASE SignInRefused(s) \/ LockAccount(s) \/ FlushProfile(s)
  <2>1. UNCHANGED <<account, profile, signInHistory>> /\ clock' = clock /\ clock \in Nat /\ clock <= clock
    BY <1>3, SignInShapes DEF SignInInv, SignInRefused, Refuse, LockAccount, FlushProfile
  <2> QED
    BY <2>1, AccountUnchanged
<1> QED
  BY <1>1, <1>2, <1>3, RequestCases

\* A request moves only itself, and the locks of its own.
LEMMA RequestMoves ==
  ASSUME SignInInv, NEW s \in Session, SignInRequest(s)
  PROVE  /\ pc[s] # "idle" /\ clock' = clock
         /\ \E step \in SignInStep : pc' = [pc EXCEPT ![s] = step]
         /\ \E call \in CallRecord \cup {None} :
              job' = [job EXCEPT ![s] = call] /\ (pc'[s] # "idle" => call \in CallRecord)
         /\ lock' \in [CredentialRow -> Session \cup {None}]
         /\ \A x \in CredentialRow : lock[x] \in Session \ {s} => lock'[x] = lock[x]
<1>1. SignInTyped /\ SignInKnows(s)
  BY DEF SignInInv
<1>2. ASSUME Answer(s), Release(s), pc[s] # "idle", clock' = clock
      PROVE  /\ pc[s] # "idle" /\ clock' = clock
             /\ \E step \in SignInStep : pc' = [pc EXCEPT ![s] = step]
             /\ \E call \in CallRecord \cup {None} :
                  job' = [job EXCEPT ![s] = call] /\ (pc'[s] # "idle" => call \in CallRecord)
             /\ lock' \in [CredentialRow -> Session \cup {None}]
             /\ \A x \in CredentialRow : lock[x] \in Session \ {s} => lock'[x] = lock[x]
  <2>1. "idle" \in SignInStep /\ pc' = [pc EXCEPT ![s] = "idle"] /\ job' = [job EXCEPT ![s] = None]
    BY <1>2 DEF SignInStep, Answer
  <2>2. pc'[s] = "idle"
    BY <1>1, <2>1, SignInShapes
  <2>3. /\ lock' \in [CredentialRow -> Session \cup {None}]
        /\ \A x \in CredentialRow : lock[x] \in Session \ {s} => lock'[x] = lock[x]
    BY <1>1, <1>2, SignInShapes DEF Release
  <2> QED
    BY <1>2, <2>1, <2>2, <2>3
<1>3. ASSUME NEW step \in SignInStep, pc[s] # "idle", clock' = clock, pc' = [pc EXCEPT ![s] = step],
             NEW row \in SignInRow \cup {None}, job' = [job EXCEPT ![s].seen = row],
             NEW x \in CredentialRow, (Hold(s, x) /\ Available(s, x)) \/ UNCHANGED lock
      PROVE  /\ pc[s] # "idle" /\ clock' = clock
             /\ \E y \in SignInStep : pc' = [pc EXCEPT ![s] = y]
             /\ \E call \in CallRecord \cup {None} :
                  job' = [job EXCEPT ![s] = call] /\ (pc'[s] # "idle" => call \in CallRecord)
             /\ lock' \in [CredentialRow -> Session \cup {None}]
             /\ \A y \in CredentialRow : lock[y] \in Session \ {s} => lock'[y] = lock[y]
  <2> DEFINE call == [job[s] EXCEPT !.seen = row]
  <2>1. job[s] \in CallRecord
    BY <1>1, <1>3, SignInShapes
  <2>2. call \in CallRecord
    BY <2>1 DEF CallRecord
  <2>3. job' = [job EXCEPT ![s] = call]
    BY <1>1, <1>3, SignInShapes
  <2>4. /\ lock' \in [CredentialRow -> Session \cup {None}]
        /\ \A y \in CredentialRow : lock[y] \in Session \ {s} => lock'[y] = lock[y]
    BY <1>1, <1>3, SignInShapes DEF Hold, Available
  <2> HIDE DEF call
  <2> QED
    BY <1>3, <2>2, <2>3, <2>4
<1>4. CASE LockAccount(s)
  <2>1. /\ pc[s] = "lock" /\ pc' = [pc EXCEPT ![s] = "decide"] /\ clock' = clock
        /\ Available(s, job[s].account) /\ Hold(s, job[s].account)
        /\ job' = [job EXCEPT ![s].seen = account[job[s].account]]
    BY <1>4 DEF LockAccount, Goto
  <2>2. job[s].account \in Account /\ job[s].account \in CredentialRow
    BY <1>1, <2>1, SignInShapes DEF CallRecord
  <2>3. account[job[s].account] \in SignInRow \cup {None}
    BY <1>1, <2>2, SignInShapes
  <2>4. "decide" \in SignInStep
    BY DEF SignInStep
  <2> QED
    BY <1>3, <2>1, <2>2, <2>3, <2>4
<1>5. CASE FlushProfile(s)
  <2>1. /\ pc[s] = "profile" /\ pc' = [pc EXCEPT ![s] = "write"] /\ clock' = clock
        /\ UNCHANGED lock \/ (Available(s, Profile(job[s].account)) /\ Hold(s, Profile(job[s].account)))
        /\ job' = [job EXCEPT ![s].seen = account[job[s].account]]
    BY <1>5 DEF FlushProfile, Goto
  <2>2. job[s].account \in Professional
    BY <1>1, <2>1 DEF SignInKnows
  <2>3. job[s].account \in Account /\ Profile(job[s].account) \in CredentialRow
    BY <1>1, <2>2, SignInShapes
  <2>4. account[job[s].account] \in SignInRow \cup {None} /\ "write" \in SignInStep
    BY <1>1, <2>3, SignInShapes DEF SignInStep
  <2> QED
    BY <1>3, <2>1, <2>3, <2>4
<1>6. CASE SignInRefused(s)
  BY <1>2, <1>6 DEF SignInRefused, Refuse
<1>7. CASE RejectPassword(s) \/ AcceptPassword(s) \/ DrawReset(s) \/ RejectReset(s) \/ AcceptReset(s)
  BY <1>2, <1>7 DEF RejectPassword, AcceptPassword, DrawReset, RejectReset, AcceptReset, Deciding, Store
<1>8. CASE WriteStale(s) \/ WriteProfileAlone(s) \/ DeleteAccount(s)
  BY <1>2, <1>8 DEF WriteStale, WriteProfileAlone, DeleteAccount, Writing, Store
<1> QED
  BY <1>4, <1>5, <1>6, <1>7, <1>8, RequestCases
-----------------------------------------------------------------------------
\* What a request knows stays true while others write.
LEMMA OthersKnowSignIn ==
  ASSUME SignInInv, NEW s \in Session, AccountKept(s), NEW t \in Session \ {s},
         pc'[t] = pc[t], job'[t] = job[t],
         \A x \in CredentialRow : lock[x] \in Session \ {s} => lock'[x] = lock[x]
  PROVE  SignInKnows(t)'
<1>1. SignInKnows(t) /\ SignInTyped
  BY DEF SignInInv
<1>2. ASSUME pc[t] = "decide"
      PROVE  lock'[job[t].account] = t /\ account'[job[t].account] = account[job[t].account]
  <2>1. job[t].account \in Account /\ job[t].account \in CredentialRow /\ lock[job[t].account] = t
    BY <1>1, <1>2, SignInShapes DEF SignInKnows, CallRecord
  <2> QED
    BY <2>1 DEF AccountKept
<1> QED
  BY <1>1, <1>2 DEF SignInKnows

\* A request keeps what it knows from one of its steps to the next.
LEMMA OwnKnows ==
  ASSUME SignInInv, NEW s \in Session, SignInRequest(s)
  PROVE  SignInKnows(s)'
<1>1. SignInKnows(s) /\ SignInTyped
  BY DEF SignInInv
<1>2. CASE Answer(s)
  <2>1. pc'[s] = "idle"
    BY <1>1, <1>2, SignInShapes DEF Answer
  <2> QED
    BY <2>1 DEF SignInKnows
<1>3. CASE LockAccount(s)
  <2>1. PICK a : a = job[s].account
    OBVIOUS
  <2>2. /\ pc[s] = "lock" /\ pc'[s] = "decide" /\ account[a] # None /\ account' = account
        /\ lock' = [lock EXCEPT ![a] = s] /\ job' = [job EXCEPT ![s].seen = account[a]]
    BY <1>1, <1>3, <2>1, SignInShapes DEF LockAccount, Goto, Hold
  <2>3. a \in Account /\ a \in CredentialRow /\ job[s] \in CallRecord /\ account[a] \in SignInRow
    BY <1>1, <2>1, <2>2, SignInShapes DEF CallRecord
  <2>4. job'[s].account = a /\ job'[s].seen = account[a] /\ job'[s].kind = job[s].kind
    BY <1>1, <2>1, <2>2, <2>3, SignInShapes DEF CallRecord
  <2>5. lock'[a] = s
    BY <1>1, <2>2, <2>3, SignInShapes
  <2> QED
    BY <1>1, <2>2, <2>3, <2>4, <2>5 DEF SignInKnows
<1>4. CASE FlushProfile(s)
  <2>1. pc[s] = "profile" /\ pc'[s] = "write" /\ job' = [job EXCEPT ![s].seen = account[job[s].account]]
    BY <1>1, <1>4, SignInShapes DEF FlushProfile, Goto
  <2>2. job[s] \in CallRecord
    BY <1>1, <2>1, SignInShapes
  <2>3. job'[s].account = job[s].account /\ job'[s].active = job[s].active /\ job'[s].kind = job[s].kind
    BY <1>1, <2>1, <2>2, SignInShapes DEF CallRecord
  <2> QED
    BY <1>1, <2>1, <2>3 DEF SignInKnows, Managing
<1>5. CASE SignInRefused(s)
  BY <1>2, <1>5 DEF SignInRefused, Refuse
<1>6. CASE RejectPassword(s) \/ AcceptPassword(s) \/ DrawReset(s) \/ RejectReset(s) \/ AcceptReset(s)
  BY <1>2, <1>6 DEF RejectPassword, AcceptPassword, DrawReset, RejectReset, AcceptReset, Store
<1>7. CASE WriteStale(s) \/ WriteProfileAlone(s) \/ DeleteAccount(s)
  BY <1>2, <1>7 DEF WriteStale, WriteProfileAlone, DeleteAccount, Store
<1> QED
  BY <1>3, <1>4, <1>5, <1>6, <1>7, RequestCases

\* Types and knowledge from what a session's step does.
LEMMA Keeps ==
  ASSUME SignInInv, NEW s \in Session, AccountKept(s), \A x \in Account : Guarded(x)', SignInKnows(s)',
         NEW step \in SignInStep, pc' = [pc EXCEPT ![s] = step],
         NEW call \in CallRecord \cup {None}, job' = [job EXCEPT ![s] = call],
         step # "idle" => call \in CallRecord, clock' = clock,
         lock' \in [CredentialRow -> Session \cup {None}],
         \A x \in CredentialRow : lock[x] \in Session \ {s} => lock'[x] = lock[x]
  PROVE  SignInInv'
<1>1. SignInTyped
  BY DEF SignInInv
<1>2. /\ pc' \in [Session -> SignInStep] /\ job' \in [Session -> CallRecord \cup {None}]
      /\ pc'[s] = step /\ job'[s] = call
      /\ \A t \in Session \ {s} : pc'[t] = pc[t] /\ job'[t] = job[t]
  BY <1>1, SignInShapes
<1>3. \A t \in Session : pc'[t] # "idle" => job'[t] \in CallRecord
  BY <1>1, <1>2, SignInShapes
<1>4. CredentialsTypeOK'
  BY <1>1, <1>2, SignInShapes DEF AccountKept, CredentialsTypeOK, SignInStep
<1>5. SignInTyped'
  BY <1>2, <1>3, <1>4 DEF SignInTyped, AccountKept
<1>6. ASSUME NEW t \in Session
      PROVE  SignInKnows(t)'
  <2>1. CASE t = s
    BY <2>1
  <2>2. CASE t # s
    BY <1>2, <2>2, OthersKnowSignIn
  <2> QED
    BY <2>1, <2>2
<1> QED
  BY <1>5, <1>6 DEF SignInInv, Guarded

\* A step of a request keeps the invariant.
LEMMA RequestKeeps ==
  ASSUME SignInInv, NEW s \in Session, SignInRequest(s)
  PROVE  SignInInv'
<1>1. PICK step \in SignInStep : pc' = [pc EXCEPT ![s] = step]
  BY RequestMoves
<1>2. PICK call \in CallRecord \cup {None} :
        job' = [job EXCEPT ![s] = call] /\ (pc'[s] # "idle" => call \in CallRecord)
  BY RequestMoves
<1>3. pc'[s] = step
  BY <1>1, SignInShapes DEF SignInInv
<1> QED
  BY <1>1, <1>2, <1>3, RequestMoves, RequestWrites, OwnKnows, Keeps

\* The beginnings of a request about an account.
BeginAny(s, a) == BeginLogin(s, a) \/ BeginReset(s, a) \/ BeginManagement(s, a)

\* What a request carries when it begins.
SignInBegun(step, call) ==
  \/ step = "lock" /\ call.kind \in Decided
  \/ step = "write" /\ call.kind \in {"change", "revoke", "update", "delete"} /\ call.account \in Account
     /\ call.seen = account[call.account] /\ call.seen # None
  \/ step = "profile" /\ call.kind = "profile" /\ call.account \in Professional /\ call.active \in BOOLEAN
     /\ call.was = profile[call.account]

\* A request that begins carries what it read.
LEMMA Begins ==
  ASSUME SignInInv, NEW s \in Session, NEW a \in Account, BeginAny(s, a)
  PROVE  \E step \in SignInStep, call \in CallRecord :
           BeginCall(s, step, call) /\ SignInBegun(step, call)
<1>1. SignInTyped
  BY DEF SignInInv
<1>2. ASSUME NEW kind \in Decided \cup Managing \cup {"delete"}
      PROVE  Call(kind, a) \in CallRecord /\ Call(kind, a).kind = kind /\ Call(kind, a).account = a
  BY <1>2 DEF Call, CallRecord
<1>3. ASSUME NEW kind \in {"change", "revoke", "update", "delete"}, NEW password \in BOOLEAN,
             NEW active \in BOOLEAN \cup {None}, BeginStale(s, a, kind, password, active)
      PROVE  \E step \in SignInStep, call \in CallRecord :
               BeginCall(s, step, call) /\ SignInBegun(step, call)
  <2> DEFINE call == [Call(kind, a) EXCEPT !.password = password, !.active = active, !.seen = account[a]]
  <2>1. BeginCall(s, "write", call) /\ account[a] # None
    BY <1>3 DEF BeginStale
  <2>2. account[a] \in SignInRow
    BY <1>1, <2>1, SignInShapes
  <2>3. call \in CallRecord /\ call.kind = kind /\ call.account = a /\ call.seen = account[a]
    BY <2>2 DEF Call, CallRecord, Managing
  <2> HIDE DEF call
  <2> QED
    BY <2>1, <2>3 DEF SignInBegun, SignInStep
<1>4. CASE BeginLogin(s, a)
  <2>1. PICK right \in BOOLEAN : BeginCall(s, "lock", [Call("login", a) EXCEPT !.password = right])
    BY <1>4 DEF BeginLogin
  <2>2. [Call("login", a) EXCEPT !.password = right] \in CallRecord
        /\ [Call("login", a) EXCEPT !.password = right].kind = "login"
    BY DEF Call, CallRecord, Decided
  <2> QED
    BY <2>1, <2>2 DEF SignInBegun, SignInStep, Decided
<1>5. CASE BeginReset(s, a)
  <2>1. CASE BeginCall(s, "lock", Call("request", a))
    BY <1>2, <2>1 DEF SignInBegun, SignInStep, Decided
  <2>2. CASE \E c \in 0..resets : BeginCall(s, "lock", [Call("reset", a) EXCEPT !.code = c])
    <3>1. PICK c \in 0..resets : BeginCall(s, "lock", [Call("reset", a) EXCEPT !.code = c])
      BY <2>2
    <3>2. c \in Nat
      BY <1>1, SignInShapes
    <3>3. [Call("reset", a) EXCEPT !.code = c] \in CallRecord
          /\ [Call("reset", a) EXCEPT !.code = c].kind = "reset"
      BY <3>2 DEF Call, CallRecord, Decided
    <3> QED
      BY <3>1, <3>3 DEF SignInBegun, SignInStep, Decided
  <2> QED
    BY <1>5, <2>1, <2>2 DEF BeginReset
<1>6. CASE BeginOwn(s, a) \/ BeginManage(s, a) \/ BeginDelete(s, a)
  BY <1>3, <1>6 DEF BeginOwn, BeginManage, BeginDelete
<1>7. CASE BeginProfile(s, a)
  <2>1. PICK active \in BOOLEAN :
          BeginCall(s, "profile", [Call("profile", a) EXCEPT !.active = active, !.was = profile[a]])
    BY <1>7 DEF BeginProfile
  <2> DEFINE call == [Call("profile", a) EXCEPT !.active = active, !.was = profile[a]]
  <2>2. a \in Professional /\ profile[a] \in BOOLEAN
    BY <1>1, <1>7, SignInShapes DEF BeginProfile
  <2>3. call \in CallRecord /\ call.kind = "profile" /\ call.account = a /\ call.active = active
        /\ call.was = profile[a]
    BY <2>2 DEF Call, CallRecord, Managing
  <2> HIDE DEF call
  <2> QED
    BY <2>1, <2>2, <2>3 DEF SignInBegun, SignInStep, call
<1> QED
  BY <1>4, <1>5, <1>6, <1>7 DEF BeginAny, BeginManagement

\* A request that begins keeps the invariant.
LEMMA BeginKeeps ==
  ASSUME SignInInv, NEW s \in Session, NEW a \in Account, BeginAny(s, a)
  PROVE  SignInInv'
<1>1. PICK step \in SignInStep, call \in CallRecord : BeginCall(s, step, call) /\ SignInBegun(step, call)
  BY Begins
<1>2. /\ pc' = [pc EXCEPT ![s] = step] /\ job' = [job EXCEPT ![s] = call]
      /\ UNCHANGED <<lock, clock, account, profile, signInHistory>>
  BY <1>1 DEF BeginCall, Begin
<1>3. SignInTyped /\ clock \in Nat
  BY SignInShapes DEF SignInInv
<1>4. pc'[s] = step /\ job'[s] = call
  BY <1>2, <1>3, SignInShapes
<1>5. SignInKnows(s)'
  BY <1>1, <1>4 DEF SignInBegun, SignInKnows, Managing
<1>6. AccountKept(s) /\ \A x \in Account : Guarded(x)'
  <2>1. clock' \in Nat /\ clock <= clock'
    BY <1>2, <1>3
  <2> QED
    BY <1>2, <2>1, AccountUnchanged
<1>7. lock' \in [CredentialRow -> Session \cup {None}]
      /\ \A x \in CredentialRow : lock[x] \in Session \ {s} => lock'[x] = lock[x]
  BY <1>2, <1>3, SignInShapes
<1> QED
  BY <1>2, <1>5, <1>6, <1>7, Keeps

\* Time keeps the invariant.
LEMMA StillKeeps ==
  ASSUME SignInInv, UNCHANGED <<pc, job, lock, account, profile, signInHistory>>,
         clock' \in Instant, clock <= clock'
  PROVE  SignInInv'
<1>1. SignInTyped /\ clock' \in Nat
  BY HorizonAssumption DEF SignInInv, Instant
<1>2. SignInTyped'
  BY <1>1 DEF SignInTyped, CredentialsTypeOK, signInHistory
<1>3. \A s \in Session : SignInKnows(s)'
  BY DEF SignInInv, SignInKnows
<1>4. \A x \in Account : Guarded(x)'
  BY <1>1, AccountUnchanged
<1> QED
  BY <1>2, <1>3, <1>4 DEF SignInInv, Guarded

\* Every step keeps the invariant.
LEMMA SignInStepKeeps ==
  ASSUME SignInInv, [CredentialsNext]_credentialVars
  PROVE  SignInInv'
<1>1. CASE \E s \in Session, a \in Account : BeginAny(s, a)
  BY <1>1, BeginKeeps
<1>2. CASE \E s \in Session : SignInRequest(s)
  BY <1>2, RequestKeeps
<1>3. SignInTyped /\ clock \in Instant /\ clock \in Nat
  BY SignInShapes DEF SignInInv
<1>4. CASE CredentialsTick
  <2>1. UNCHANGED <<pc, job, lock, account, profile, signInHistory>> /\ clock' = clock + 1 /\ clock < Horizon
    BY <1>4 DEF CredentialsTick
  <2>2. clock' \in Instant /\ clock <= clock'
    BY <1>3, <2>1, HorizonAssumption DEF Instant
  <2> QED
    BY <2>1, <2>2, StillKeeps
<1>5. CASE UNCHANGED credentialVars
  <2>1. UNCHANGED <<pc, job, lock, account, profile, signInHistory, clock>>
    BY <1>5 DEF credentialVars
  <2>2. clock' \in Instant /\ clock <= clock'
    BY <1>3, <2>1
  <2> QED
    BY <2>1, <2>2, StillKeeps
<1> QED
  BY <1>1, <1>2, <1>4, <1>5 DEF CredentialsNext, CredentialsStep, BeginAny, SignInRequest

\* The accounts start without sign-ins.
LEMMA SignInInitially == CredentialsInit => SignInInv
<1> SUFFICES ASSUME CredentialsInit
             PROVE  SignInInv
  OBVIOUS
<1>1. /\ pc = [s \in Session |-> "idle"] /\ job = [s \in Session |-> None]
      /\ lock = [x \in CredentialRow |-> None] /\ clock = 0
      /\ account = [a \in Account |-> NewAccount] /\ profile = [a \in Professional |-> TRUE]
      /\ tokens = {} /\ wrong = [a \in Account |-> <<>>] /\ resets = 0 /\ redeemed = {}
  BY DEF CredentialsInit, BackendInit, NoSignIns
<1>2. NewAccount \in SignInRow /\ NewAccount.code = 0
  <2>1. -ResetCooldown \in Int /\ 0 \in 0..LoginLimit - 1 /\ 0 \in 0..ResetGuesses
    BY AccountAssumption
  <2> QED
    BY <2>1 DEF NewAccount, SignInRow
<1>3. SignInTyped
  <2>1. \A a \in Account : account[a] \in SignInRow /\ account[a].code <= resets
    BY <1>1, <1>2
  <2>2. <<>> \in Seq(Instant) /\ 0 \in Instant
    BY HorizonAssumption DEF Instant
  <2>3. CredentialsTypeOK
    BY <1>1, <2>1, <2>2 DEF CredentialsTypeOK
  <2> QED
    BY <1>1, <1>2, <2>3 DEF SignInTyped
<1>4. \A s \in Session : SignInKnows(s)
  BY <1>1 DEF SignInKnows
<1>5. \A a \in Account : Ordered(a) /\ WrongSpaced(a) /\ Locked(a)
  BY <1>1 DEF Ordered, WrongSpaced, Locked
<1> QED
  BY <1>3, <1>4, <1>5 DEF SignInInv

\* The inductive invariant of sign-in.
LEMMA SignInInvariant == CredentialsSpec => []SignInInv
BY SignInInitially, SignInStepKeeps, PTL DEF CredentialsSpec

\* The accounts, the locks and the requests of sign-in have their types.
THEOREM CredentialsTypes == CredentialsSpec => []CredentialsTypeOK
<1>1. SignInInv => CredentialsTypeOK
  BY DEF SignInInv, SignInTyped
<1> QED
  BY <1>1, SignInInvariant, PTL

LEMMA GuessesHold == SignInInv => GuessesBounded
<1>1. ASSUME SignInInv, NEW a \in Account, NEW i \in 1..Len(wrong[a])
      PROVE  Cardinality({j \in i..Len(wrong[a]) : wrong[a][j] < wrong[a][i] + LockTime}) <= LoginLimit
  <2> DEFINE w == wrong[a]  n == Len(w)  near == {j \in i..n : w[j] < w[i] + LockTime}
             span == i..(i + LoginLimit - 1)
  <2>1. w \in Seq(Instant) /\ LoginLimit \in Nat \ {0} /\ LockTime \in Nat /\ Instant \subseteq Nat
    BY <1>1, SignInShapes, HorizonAssumption DEF SignInInv, Instant
  <2>2. /\ \A k \in 1..n : \A j \in k..n : w[k] <= w[j]
        /\ \A k \in 1..n : k + LoginLimit <= n => w[k] + LockTime <= w[k + LoginLimit]
    BY <1>1 DEF SignInInv, Ordered, WrongSpaced
  <2>3. n \in Nat /\ \A k \in 1..n : w[k] \in Nat
    <3> HIDE DEF w
    <3>1. n \in Nat
      BY <2>1
    <3>2. ASSUME NEW k \in 1..n
          PROVE  w[k] \in Nat
      <4>1. w[k] \in Instant
        BY <2>1
      <4> QED
        BY <2>1, <4>1
    <3> QED
      BY <3>1, <3>2
  <2> HIDE DEF w, n
  <2>4. i \in 1..n /\ i \in Nat
    BY <2>3 DEF n, w
  <2>5. ASSUME NEW j \in near
        PROVE  j \in span
    <3>1. j \in i..n /\ j \in 1..n /\ w[j] < w[i] + LockTime
      BY <2>3, <2>4
    <3>2. CASE j > i + LoginLimit - 1
      <4>1. i + LoginLimit \in 1..n /\ j \in (i + LoginLimit)..n
        BY <2>1, <2>3, <2>4, <3>1, <3>2
      <4>2. w[i] + LockTime <= w[i + LoginLimit] /\ w[i + LoginLimit] <= w[j]
        BY <2>2, <2>3, <2>4, <4>1
      <4> QED
        BY <2>1, <2>3, <2>4, <3>1, <4>1, <4>2
    <3> QED
      BY <2>1, <2>3, <2>4, <3>1, <3>2
  <2>6. i + LoginLimit - 1 \in Int /\ i \in Int /\ i <= i + LoginLimit - 1
    BY <2>1, <2>4
  <2>7. IsFiniteSet(span) /\ Cardinality(span) = LoginLimit
    <3>1. IsFiniteSet(span) /\ Cardinality(span) = IF i > i + LoginLimit - 1 THEN 0 ELSE (i + LoginLimit - 1) - i + 1
      BY <2>6, FS_Interval
    <3> HIDE DEF span
    <3> QED
      BY <2>1, <2>4, <2>6, <3>1
  <2>8. Cardinality(near) <= Cardinality(span)
    <3>1. near \subseteq span
      BY <2>5
    <3> QED
      BY <2>7, <3>1, FS_Subset
  <2> QED
    BY <2>7, <2>8 DEF n, w
<1> QED
  BY <1>1 DEF GuessesBounded

\* However sign-ins race with each other and with changes of the account, no span as long as the
\* lock holds more wrong passwords than the limit.
THEOREM PasswordGuesses == CredentialsSpec => []GuessesBounded
BY GuessesHold, SignInInvariant, PTL
-----------------------------------------------------------------------------
\* The reset codes as the abstract specification sees them.
liveResets == [a \in Account |-> LiveReset(a)]
missedResets == [a \in Account |-> IF LiveReset(a) = 0 THEN 0 ELSE account[a].attempts]
untilResets == [a \in Account |-> IF LiveReset(a) = 0 THEN 0 ELSE account[a].expires]

ResetOf(row) == IF row = None THEN 0 ELSE row.code
ResetMissesOf(row) == IF ResetOf(row) = 0 THEN 0 ELSE row.attempts
ResetUntilOf(row) == IF ResetOf(row) = 0 THEN 0 ELSE row.expires

\* A write of one account is a write of one subject.
LEMMA ResetWrite ==
  ASSUME SignInTyped, NEW a \in Account, \A x \in Account \ {a} : account'[x] = account[x]
  PROVE  /\ liveResets' = [liveResets EXCEPT ![a] = ResetOf(account'[a])]
         /\ missedResets' = [missedResets EXCEPT ![a] = ResetMissesOf(account'[a])]
         /\ untilResets' = [untilResets EXCEPT ![a] = ResetUntilOf(account'[a])]
         /\ liveResets[a] = ResetOf(account[a]) /\ missedResets[a] = ResetMissesOf(account[a]) /\ untilResets[a] = ResetUntilOf(account[a])
<1>1. liveResets = [x \in Account |-> ResetOf(account[x])] /\ liveResets' = [x \in Account |-> ResetOf(account'[x])]
  BY DEF liveResets, LiveReset, ResetOf
<1>2. missedResets = [x \in Account |-> ResetMissesOf(account[x])] /\ missedResets' = [x \in Account |-> ResetMissesOf(account'[x])]
  BY DEF missedResets, LiveReset, ResetOf, ResetMissesOf
<1>3. untilResets = [x \in Account |-> ResetUntilOf(account[x])] /\ untilResets' = [x \in Account |-> ResetUntilOf(account'[x])]
  BY DEF untilResets, LiveReset, ResetOf, ResetUntilOf
<1>4. liveResets' = [liveResets EXCEPT ![a] = ResetOf(account'[a])] /\ liveResets[a] = ResetOf(account[a])
  BY <1>1
<1>5. missedResets' = [missedResets EXCEPT ![a] = ResetMissesOf(account'[a])] /\ missedResets[a] = ResetMissesOf(account[a])
  BY <1>2
<1>6. untilResets' = [untilResets EXCEPT ![a] = ResetUntilOf(account'[a])] /\ untilResets[a] = ResetUntilOf(account[a])
  BY <1>3
<1> QED
  BY <1>4, <1>5, <1>6

\* Steps that leave the columns of the code stutter.
LEMMA ResetStutter ==
  ASSUME SignInTyped, NEW a \in Account, NEW row \in SignInRow, account[a] \in SignInRow,
         account' = [account EXCEPT ![a] = row],
         row.code = account[a].code, row.expires = account[a].expires, row.attempts = account[a].attempts,
         UNCHANGED <<resets, redeemed, clock>>
  PROVE  UNCHANGED ResetCode!codeVars
<1>1. row # None /\ account[a] # None
  BY SignInShapes
<1>2. ResetOf(row) = ResetOf(account[a]) /\ ResetMissesOf(row) = ResetMissesOf(account[a]) /\ ResetUntilOf(row) = ResetUntilOf(account[a])
  BY <1>1 DEF ResetOf, ResetMissesOf, ResetUntilOf
<1>3. account'[a] = row /\ \A x \in Account \ {a} : account'[x] = account[x]
  BY SignInShapes
<1>4. /\ liveResets' = [liveResets EXCEPT ![a] = liveResets[a]] /\ missedResets' = [missedResets EXCEPT ![a] = missedResets[a]]
      /\ untilResets' = [untilResets EXCEPT ![a] = untilResets[a]]
  BY <1>2, <1>3, ResetWrite
<1>5. liveResets' = liveResets /\ missedResets' = missedResets /\ untilResets' = untilResets
  BY <1>4 DEF liveResets, missedResets, untilResets
<1> QED
  BY <1>5 DEF ResetCode!codeVars, liveResets, missedResets, untilResets

\* The code of one account goes.
LEMMA CutOne ==
  ASSUME NEW a \in Account
  PROVE  /\ ResetCode!Cut(liveResets, {a}) = [liveResets EXCEPT ![a] = 0]
         /\ ResetCode!Cut(missedResets, {a}) = [missedResets EXCEPT ![a] = 0]
         /\ ResetCode!Cut(untilResets, {a}) = [untilResets EXCEPT ![a] = 0]
BY DEF ResetCode!Cut, liveResets, missedResets, untilResets

\* A drawn code replaces the one before and lasts as long as a code may.
LEMMA ResetIssues ==
  ASSUME SignInInv, NEW s \in Session, DrawReset(s)
  PROVE  ResetCode!Next
<1>1. PICK a \in Account : a = job[s].account
  BY DEF SignInInv, SignInTyped, CallRecord, DrawReset, Deciding
<1> DEFINE row == DrawnRow(job[s].seen)
<1>2. pc[s] = "decide" /\ Store(s, row) /\ resets' = resets + 1 /\ UNCHANGED <<redeemed, clock>>
  BY DEF DrawReset, Deciding, Store, DrawnRow
<1>3. SignInTyped /\ job[s].seen \in SignInRow
  BY <1>2 DEF SignInInv, SignInKnows
<1>4. row \in SignInRow /\ row.code = resets + 1 /\ row.expires = clock + ResetLife /\ row.attempts = 0
  BY <1>3, DrawnRowFacts
<1> HIDE DEF row
<1>5. account' = [account EXCEPT ![a] = row]
  BY <1>1, <1>2, <1>4, DecidedStore
<1>6. ResetOf(row) = resets + 1 /\ ResetMissesOf(row) = 0 /\ ResetUntilOf(row) = clock + ResetLife
  BY <1>3, <1>4, SignInShapes DEF ResetOf, ResetMissesOf, ResetUntilOf
<1>7. /\ liveResets' = [liveResets EXCEPT ![a] = resets + 1] /\ missedResets' = [missedResets EXCEPT ![a] = 0]
      /\ untilResets' = [untilResets EXCEPT ![a] = clock + ResetLife]
  <2>1. account'[a] = row /\ \A x \in Account \ {a} : account'[x] = account[x]
    BY <1>3, <1>5, SignInShapes
  <2> QED
    BY <1>3, <1>6, <2>1, ResetWrite
<1>8. clock + ResetLife \in 0..(clock + ResetLife)
  BY <1>3, SignInShapes
<1>9. ResetCode!Issue(a)
  <2>1. /\ ResetCode!Cut(liveResets, {}) = liveResets /\ ResetCode!Cut(missedResets, {}) = missedResets
        /\ ResetCode!Cut(untilResets, {}) = untilResets
    BY DEF ResetCode!Cut, liveResets, missedResets, untilResets
  <2>2. {} \in SUBSET Account
    OBVIOUS
  <2>3. \E P \in SUBSET Account, t \in 0..(clock + ResetLife) :
          /\ liveResets' = [ResetCode!Cut(liveResets, P) EXCEPT ![a] = resets + 1]
          /\ missedResets' = [ResetCode!Cut(missedResets, P) EXCEPT ![a] = 0]
          /\ untilResets' = [ResetCode!Cut(untilResets, P) EXCEPT ![a] = t]
    BY <1>7, <1>8, <2>1, <2>2
  <2> QED
    BY <1>2, <2>3 DEF ResetCode!Issue, liveResets, missedResets, untilResets
<1> QED
  BY <1>9 DEF ResetCode!Next

\* An accepted code was live, within its life and short of the limit of wrong answers.
LEMMA ResetAccepts ==
  ASSUME SignInInv, NEW s \in Session, AcceptReset(s)
  PROVE  ResetCode!Next
<1>1. PICK a \in Account : a = job[s].account
  BY DEF SignInInv, SignInTyped, CallRecord, AcceptReset, Deciding
<1> DEFINE seen == job[s].seen  row == ResetRow(seen)
<1>2. /\ pc[s] = "decide" /\ Store(s, row) /\ redeemed' = redeemed \cup {seen.code}
      /\ seen.code # 0 /\ seen.expires >= clock /\ seen.attempts < ResetGuesses
      /\ UNCHANGED <<resets, clock>>
  BY DEF AcceptReset, Deciding, Store, CodeUsable
<1>3. SignInTyped /\ seen \in SignInRow
  BY <1>2 DEF SignInInv, SignInKnows
<1>4. row \in SignInRow /\ row.code = 0
  BY <1>3, ResetRowFacts
<1> HIDE DEF row
<1>5. account' = [account EXCEPT ![a] = row] /\ account[a] = seen
  BY <1>1, <1>2, <1>4, DecidedStore
<1>6. /\ ResetOf(row) = 0 /\ ResetMissesOf(row) = 0 /\ ResetUntilOf(row) = 0
      /\ ResetOf(seen) = seen.code /\ ResetMissesOf(seen) = seen.attempts /\ ResetUntilOf(seen) = seen.expires
  BY <1>2, <1>3, <1>4, SignInShapes DEF ResetOf, ResetMissesOf, ResetUntilOf
<1>7. /\ liveResets' = [liveResets EXCEPT ![a] = 0] /\ missedResets' = [missedResets EXCEPT ![a] = 0]
      /\ untilResets' = [untilResets EXCEPT ![a] = 0]
      /\ liveResets[a] = seen.code /\ missedResets[a] = seen.attempts /\ untilResets[a] = seen.expires
  <2>1. account'[a] = row /\ \A x \in Account \ {a} : account'[x] = account[x]
    BY <1>3, <1>5, SignInShapes
  <2> QED
    BY <1>3, <1>5, <1>6, <2>1, ResetWrite
<1>8. clock <= seen.expires
  BY <1>2, <1>3, SignInShapes DEF SignInRow
<1>9. ResetCode!Accept(a)
  <2>1. liveResets' = ResetCode!Cut(liveResets, {a}) /\ missedResets' = ResetCode!Cut(missedResets, {a})
        /\ untilResets' = ResetCode!Cut(untilResets, {a})
    BY <1>7, CutOne
  <2> QED
    BY <1>2, <1>7, <1>8, <2>1 DEF ResetCode!Accept, ResetCode!Gone, liveResets, missedResets, untilResets
<1> QED
  BY <1>9 DEF ResetCode!Next

\* A code that goes without being accepted is withdrawn.
LEMMA ResetWithdrawn ==
  ASSUME SignInTyped, NEW a \in Account, liveResets' = [liveResets EXCEPT ![a] = 0],
         missedResets' = [missedResets EXCEPT ![a] = 0], untilResets' = [untilResets EXCEPT ![a] = 0],
         UNCHANGED <<resets, redeemed, clock>>
  PROVE  ResetCode!Next
<1>1. liveResets' = ResetCode!Cut(liveResets, {a}) /\ missedResets' = ResetCode!Cut(missedResets, {a})
      /\ untilResets' = ResetCode!Cut(untilResets, {a})
  BY CutOne
<1>2. {a} \in SUBSET Account
  OBVIOUS
<1>3. ResetCode!Withdraw
  BY <1>1, <1>2 DEF ResetCode!Withdraw, ResetCode!Gone, liveResets, missedResets, untilResets
<1> QED
  BY <1>3 DEF ResetCode!Next

\* A wrong answer is counted, and the last one withdraws the code.
LEMMA ResetMissCounts ==
  ASSUME SignInInv, NEW s \in Session, RejectReset(s)
  PROVE  ResetCode!Next
<1>1. PICK a \in Account : a = job[s].account
  BY DEF SignInInv, SignInTyped, CallRecord, RejectReset, Deciding
<1> DEFINE seen == job[s].seen  row == Missed(seen)
<1>2. /\ pc[s] = "decide" /\ Store(s, row) /\ seen.attempts < ResetGuesses /\ seen.code # 0
      /\ UNCHANGED <<resets, redeemed, clock>>
  BY DEF RejectReset, Deciding, Store, CodeUsable, signInHistory
<1>3. SignInTyped /\ seen \in SignInRow
  BY <1>2 DEF SignInInv, SignInKnows
<1>4. /\ row \in SignInRow /\ row.attempts = seen.attempts + 1
      /\ IF seen.attempts + 1 >= ResetGuesses THEN row.code = 0
         ELSE row.code = seen.code /\ row.expires = seen.expires
  BY <1>2, <1>3, MissedRow
<1> HIDE DEF row
<1>5. account' = [account EXCEPT ![a] = row] /\ account[a] = seen
  BY <1>1, <1>2, <1>4, DecidedStore
<1>6. /\ row # None /\ seen # None
      /\ account'[a] = row /\ \A x \in Account \ {a} : account'[x] = account[x]
  BY <1>3, <1>4, <1>5, SignInShapes
<1>7. CASE seen.attempts + 1 >= ResetGuesses
  <2>1. ResetOf(row) = 0 /\ ResetMissesOf(row) = 0 /\ ResetUntilOf(row) = 0
    BY <1>4, <1>6, <1>7 DEF ResetOf, ResetMissesOf, ResetUntilOf
  <2>2. /\ liveResets' = [liveResets EXCEPT ![a] = 0] /\ missedResets' = [missedResets EXCEPT ![a] = 0]
        /\ untilResets' = [untilResets EXCEPT ![a] = 0]
    BY <1>3, <1>6, <2>1, ResetWrite
  <2> QED
    BY <1>2, <1>3, <2>2, ResetWithdrawn
<1>8. CASE ~(seen.attempts + 1 >= ResetGuesses)
  <2>1. /\ ResetOf(row) = seen.code /\ ResetMissesOf(row) = seen.attempts + 1 /\ ResetUntilOf(row) = seen.expires
        /\ ResetOf(seen) = seen.code /\ ResetMissesOf(seen) = seen.attempts /\ ResetUntilOf(seen) = seen.expires
    BY <1>2, <1>4, <1>6, <1>8 DEF ResetOf, ResetMissesOf, ResetUntilOf
  <2>2. /\ liveResets' = liveResets /\ untilResets' = untilResets /\ missedResets' = [missedResets EXCEPT ![a] = missedResets[a] + 1]
        /\ liveResets[a] = seen.code /\ missedResets[a] = seen.attempts
    <3>1. /\ liveResets' = [liveResets EXCEPT ![a] = liveResets[a]] /\ untilResets' = [untilResets EXCEPT ![a] = untilResets[a]]
          /\ missedResets' = [missedResets EXCEPT ![a] = missedResets[a] + 1]
          /\ liveResets[a] = seen.code /\ missedResets[a] = seen.attempts
      <4>1. liveResets[a] = seen.code /\ missedResets[a] = seen.attempts /\ untilResets[a] = seen.expires
        BY <1>3, <1>5, <1>6, <2>1, ResetWrite
      <4> QED
        BY <1>3, <1>6, <2>1, <4>1, ResetWrite
    <3> QED
      BY <3>1 DEF liveResets, untilResets
  <2>3. missedResets[a] + 1 < ResetGuesses
    <3>1. seen.attempts \in Nat /\ ResetGuesses \in Nat
      BY <1>3, SignInShapes DEF SignInRow
    <3> HIDE DEF seen
    <3> QED
      BY <1>8, <2>2, <3>1
  <2>4. ResetCode!Miss(a)
    BY <1>2, <2>2, <2>3 DEF ResetCode!Miss, liveResets, missedResets, untilResets
  <2> QED
    BY <2>4 DEF ResetCode!Next
<1> QED
  BY <1>7, <1>8

\* A sign-in leaves the code of the account.
LEMMA LoginStutters ==
  ASSUME SignInInv, NEW s \in Session, RejectPassword(s) \/ AcceptPassword(s)
  PROVE  UNCHANGED ResetCode!codeVars
<1>1. PICK a \in Account : a = job[s].account
  BY DEF SignInInv, SignInTyped, CallRecord, RejectPassword, AcceptPassword, Deciding
<1>2. pc[s] = "decide" /\ UNCHANGED <<resets, redeemed, clock>>
  BY DEF RejectPassword, AcceptPassword, Deciding, Store
<1>3. SignInTyped /\ job[s].seen \in SignInRow
  BY <1>2 DEF SignInInv, SignInKnows
<1>4. ASSUME NEW row \in SignInRow, Store(s, row), row.code = job[s].seen.code,
             row.expires = job[s].seen.expires, row.attempts = job[s].seen.attempts
      PROVE  UNCHANGED ResetCode!codeVars
  <2>1. account' = [account EXCEPT ![a] = row] /\ account[a] = job[s].seen
    BY <1>1, <1>2, <1>4, DecidedStore
  <2> QED
    BY <1>2, <1>3, <1>4, <2>1, ResetStutter
<1>5. CASE RejectPassword(s)
  <2> DEFINE seen == job[s].seen
             row == IF seen.failures + 1 >= LoginLimit
                    THEN [seen EXCEPT !.failures = 0, !.locked = clock + LockTime]
                    ELSE [seen EXCEPT !.failures = @ + 1]
  <2>1. Store(s, row)
    BY <1>5 DEF RejectPassword
  <2>2. row \in SignInRow /\ row.code = seen.code /\ row.expires = seen.expires /\ row.attempts = seen.attempts
    BY <1>3, RejectedRow
  <2> HIDE DEF row
  <2> QED
    BY <1>4, <2>1, <2>2
<1>6. CASE AcceptPassword(s)
  <2>1. Store(s, Cleared(job[s].seen))
    BY <1>6 DEF AcceptPassword
  <2> QED
    BY <1>3, <1>4, <2>1, ClearedRow
<1> QED
  BY <1>5, <1>6

\* Every step of a request is a step of the reset codes, or none.
LEMMA RequestRefines ==
  ASSUME SignInInv, NEW s \in Session, SignInRequest(s)
  PROVE  [ResetCode!Next]_(ResetCode!codeVars)
<1>1. SignInTyped
  BY DEF SignInInv
<1>2. ASSUME UNCHANGED <<account, resets, redeemed, clock>>
      PROVE  UNCHANGED ResetCode!codeVars
  BY <1>2 DEF ResetCode!codeVars, LiveReset
<1>3. CASE SignInRefused(s) \/ LockAccount(s) \/ FlushProfile(s) \/ WriteProfileAlone(s)
  BY <1>2, <1>3 DEF SignInRefused, Refuse, LockAccount, FlushProfile, WriteProfileAlone, signInHistory
<1>4. CASE WriteStale(s)
  <2>1. UNCHANGED <<resets, redeemed, clock>>
    BY <1>4 DEF WriteStale, Store
  <2> QED
    BY <1>1, <1>4, <2>1, StaleWrite, ResetStutter
<1>5. CASE DeleteAccount(s)
  <2>1. PICK a \in Account : a = job[s].account
    BY <1>1, <1>5, SignInShapes DEF DeleteAccount, Writing, CallRecord
  <2>2. account' = [account EXCEPT ![a] = None] /\ UNCHANGED <<resets, redeemed, clock>>
    BY <1>5, <2>1 DEF DeleteAccount, signInHistory
  <2>3. account'[a] = None /\ \A x \in Account \ {a} : account'[x] = account[x]
    BY <1>1, <2>2, SignInShapes
  <2>4. ResetOf(None) = 0 /\ ResetMissesOf(None) = 0 /\ ResetUntilOf(None) = 0
    BY DEF ResetOf, ResetMissesOf, ResetUntilOf
  <2>5. /\ liveResets' = [liveResets EXCEPT ![a] = 0] /\ missedResets' = [missedResets EXCEPT ![a] = 0]
        /\ untilResets' = [untilResets EXCEPT ![a] = 0]
    BY <1>1, <2>3, <2>4, ResetWrite
  <2> QED
    BY <1>1, <2>2, <2>5, ResetWithdrawn
<1> QED
  BY <1>3, <1>4, <1>5, LoginStutters, ResetIssues, ResetMissCounts, ResetAccepts, RequestCases

LEMMA NoResetsAtFirst == CredentialsInit => ResetCode!Init
<1>1. ASSUME CredentialsInit
      PROVE  \A a \in Account : LiveReset(a) = 0
  BY <1>1, AccountAssumption DEF CredentialsInit, NoSignIns, LiveReset, NewAccount
<1> QED
  BY <1>1 DEF CredentialsInit, BackendInit, NoSignIns, ResetCode!Init

LEMMA ResetSteps ==
  ASSUME SignInInv, [CredentialsNext]_credentialVars
  PROVE  [ResetCode!Next]_(ResetCode!codeVars)
<1>1. ASSUME UNCHANGED <<account, resets, redeemed>>, clock' = clock \/ clock' = clock + 1
      PROVE  [ResetCode!Next]_(ResetCode!codeVars)
  BY <1>1 DEF ResetCode!Next, ResetCode!Pass, ResetCode!codeVars, LiveReset
<1>2. CASE \E s \in Session, a \in Account : BeginAny(s, a)
  <2>1. UNCHANGED <<account, signInHistory, clock>>
    BY <1>2, Begins DEF BeginCall
  <2> QED
    BY <1>1, <2>1 DEF signInHistory
<1>3. CASE \E s \in Session : SignInRequest(s)
  BY <1>3, RequestRefines
<1>4. CASE CredentialsTick \/ UNCHANGED credentialVars
  BY <1>1, <1>4 DEF CredentialsTick, credentialVars, signInHistory
<1> QED
  BY <1>2, <1>3, <1>4 DEF CredentialsNext, CredentialsStep, BeginAny, SignInRequest

\* The reset codes of the accounts are one-time codes, whatever requests with old rows write.
THEOREM ResetCodesOneTime == CredentialsSpec => ResetImplementsOneTimeCode
BY NoResetsAtFirst, ResetSteps, SignInInvariant, PTL DEF CredentialsSpec, ResetImplementsOneTimeCode, ResetCode!Spec
-----------------------------------------------------------------------------
\* A step raises the version of an account, or leaves it and refuses nobody it accepted.
Advances ==
  \A a \in Account : account'[a] # None =>
    /\ account[a] # None
    /\ \/ account[a].version < account'[a].version
       \/ /\ account[a].version = account'[a].version
          /\ account[a].active /\ Open(a) => account'[a].active /\ Open(a)'

\* Where versions only rise, refused tokens stay refused.
LEMMA AdvancesRefuse ==
  ASSUME SignInTyped, SignInTyped', Current, Advances, \A t \in tokens' : t \in tokens \/ Valid(t)'
  PROVE  Current' /\ TokensStayRefused
<1>1. ASSUME NEW t \in tokens, account'[t[1]] # None
      PROVE  (t[2] < account'[t[1]].version \/ Valid(t)') /\ (~Valid(t) => ~Valid(t)')
  <2>1. PICK a \in Account, v \in Nat : t = <<a, v>>
    BY SignInShapes
  <2>2. /\ account[a] # None
        /\ \/ account[a].version < account'[a].version
           \/ /\ account[a].version = account'[a].version
              /\ account[a].active /\ Open(a) => account'[a].active /\ Open(a)'
    BY <1>1, <2>1 DEF Advances
  <2>3. account[a].version \in Nat /\ account'[a].version \in Nat
    <3>1. account[a] \in SignInRow
      BY <2>2, SignInShapes
    <3>2. account'[a] \in SignInRow
      BY <1>1, <2>1 DEF SignInTyped
    <3> QED
      BY <3>1, <3>2 DEF SignInRow
  <2>4. v < account[a].version \/ Valid(t)
    BY <2>1, <2>2 DEF Current
  <2>5. Valid(t) => account[a].version = v /\ account[a].active /\ Open(a)
    BY <2>1 DEF Valid
  <2>6. Valid(t)' <=> account'[a] # None /\ account'[a].active /\ account'[a].version = v /\ Open(a)'
    BY <2>1 DEF Valid
  <2> QED
    BY <1>1, <2>1, <2>2, <2>3, <2>4, <2>5, <2>6
<1>2. ASSUME NEW t \in tokens, account'[t[1]] = None
      PROVE  ~Valid(t)'
  BY <1>2 DEF Valid
<1> QED
  BY <1>1, <1>2 DEF Current, TokensStayRefused

\* A write of one account whose version rises or which keeps its activity.
LEMMA OneAdvances ==
  ASSUME SignInTyped, NEW a \in Account, NEW row \in SignInRow, account[a] \in SignInRow,
         account' = [account EXCEPT ![a] = row], UNCHANGED profile,
         \/ account[a].version < row.version
         \/ account[a].version = row.version /\ row.active = account[a].active
  PROVE  Advances
<1>1. account'[a] = row /\ \A x \in Account \ {a} : account'[x] = account[x]
  BY SignInShapes
<1>2. account[a] # None /\ \A x \in Account : Open(x)' = Open(x)
  BY SignInShapes DEF Open
<1> QED
  BY <1>1, <1>2 DEF Advances

\* Steps that write no account and no profile.
LEMMA StillAdvances ==
  ASSUME UNCHANGED <<account, profile>>
  PROVE  Advances
BY DEF Advances, Open

\* A request of management whose reading is up to date raises the version with every new activity.
LEMMA WriteAdvances ==
  ASSUME SignInInv, NEW s \in Session, UpToDate(s), WriteStale(s)
  PROVE  Advances
<1>1. SignInTyped /\ SignInKnows(s)
  BY DEF SignInInv
<1>2. PICK a \in Account, row \in SignInRow :
        /\ a = job[s].account /\ account[a] \in SignInRow
        /\ account' = [account EXCEPT ![a] = row] /\ account'[a] = row
        /\ row = Flushed(account[a], job[s].seen, Assigned(job[s]))
  BY StaleWrite
<1>3. /\ pc[s] = "write" /\ job[s].kind # "delete" /\ job[s].seen # None
      /\ job[s] \in CallRecord /\ profile' = ProfileAfter(s)
  BY <1>1, SignInShapes DEF WriteStale, Writing
<1>4. PICK call \in CallRecord : call = job[s]
  BY <1>3
<1>5. SameVersion(call.seen, account[a]) /\ call.seen \in SignInRow
  <2>1. account[a] # None /\ call.seen \in SignInRow
    BY <1>1, <1>2, <1>3, <1>4, SignInShapes DEF CallRecord
  <2> QED
    BY <1>2, <1>3, <1>4, <2>1 DEF UpToDate
<1>6. /\ Assigned(call) \in SignInRow /\ Assigned(call).version >= call.seen.version
      /\ Assigned(call).active = IF call.active = None THEN call.seen.active ELSE call.active
      /\ Assigned(call).active # call.seen.active => Assigned(call).version > call.seen.version
  BY <1>5, AssignedRow
<1>7. row.version = Assigned(call).version /\ row.active = Assigned(call).active
  BY <1>2, <1>4, <1>5, <1>6, FlushedSignIn
<1>8. call.seen.version \in Nat /\ row.version \in Nat
  BY <1>5 DEF SignInRow
<1>9. account[a].version < row.version \/ (account[a].version = row.version /\ row.active = account[a].active)
  <2> DEFINE x == call.seen.version  y == row.version
  <2>1. x \in Nat /\ y \in Nat /\ y >= x /\ (row.active # account[a].active => y > x)
    BY <1>5, <1>6, <1>7, <1>8 DEF SameVersion
  <2>2. account[a].version = x
    BY <1>5 DEF SameVersion
  <2> HIDE DEF x, y
  <2>3. x < y \/ x = y
    BY <2>1
  <2>4. x = y => row.active = account[a].active
    <3>1. ~(x > x)
      BY <2>1
    <3> QED
      BY <2>1, <3>1
  <2> QED
    BY <2>1, <2>2, <2>3, <2>4 DEF y
<1>10. CASE profile' = profile
  <2>1. account[a].version < row.version \/ (account[a].version = row.version /\ row.active = account[a].active)
    BY <1>9
  <2> QED
    BY <1>1, <1>2, <1>10, <2>1, OneAdvances
<1>11. CASE call.kind = "profile" /\ profile' = [profile EXCEPT ![a] = call.active]
  <2>1. a \in Professional /\ call.active \in BOOLEAN /\ call.active # None
    BY <1>1, <1>2, <1>3, <1>4, <1>11, AccountAssumption DEF SignInKnows
  <2>2. row.active = call.active
    BY <1>6, <1>7, <2>1
  <2>3. profile'[a] = call.active /\ \A x \in Professional \ {a} : profile'[x] = profile[x]
    BY <1>1, <1>11, <2>1, SignInShapes
  <2>4. account[a].version < row.version \/ (account[a].version = row.version /\ row.active = account[a].active)
    BY <1>9
  <2>5. account'[a] = row /\ account[a] # None /\ \A x \in Account \ {a} : account'[x] = account[x]
    BY <1>1, <1>2, SignInShapes
  <2>6. \A x \in Account \ {a} : Open(x)' = Open(x)
    BY <2>3 DEF Open
  <2>7. account[a].active /\ row.active = account[a].active => Open(a)'
    BY <2>2, <2>3 DEF Open
  <2> QED
    BY <2>4, <2>5, <2>6, <2>7 DEF Advances
<1> QED
  BY <1>2, <1>3, <1>4, <1>10, <1>11 DEF ProfileAfter
-----------------------------------------------------------------------------
\* A request that has decided keeps the version and the activity, or raises the version.
LEMMA DecidedAdvances ==
  ASSUME SignInInv, NEW s \in Session, pc[s] = "decide", NEW row \in SignInRow, Store(s, row),
         UNCHANGED profile, row.active = job[s].seen.active,
         row.version = job[s].seen.version \/ row.version = job[s].seen.version + 1
  PROVE  Advances
<1>1. PICK a \in Account : a = job[s].account
  BY DecidedStore
<1>2. account' = [account EXCEPT ![a] = row] /\ account[a] = job[s].seen /\ job[s].seen \in SignInRow
  BY <1>1, DecidedStore
<1>3. job[s].seen.version \in Nat
  BY <1>2 DEF SignInRow
<1>4. account[a].version < row.version \/ (account[a].version = row.version /\ row.active = account[a].active)
  <2>1. CASE row.version = job[s].seen.version
    BY <1>2, <2>1
  <2>2. CASE row.version = job[s].seen.version + 1
    BY <1>2, <1>3, <2>2
  <2> QED
    BY <2>1, <2>2
<1> QED
  BY <1>2, <1>4, OneAdvances DEF SignInInv

\* The tokens that were given stay, and a right password gives one that is accepted.
LEMMA AcceptAdvances ==
  ASSUME SignInInv, NEW s \in Session, AcceptPassword(s)
  PROVE  Advances /\ \A t \in tokens' : t \in tokens \/ Valid(t)'
<1>1. PICK a \in Account : a = job[s].account
  BY DEF SignInInv, SignInTyped, CallRecord, AcceptPassword, Deciding
<1> DEFINE seen == job[s].seen  row == Cleared(seen)
<1>2. /\ pc[s] = "decide" /\ Store(s, row) /\ tokens' = tokens \cup {<<a, seen.version>>}
      /\ UNCHANGED profile /\ seen.active /\ Open(a)
  BY <1>1 DEF AcceptPassword, Deciding, MayLogin
<1>3. seen \in SignInRow /\ None \notin SignInRow
  BY <1>2, SignInShapes DEF SignInInv, SignInKnows
<1>4. row \in SignInRow /\ row.version = seen.version /\ row.active = seen.active
  BY <1>3, ClearedRow
<1> HIDE DEF row
<1>5. account'[a] = row
  BY <1>1, <1>2, <1>4, DecidedStore
<1>6. Advances
  BY <1>2, <1>4, DecidedAdvances
<1>7. PICK v \in Nat : v = seen.version
  BY <1>3 DEF SignInRow
<1>8. Valid(<<a, v>>)'
  BY <1>2, <1>3, <1>4, <1>5, <1>7 DEF Valid, Open
<1> QED
  BY <1>2, <1>6, <1>7, <1>8

\* No request lets an account go back to an earlier version.
LEMMA RequestAdvances ==
  ASSUME SignInInv, NEW s \in Session, UpToDate(s), SignInRequest(s)
  PROVE  Advances /\ \A t \in tokens' : t \in tokens \/ Valid(t)'
<1>1. SignInTyped /\ SignInKnows(s)
  BY DEF SignInInv
<1>2. CASE SignInRefused(s) \/ LockAccount(s) \/ FlushProfile(s)
  <2>1. UNCHANGED <<account, profile, tokens>>
    BY <1>2 DEF SignInRefused, Refuse, LockAccount, FlushProfile, signInHistory
  <2> QED
    BY <2>1, StillAdvances
<1>3. CASE RejectPassword(s)
  <2> DEFINE seen == job[s].seen
             row == IF seen.failures + 1 >= LoginLimit
                    THEN [seen EXCEPT !.failures = 0, !.locked = clock + LockTime]
                    ELSE [seen EXCEPT !.failures = @ + 1]
  <2>1. pc[s] = "decide" /\ Store(s, row) /\ UNCHANGED <<profile, tokens>>
    BY <1>3 DEF RejectPassword, Deciding
  <2>2. seen \in SignInRow
    BY <1>1, <2>1 DEF SignInKnows
  <2>3. row \in SignInRow /\ row.version = seen.version /\ row.active = seen.active
    BY <2>2, RejectedRow
  <2> HIDE DEF row
  <2> QED
    BY <2>1, <2>3, DecidedAdvances
<1>4. CASE DrawReset(s)
  <2>1. pc[s] = "decide" /\ Store(s, DrawnRow(job[s].seen)) /\ UNCHANGED <<profile, tokens>>
    BY <1>4 DEF DrawReset, Deciding, DrawnRow
  <2>2. job[s].seen \in SignInRow
    BY <1>1, <2>1 DEF SignInKnows
  <2> QED
    BY <1>1, <2>1, <2>2, DrawnRowFacts, DecidedAdvances
<1>5. CASE RejectReset(s)
  <2>1. /\ pc[s] = "decide" /\ Store(s, Missed(job[s].seen)) /\ UNCHANGED <<profile, tokens>>
        /\ job[s].seen.attempts < ResetGuesses
    BY <1>5 DEF RejectReset, Deciding, CodeUsable, signInHistory
  <2>2. job[s].seen \in SignInRow
    BY <1>1, <2>1 DEF SignInKnows
  <2> QED
    BY <1>1, <2>1, <2>2, MissedRow, DecidedAdvances
<1>6. CASE AcceptReset(s)
  <2>1. pc[s] = "decide" /\ Store(s, ResetRow(job[s].seen)) /\ UNCHANGED <<profile, tokens>>
    BY <1>6 DEF AcceptReset, Deciding
  <2>2. job[s].seen \in SignInRow
    BY <1>1, <2>1 DEF SignInKnows
  <2> QED
    BY <1>1, <2>1, <2>2, ResetRowFacts, DecidedAdvances
<1>7. CASE WriteStale(s)
  <2>1. tokens' = tokens
    BY <1>7 DEF WriteStale
  <2> QED
    BY <1>7, <2>1, WriteAdvances
<1>8. CASE WriteProfileAlone(s)
  <2>1. /\ pc[s] = "write" /\ job[s].seen = None /\ profile' = ProfileAfter(s)
        /\ UNCHANGED <<account, tokens>>
    BY <1>8 DEF WriteProfileAlone, Writing, signInHistory
  <2>2. PICK a \in Account : a = job[s].account
    BY <1>1, <2>1, SignInShapes DEF CallRecord
  <2>4. account[a] = None \/ profile' = profile
    BY <2>1, <2>2 DEF UpToDate, SameVersion, ProfileAfter
  <2>3. \A x \in Account \ {a} : Open(x)' = Open(x)
    BY <1>1, <2>1, <2>2, SignInShapes DEF ProfileAfter, Open
  <2> QED
    BY <2>1, <2>2, <2>3, <2>4 DEF Advances, Open
<1>9. CASE DeleteAccount(s)
  <2>1. PICK a \in Account : a = job[s].account
    BY <1>1, <1>9, SignInShapes DEF DeleteAccount, Writing, CallRecord
  <2>2. account' = [account EXCEPT ![a] = None] /\ UNCHANGED <<profile, tokens>>
    BY <1>9, <2>1 DEF DeleteAccount, signInHistory
  <2>3. account'[a] = None /\ \A x \in Account \ {a} : account'[x] = account[x]
    BY <1>1, <2>2, SignInShapes
  <2> QED
    BY <2>2, <2>3 DEF Advances, Open
<1> QED
  BY <1>2, <1>3, <1>4, <1>5, <1>6, <1>7, <1>8, <1>9, AcceptAdvances, RequestCases

\* Only requests that renew the version of an account write another version or activity.
LEMMA VersionSpared ==
  ASSUME SignInInv, NEW s \in Session, SignInRequest(s), NEW a \in Account, account'[a] # None,
         ~(Renews(s) /\ job[s].account = a)
  PROVE  SameVersion(account[a], account'[a])
<1>1. SignInTyped /\ SignInKnows(s)
  BY DEF SignInInv
<1>2. SUFFICES account' # account => SameVersion(account[a], account'[a])
  BY DEF SameVersion
<1>3. ASSUME pc[s] = "decide", NEW row \in SignInRow, Store(s, row),
             row.version = job[s].seen.version /\ row.active = job[s].seen.active
      PROVE  SameVersion(account[a], account'[a])
  <2>1. PICK x \in Account : x = job[s].account
    BY <1>3, DecidedStore
  <2>2. account' = [account EXCEPT ![x] = row] /\ account[x] = job[s].seen /\ job[s].seen \in SignInRow
    BY <1>3, <2>1, DecidedStore
  <2>3. account'[x] = row /\ (a # x => account'[a] = account[a])
    BY <1>1, <2>2, SignInShapes
  <2> QED
    BY <1>1, <1>3, <2>2, <2>3, SignInShapes DEF SameVersion
<1>4. ASSUME NEW x \in Account, NEW row, account' = [account EXCEPT ![x] = row], x # a
      PROVE  SameVersion(account[a], account'[a])
  BY <1>1, <1>4, SignInShapes DEF SameVersion
<1>5. CASE SignInRefused(s) \/ LockAccount(s) \/ FlushProfile(s) \/ WriteProfileAlone(s)
  BY <1>2, <1>5 DEF SignInRefused, Refuse, LockAccount, FlushProfile, WriteProfileAlone
<1>6. CASE RejectPassword(s)
  <2> DEFINE seen == job[s].seen
             row == IF seen.failures + 1 >= LoginLimit
                    THEN [seen EXCEPT !.failures = 0, !.locked = clock + LockTime]
                    ELSE [seen EXCEPT !.failures = @ + 1]
  <2>1. pc[s] = "decide" /\ Store(s, row)
    BY <1>6 DEF RejectPassword, Deciding
  <2>2. seen \in SignInRow
    BY <1>1, <2>1 DEF SignInKnows
  <2>3. row \in SignInRow /\ row.version = seen.version /\ row.active = seen.active
    BY <2>2, RejectedRow
  <2> HIDE DEF row
  <2> QED
    BY <1>3, <2>1, <2>3
<1>7. CASE AcceptPassword(s)
  <2>1. pc[s] = "decide" /\ Store(s, Cleared(job[s].seen))
    BY <1>7 DEF AcceptPassword, Deciding
  <2>2. job[s].seen \in SignInRow
    BY <1>1, <2>1 DEF SignInKnows
  <2> QED
    BY <1>3, <2>1, <2>2, ClearedRow
<1>8. CASE DrawReset(s)
  <2>1. pc[s] = "decide" /\ Store(s, DrawnRow(job[s].seen))
    BY <1>8 DEF DrawReset, Deciding, DrawnRow
  <2>2. job[s].seen \in SignInRow
    BY <1>1, <2>1 DEF SignInKnows
  <2> QED
    BY <1>1, <1>3, <2>1, <2>2, DrawnRowFacts
<1>9. CASE RejectReset(s)
  <2>1. pc[s] = "decide" /\ Store(s, Missed(job[s].seen)) /\ job[s].seen.attempts < ResetGuesses
    BY <1>9 DEF RejectReset, Deciding, CodeUsable
  <2>2. job[s].seen \in SignInRow
    BY <1>1, <2>1 DEF SignInKnows
  <2> QED
    BY <1>1, <1>3, <2>1, <2>2, MissedRow
<1>10. CASE AcceptReset(s)
  <2>1. pc[s] = "decide" /\ Renews(s) /\ Store(s, ResetRow(job[s].seen))
    BY <1>10 DEF AcceptReset, Deciding, Renews
  <2>2. job[s].seen \in SignInRow
    BY <1>1, <2>1 DEF SignInKnows
  <2>3. PICK x \in Account : x = job[s].account /\ account' = [account EXCEPT ![x] = ResetRow(job[s].seen)]
    BY <2>1, <2>2, ResetRowFacts, DecidedStore
  <2> QED
    BY <1>4, <2>1, <2>3
<1>11. CASE WriteStale(s)
  <2>1. Renews(s)
    BY <1>11 DEF WriteStale, Writing, Renews
  <2>2. PICK x \in Account, row \in SignInRow : x = job[s].account /\ account' = [account EXCEPT ![x] = row]
    BY <1>11, StaleWrite
  <2> QED
    BY <1>4, <2>1, <2>2
<1>12. CASE DeleteAccount(s)
  <2>1. PICK x \in Account : x = job[s].account
    BY <1>1, <1>12, SignInShapes DEF DeleteAccount, Writing, CallRecord
  <2>2. account' = [account EXCEPT ![x] = None]
    BY <1>12, <2>1 DEF DeleteAccount
  <2>3. x # a
    BY <1>1, <2>2, SignInShapes
  <2> QED
    BY <1>4, <2>2, <2>3
<1> QED
  BY <1>5, <1>6, <1>7, <1>8, <1>9, <1>10, <1>11, <1>12, RequestCases

\* While nobody renews the version of the account in between, a reading stays up to date.
LEMMA ReadingsKept ==
  ASSUME SignInInv, TokenInv, VersionsApart, [CredentialsNext]_credentialVars
  PROVE  \A q \in Session : UpToDate(q)'
<1>1. SignInTyped
  BY DEF SignInInv
<1>2. ASSUME NEW q \in Session, UNCHANGED <<pc, job, account>>
      PROVE  UpToDate(q)'
  BY <1>2 DEF TokenInv, UpToDate
<1>3. CASE CredentialsTick \/ UNCHANGED credentialVars
  BY <1>2, <1>3 DEF CredentialsTick, credentialVars
<1>4. ASSUME NEW s \in Session, NEW a \in Account, BeginAny(s, a), NEW q \in Session
      PROVE  UpToDate(q)'
  <2>1. PICK step \in SignInStep, call \in CallRecord : BeginCall(s, step, call) /\ SignInBegun(step, call)
    BY <1>4, Begins
  <2>2. pc' = [pc EXCEPT ![s] = step] /\ job' = [job EXCEPT ![s] = call] /\ account' = account
    BY <2>1 DEF BeginCall, Begin
  <2>3. pc'[s] = step /\ job'[s] = call /\ (q # s => pc'[q] = pc[q] /\ job'[q] = job[q])
    BY <1>1, <2>2, SignInShapes
  <2>4. CASE q = s
    BY <2>1, <2>2, <2>3, <2>4 DEF SignInBegun, UpToDate, SameVersion
  <2>5. CASE q # s
    BY <2>2, <2>3, <2>5 DEF UpToDate, TokenInv
  <2> QED
    BY <2>4, <2>5
<1>5. ASSUME NEW s \in Session, SignInRequest(s), NEW q \in Session
      PROVE  UpToDate(q)'
  <2>1. PICK step \in SignInStep, call \in CallRecord \cup {None} :
          pc' = [pc EXCEPT ![s] = step] /\ job' = [job EXCEPT ![s] = call]
    BY <1>5, RequestMoves
  <2>2. pc'[s] = step /\ (q # s => pc'[q] = pc[q] /\ job'[q] = job[q])
    BY <1>1, <2>1, SignInShapes
  <2>3. CASE q # s
    <3>1. SUFFICES ASSUME pc[q] = "write", job[q].kind # "delete", account'[job[q].account] # None
                   PROVE  SameVersion(job[q].seen, account'[job[q].account])
      BY <2>2, <2>3 DEF UpToDate
    <3>2. PICK a \in Account : a = job[q].account
      BY <1>1, <3>1, SignInShapes DEF CallRecord
    <3>3. Renews(q) /\ ~(Renews(s) /\ job[s].account = a)
      BY <2>3, <3>1, <3>2 DEF VersionsApart, Renews
    <3>4. SameVersion(account[a], account'[a])
      BY <1>5, <3>1, <3>2, <3>3, VersionSpared
    <3>5. SameVersion(job[q].seen, account[a])
      BY <3>1, <3>2, <3>4 DEF TokenInv, UpToDate, SameVersion
    <3> QED
      BY <3>2, <3>4, <3>5 DEF SameVersion
  <2>4. CASE q = s
    <3>1. CASE FlushProfile(s)
      <4>1. /\ job' = [job EXCEPT ![s].seen = account[job[s].account]] /\ account' = account
            /\ job[s] \in CallRecord
        BY <1>1, <3>1, SignInShapes DEF FlushProfile, Goto
      <4>2. job'[s].seen = account[job[s].account] /\ job'[s].account = job[s].account
        BY <1>1, <4>1, SignInShapes DEF CallRecord
      <4> QED
        BY <2>4, <4>1, <4>2 DEF UpToDate, SameVersion
    <3>2. CASE LockAccount(s)
      <4>1. pc'[s] = "decide"
        BY <1>1, <3>2, SignInShapes DEF LockAccount, Goto
      <4> QED
        BY <2>4, <4>1 DEF UpToDate
    <3>3. CASE ~FlushProfile(s) /\ ~LockAccount(s)
      <4>1. Answer(s)
        BY <1>5, <3>3, RequestCases DEF SignInRefused, Refuse, RejectPassword, AcceptPassword, DrawReset,
           RejectReset, AcceptReset, WriteStale, WriteProfileAlone, DeleteAccount, Store
      <4>2. pc'[s] = "idle"
        BY <1>1, <4>1, SignInShapes DEF Answer
      <4> QED
        BY SMTT(30), <2>4, <4>2 DEF UpToDate
    <3> QED
      BY <3>1, <3>2, <3>3
  <2> QED
    BY <2>3, <2>4
<1> QED
  BY <1>3, <1>4, <1>5 DEF CredentialsNext, CredentialsStep, BeginAny, SignInRequest

\* One step while versions are written apart.
LEMMA TokenStep ==
  ASSUME SignInInv, TokenInv, VersionsApart, [CredentialsNext]_credentialVars
  PROVE  TokenInv' /\ TokensStayRefused
<1>1. SignInTyped /\ SignInTyped'
  BY SignInStepKeeps DEF SignInInv
<1>2. Advances /\ \A t \in tokens' : t \in tokens \/ Valid(t)'
  <2>1. CASE UNCHANGED <<account, profile, tokens>>
    BY <2>1, StillAdvances
  <2>2. CASE \E s \in Session, a \in Account : BeginAny(s, a)
    <3>1. UNCHANGED <<account, profile, signInHistory>>
      BY <2>2, Begins DEF BeginCall
    <3> QED
      BY <2>1, <3>1 DEF signInHistory
  <2>3. CASE \E s \in Session : SignInRequest(s)
    BY <2>3, RequestAdvances DEF TokenInv
  <2>4. CASE CredentialsTick \/ UNCHANGED credentialVars
    BY <2>1, <2>4 DEF CredentialsTick, credentialVars, signInHistory
  <2> QED
    BY <2>2, <2>3, <2>4 DEF CredentialsNext, CredentialsStep, BeginAny, SignInRequest
<1> QED
  BY <1>1, <1>2, AdvancesRefuse, ReadingsKept DEF TokenInv

\* Unless two requests about one account overlap that both write its version, of which one writes
\* from an unlocked reading, no refused token is accepted again; where they do, a reactivation can
\* bring back the version of a revoked token.
THEOREM OrderlyTokens == CredentialsSpec /\ []VersionsApart => NoTokenRevives
<1>1. CredentialsInit => TokenInv
  BY DEF CredentialsInit, BackendInit, NoSignIns, TokenInv, Current, UpToDate
<1>2. SignInInv /\ TokenInv /\ VersionsApart /\ [CredentialsNext]_credentialVars => TokenInv'
  BY TokenStep
<1>3. SignInInv /\ TokenInv /\ VersionsApart /\ [CredentialsNext]_credentialVars
        => [TokensStayRefused]_credentialVars
  BY TokenStep
<1> QED
  BY <1>1, <1>2, <1>3, SignInInvariant, PTL DEF CredentialsSpec, NoTokenRevives
-----------------------------------------------------------------------------
=============================================================================

-------------------------- MODULE BusinessLockProofs ---------------------------
(***************************************************************************)
(* What the row lock of a business protects, for any number of sessions    *)
(* and requests: its first account is the only primary owner, and the      *)
(* fixed expenses of a month are generated once.                           *)
(***************************************************************************)
EXTENDS Accounts, Expenses, FiniteSetTheorems, TLAPS

\* What a request about the accounts carries.
AccountTask ==
  [kind : {"create", "update", "delete", "email", "confirm"}, user : User \cup {None},
   seen : UserRow \cup {None}, row : UserRow \cup {None}, code : Nat]

AccountStep == {"idle", "business", "check", "insert", "update", "delete"}

AccountsTyped ==
  /\ AccountsTypeOK
  /\ users \in [User -> UserRow \cup {None}] /\ asked \in Nat
  /\ job \in [Session -> AccountTask \cup {None}]
  /\ \A s \in Session : pc[s] # "idle" => job[s] \in AccountTask

IsPrimary(u) == users[u] # None /\ users[u].primary

\* Primary owners are never deleted, nor made.
OnePrimary == Existing = {} \/ \E p \in User : \A u \in User : IsPrimary(u) <=> u = p

\* A first account is created by the holder of the lock, while there is none; the others are
\* created in a business that has accounts, which it keeps.
Creating(s) ==
  /\ pc[s] \in {"business", "insert"} => job[s].kind = "create"
  /\ pc[s] = "business" => job[s].row \in UserRow /\ job[s].row.primary
  /\ pc[s] \in {"check", "insert"} /\ job[s].kind = "create" =>
       /\ job[s].row \in UserRow
       /\ IF job[s].row.primary THEN lock["business"] = s /\ Existing = {} ELSE Existing # {}

\* Nothing else makes an owner primary, and the primary owner is not deleted.
Changing(s) ==
  /\ pc[s] = "update" => job[s].kind # "create"
  /\ pc[s] \in {"check", "update"} /\ job[s].kind # "create" =>
       /\ job[s].kind \in {"update", "email", "confirm"}
       /\ job[s].user \in User /\ job[s].seen \in UserRow /\ job[s].row \in UserRow
       /\ job[s].row.primary = job[s].seen.primary
       /\ job[s].kind = "email" => job[s].row.pending \in Email
  /\ pc[s] = "delete" => job[s].user \in past /\ job[s].user \in User /\ ~IsPrimary(job[s].user)

AccountsInv ==
  /\ AccountsTyped /\ OnePrimary
  /\ \A s \in Session : Creating(s) /\ Changing(s)
-----------------------------------------------------------------------------

\* The code of a pending e-mail was sent to it.
PendingSent ==
  \A u \in User :
    users[u] # None /\ users[u].pending # None => <<users[u].code, users[u].pending>> \in mailed

\* Codes are those of requests that were served.
CodesNumbered == \A u \in User : users[u] # None => users[u].code <= asked

\* What a request leaves of a pending e-mail: an update all of it, a confirmation nothing.  A
\* request for a new e-mail writes its code, and the e-mail when it differs from the one it read,
\* which is the one of the account unless a confirmation took it since.
Intact(s) ==
  pc[s] \in {"check", "update"} /\ job[s].kind # "create" =>
    LET row == job[s].row  seen == job[s].seen  stored == users[job[s].user] IN
    /\ job[s].kind = "update" => row.pending = seen.pending /\ row.code = seen.code
    /\ job[s].kind = "confirm" =>
         /\ row.pending = None /\ seen.pending # None
         /\ row.code <= asked
         /\ <<job[s].code, row.email>> \in mailed
    /\ job[s].kind = "email" =>
         /\ row.code # seen.code /\ row.code <= asked
         /\ stored # None => stored.pending \in {None, seen.pending}

\* A new account has no pending e-mail.
FreshUser(s) ==
  (pc[s] = "business" \/ (pc[s] \in {"check", "insert"} /\ job[s].kind = "create")) =>
    job[s].row.pending = None /\ job[s].row.code = 0

MailInv == EmailProven /\ PendingSent /\ CodesNumbered /\ \A s \in Session : Intact(s) /\ FreshUser(s)
-----------------------------------------------------------------------------

\* The steps of a request about accounts, and those that write no account.
AccountRequest(s) ==
  \/ LockBusiness(s) \/ RefuseBootstrap(s) \/ CheckEmail(s) \/ RefuseEmail(s)
  \/ InsertUser(s) \/ UpdateUser(s) \/ RefuseDuplicate(s) \/ DeleteUser(s) \/ AbortManagement(s)

BeginRequest(s) == \E e \in Email :
  \/ BeginBootstrap(s, e) \/ BeginCreateOwner(s, e)
  \/ \E b \in Barber : BeginCreateBarber(s, b, e)
  \/ \E u \in User : BeginUpdate(s, u, e) \/ BeginDeleteUser(s, u) \/ BeginEmail(s, u, e)
  \/ \E u \in User : \E m \in mailed : BeginConfirm(s, u, m[1])

\* The row that a flush leaves is a row, and takes a column that was not assigned from the table.
LEMMA FlushedRow ==
  ASSUME NEW stored \in UserRow, NEW seen \in UserRow, NEW row \in UserRow
  PROVE  /\ Flushed(stored, seen, row) \in UserRow
         /\ row.primary = seen.primary => Flushed(stored, seen, row).primary = stored.primary
         /\ Flushed(stored, seen, row).pending = IF row.pending # seen.pending THEN row.pending
                                                                              ELSE stored.pending
         /\ Flushed(stored, seen, row).code = IF row.code # seen.code THEN row.code ELSE stored.code
<1> DEFINE new == Flushed(stored, seen, row)
<1>1. DOMAIN row = {"primary", "barber", "email", "pending", "code", "expires"}
  BY DEF UserRow
<1>2. new = [f \in {"primary", "barber", "email", "pending", "code", "expires"} |->
               IF row[f] # seen[f] THEN row[f] ELSE stored[f]]
  BY <1>1 DEF Flushed
<1>3. new \in UserRow
  <2>1. new = [primary |-> new.primary, barber |-> new.barber, email |-> new.email,
               pending |-> new.pending, code |-> new.code, expires |-> new.expires]
    BY <1>2
  <2>2. /\ new.primary \in BOOLEAN /\ new.barber \in Barber \cup {None} /\ new.email \in Email
        /\ new.pending \in Email \cup {None} /\ new.code \in Nat /\ new.expires \in Nat
    BY <1>2 DEF UserRow
  <2> QED
    BY <2>1, <2>2 DEF UserRow
<1>4. ASSUME row.primary = seen.primary
      PROVE  new.primary = stored.primary
  BY <1>2, <1>4
<1>5. /\ new.pending = IF row.pending # seen.pending THEN row.pending ELSE stored.pending
      /\ new.code = IF row.code # seen.code THEN row.code ELSE stored.code
  BY <1>2
<1> QED
  BY <1>3, <1>4, <1>5

\* A request moves only itself; it keeps what it serves or ends.
LEMMA AccountMoves ==
  ASSUME AccountsTyped, NEW s \in Session, AccountRequest(s)
  PROVE  /\ pc[s] # "idle" /\ asked' = asked /\ clock' = clock
         /\ \E step \in AccountStep : pc' = [pc EXCEPT ![s] = step]
         /\ \/ job' = job
            \/ job' = [job EXCEPT ![s] = None] /\ pc' = [pc EXCEPT ![s] = "idle"]
<1>1. pc \in [Session -> AccountStep]
  BY DEF AccountsTyped, AccountsTypeOK, AccountStep
<1>2. CASE LockBusiness(s)
  BY <1>1, <1>2 DEF LockBusiness, Goto, AccountStep
<1>3. CASE CheckEmail(s)
  BY <1>1, <1>3 DEF CheckEmail, AccountStep
<1>4. ASSUME Answer(s), pc[s] # "idle", asked' = asked, clock' = clock
      PROVE  /\ pc[s] # "idle" /\ asked' = asked /\ clock' = clock
             /\ \E step \in AccountStep : pc' = [pc EXCEPT ![s] = step]
             /\ \/ job' = job
                \/ job' = [job EXCEPT ![s] = None] /\ pc' = [pc EXCEPT ![s] = "idle"]
  BY <1>4 DEF Answer, AccountStep
<1>5. CASE InsertUser(s) \/ UpdateUser(s) \/ DeleteUser(s)
  BY <1>4, <1>5 DEF InsertUser, UpdateUser, DeleteUser
<1>6. CASE RefuseBootstrap(s) \/ RefuseEmail(s) \/ RefuseDuplicate(s) \/ AbortManagement(s)
  BY <1>4, <1>6 DEF RefuseBootstrap, RefuseEmail, RefuseDuplicate, AbortManagement, Refused
<1> QED
  BY <1>2, <1>3, <1>5, <1>6 DEF AccountRequest

\* Nobody else gains or loses the lock of the business.
LEMMA AccountLock ==
  ASSUME AccountsTyped, NEW s \in Session, AccountRequest(s)
  PROVE  /\ lock' \in [{"business"} -> Session \cup {None}]
         /\ \A t \in Session \ {s} : lock["business"] = t => lock'["business"] = t
<1>1. lock \in [{"business"} -> Session \cup {None}] /\ None \notin Session
  BY SessionAssumption DEF AccountsTyped, AccountsTypeOK
<1>2. CASE LockBusiness(s)
  BY <1>1, <1>2 DEF LockBusiness, Available, Hold
<1>3. CASE CheckEmail(s)
  BY <1>1, <1>3 DEF CheckEmail
<1>4. ASSUME Release(s)
      PROVE  /\ lock' \in [{"business"} -> Session \cup {None}]
             /\ \A t \in Session \ {s} : lock["business"] = t => lock'["business"] = t
  BY <1>1, <1>4 DEF Release
<1>5. CASE InsertUser(s) \/ UpdateUser(s) \/ DeleteUser(s)
  BY <1>4, <1>5 DEF InsertUser, UpdateUser, DeleteUser
<1>6. CASE RefuseBootstrap(s) \/ RefuseEmail(s) \/ RefuseDuplicate(s) \/ AbortManagement(s)
  BY <1>4, <1>6 DEF RefuseBootstrap, RefuseEmail, RefuseDuplicate, AbortManagement, Refused
<1> QED
  BY <1>2, <1>3, <1>5, <1>6 DEF AccountRequest

\* What other requests may rely on while this one writes.
AccountsKept(s) ==
  /\ users' \in [User -> UserRow \cup {None}]
  /\ \A u \in User : users'[u] # None => u \in past'
  /\ past \subseteq past'
  /\ \A u \in User : u \in past /\ IsPrimary(u)' => IsPrimary(u)
  /\ Existing # {} => Existing' # {}
  /\ \A t \in Session \ {s} : lock["business"] = t /\ Existing = {} => Existing' = {}
  /\ OnePrimary'

\* An insertion takes an unused identifier; if it makes a primary owner there was no account.
LEMMA InsertUserKeeps ==
  ASSUME AccountsInv, NEW s \in Session, InsertUser(s)
  PROVE  AccountsKept(s) /\ UNCHANGED <<mailed, adopted>>
<1> DEFINE row == job[s].row
<1>1. /\ users \in [User -> UserRow \cup {None}] /\ None \notin UserRow /\ None \notin Session
      /\ \A u \in User : users[u] # None => u \in past
      /\ lock["business"] \in {None, s}
  BY UserAssumption, SessionAssumption
     DEF AccountsInv, AccountsTyped, AccountsTypeOK, InsertUser, Available
<1>2. row \in UserRow /\ (IF row.primary THEN Existing = {} ELSE Existing # {}) /\ OnePrimary
  BY DEF AccountsInv, Creating, InsertUser
<1>3. PICK u \in User : u \notin past /\ users' = [users EXCEPT ![u] = row] /\ past' = past \cup {u}
  BY DEF InsertUser, First
<1>4. UNCHANGED <<mailed, adopted>>
  BY DEF InsertUser
<1> HIDE DEF row
<1>5. users'[u] = row /\ \A v \in User \ {u} : users'[v] = users[v]
  BY <1>1, <1>3
<1>6. users' \in [User -> UserRow \cup {None}]
  BY <1>1, <1>2, <1>3
<1>7. \A v \in User : users'[v] # None => v \in past'
  BY <1>1, <1>3, <1>5
<1>8. \A v \in User : v \in past /\ IsPrimary(v)' => IsPrimary(v)
  BY <1>3, <1>5 DEF IsPrimary
<1>9. Existing' # {}
  BY <1>1, <1>2, <1>5 DEF Existing
<1>10. \A t \in Session \ {s} : lock["business"] # t
  BY <1>1
<1>11. OnePrimary'
  <2>1. CASE row.primary
    <3>1. \A v \in User : users[v] = None
      BY <1>2, <2>1 DEF Existing
    <3>2. \A v \in User : IsPrimary(v)' <=> v = u
      BY <1>1, <1>2, <1>5, <2>1, <3>1 DEF IsPrimary
    <3> QED
      BY <3>2 DEF OnePrimary
  <2>2. CASE ~row.primary
    <3>1. PICK p \in User : \A v \in User : IsPrimary(v) <=> v = p
      BY <1>2, <2>2 DEF OnePrimary
    <3>2. p # u
      BY <1>1, <1>3, <3>1 DEF IsPrimary
    <3>3. \A v \in User : IsPrimary(v)' <=> v = p
      BY <1>5, <2>2, <3>1, <3>2 DEF IsPrimary
    <3> QED
      BY <3>3 DEF OnePrimary
  <2> QED
    BY <2>1, <2>2
<1> QED
  BY <1>3, <1>4, <1>6, <1>7, <1>8, <1>9, <1>10, <1>11 DEF AccountsKept

\* An update leaves every account as primary as it was.
LEMMA UpdateKeeps ==
  ASSUME AccountsInv, NEW s \in Session, UpdateUser(s)
  PROVE  AccountsKept(s)
<1> DEFINE u == job[s].user  row == Written(s)
<1>1. /\ users \in [User -> UserRow \cup {None}] /\ None \notin UserRow /\ None \notin Session
      /\ \A v \in User : users[v] # None => v \in past
  BY UserAssumption, SessionAssumption
     DEF AccountsInv, AccountsTyped, AccountsTypeOK
<1>2. /\ u \in User /\ users[u] \in UserRow /\ users' = [users EXCEPT ![u] = row] /\ past' = past
  BY <1>1 DEF UpdateUser, Existing
<1>3. /\ job[s].seen \in UserRow /\ job[s].row \in UserRow
      /\ job[s].row.primary = job[s].seen.primary /\ OnePrimary
  BY DEF AccountsInv, Changing, UpdateUser
<1>4. row \in UserRow /\ row.primary = users[u].primary
  BY <1>2, <1>3, FlushedRow DEF Written
<1> HIDE DEF u, row
<1>5. users'[u] = row /\ \A v \in User \ {u} : users'[v] = users[v]
  BY <1>1, <1>2
<1>6. users' \in [User -> UserRow \cup {None}]
  BY <1>1, <1>2, <1>4
<1>7. \A v \in User : (users'[v] # None) <=> (users[v] # None)
  BY <1>1, <1>2, <1>4, <1>5
<1>8. \A v \in User : IsPrimary(v)' <=> IsPrimary(v)
  BY <1>1, <1>2, <1>4, <1>5, <1>7 DEF IsPrimary
<1>9. Existing' = Existing
  BY <1>7 DEF Existing
<1> QED
  BY <1>1, <1>2, <1>3, <1>6, <1>7, <1>8, <1>9 DEF AccountsKept, OnePrimary

\* A deletion leaves the primary owner.
LEMMA DeleteKeeps ==
  ASSUME AccountsInv, NEW s \in Session, DeleteUser(s)
  PROVE  AccountsKept(s)
<1> DEFINE u == job[s].user
<1>1. /\ users \in [User -> UserRow \cup {None}]
      /\ \A v \in User : users[v] # None => v \in past
  BY DEF AccountsInv, AccountsTyped, AccountsTypeOK
<1>2. u \in User /\ ~IsPrimary(u) /\ OnePrimary
  BY DEF AccountsInv, Changing, DeleteUser
<1>3. users' = [users EXCEPT ![u] = None] /\ past' = past
  BY DEF DeleteUser, accountHistory
<1> HIDE DEF u
<1>4. users'[u] = None /\ \A v \in User \ {u} : users'[v] = users[v]
  BY <1>1, <1>2, <1>3
<1>5. users' \in [User -> UserRow \cup {None}]
  BY <1>1, <1>3
<1>6. \A v \in User : IsPrimary(v)' <=> IsPrimary(v)
  BY <1>2, <1>4 DEF IsPrimary
<1>7. \A v \in User : users'[v] # None => users[v] # None
  BY <1>4
<1>8. CASE Existing = {}
  <2>1. Existing' = {}
    BY <1>7, <1>8 DEF Existing
  <2> QED
    BY <1>1, <1>3, <1>5, <1>6, <1>7, <1>8, <2>1 DEF AccountsKept, OnePrimary
<1>9. CASE Existing # {}
  <2>1. PICK p \in User : \A v \in User : IsPrimary(v) <=> v = p
    BY <1>2, <1>9 DEF OnePrimary
  <2>2. \A v \in User : IsPrimary(v)' <=> v = p
    BY <1>6, <2>1
  <2>3. Existing' # {}
    BY <2>2 DEF IsPrimary, Existing
  <2> QED
    BY <1>1, <1>3, <1>5, <1>6, <1>7, <1>9, <2>2, <2>3 DEF AccountsKept, OnePrimary
<1> QED
  BY <1>8, <1>9

\* The other steps write no account.
LEMMA UnchangedKeeps ==
  ASSUME AccountsInv, NEW s, UNCHANGED <<users, past>>
  PROVE  AccountsKept(s)
<1>1. Existing' = Existing /\ \A u : IsPrimary(u)' <=> IsPrimary(u)
  BY DEF Existing, IsPrimary
<1> QED
  BY <1>1 DEF AccountsKept, AccountsInv, AccountsTyped, AccountsTypeOK, OnePrimary

\* A request about accounts keeps what the table holds, and codes and e-mails of the histories.
LEMMA AccountWrites ==
  ASSUME AccountsInv, NEW s \in Session, AccountRequest(s)
  PROVE  AccountsKept(s)
<1>1. CASE InsertUser(s)
  BY <1>1, InsertUserKeeps
<1>2. CASE UpdateUser(s)
  BY <1>2, UpdateKeeps
<1>3. CASE DeleteUser(s)
  BY <1>3, DeleteKeeps
<1>4. CASE LockBusiness(s) \/ CheckEmail(s)
  BY <1>4, UnchangedKeeps DEF LockBusiness, CheckEmail, accountHistory
<1>5. CASE RefuseBootstrap(s) \/ RefuseEmail(s) \/ RefuseDuplicate(s) \/ AbortManagement(s)
  BY <1>5, UnchangedKeeps
     DEF RefuseBootstrap, RefuseEmail, RefuseDuplicate, AbortManagement, Refused, accountHistory
<1> QED
  BY <1>1, <1>2, <1>3, <1>4, <1>5 DEF AccountRequest

\* A code that is mailed or adopted is a number, its e-mail an e-mail.
LEMMA AccountHistories ==
  ASSUME AccountsInv, NEW s \in Session, AccountRequest(s)
  PROVE  (\A m \in mailed' : m \in Nat \X Email) /\ (\A m \in adopted' : m \in Nat \X Email)
<1>1. (\A m \in mailed : m \in Nat \X Email) /\ (\A m \in adopted : m \in Nat \X Email)
  BY DEF AccountsInv, AccountsTyped, AccountsTypeOK
<1>2. CASE mailed' = mailed /\ adopted' = adopted
  BY <1>1, <1>2
<1>3. CASE UpdateUser(s)
  <2>1. job[s].row \in UserRow /\ job[s].code \in Nat
    BY <1>3 DEF AccountsInv, AccountsTyped, Changing, UpdateUser, AccountTask
  <2>2. job[s].kind = "email" => job[s].row.pending \in Email
    BY <1>3 DEF AccountsInv, Changing, UpdateUser
  <2> QED
    BY <1>1, <1>3, <2>1, <2>2 DEF UpdateUser, UserRow
<1>4. CASE InsertUser(s) \/ DeleteUser(s) \/ LockBusiness(s) \/ CheckEmail(s)
  BY <1>2, <1>4 DEF InsertUser, DeleteUser, LockBusiness, CheckEmail, accountHistory
<1>5. CASE RefuseBootstrap(s) \/ RefuseEmail(s) \/ RefuseDuplicate(s) \/ AbortManagement(s)
  BY <1>2, <1>5 DEF RefuseBootstrap, RefuseEmail, RefuseDuplicate, AbortManagement, Refused, accountHistory
<1> QED
  BY <1>3, <1>4, <1>5 DEF AccountRequest

\* What a request knows of the accounts stays true while others write.
LEMMA AccountOthers ==
  ASSUME AccountsInv, NEW s \in Session, AccountsKept(s), NEW t \in Session \ {s},
         pc'[t] = pc[t], job'[t] = job[t], lock["business"] = t => lock'["business"] = t
  PROVE  Creating(t)' /\ Changing(t)'
<1>1. Creating(t) /\ Changing(t)
  BY DEF AccountsInv
<1>2. Creating(t)'
  BY <1>1 DEF AccountsKept, Creating
<1>3. Changing(t)'
  <2>1. ASSUME pc[t] = "delete"
        PROVE  /\ job'[t].user \in past' /\ job'[t].user \in User
               /\ ~IsPrimary(job[t].user)'
    BY <1>1, <2>1 DEF AccountsKept, Changing
  <2> QED
    BY <1>1, <2>1 DEF AccountsKept, Changing, IsPrimary
<1> QED
  BY <1>2, <1>3

\* A request keeps what it knows from one of its steps to the next.
LEMMA AccountOwn ==
  ASSUME AccountsInv, NEW s \in Session, AccountRequest(s)
  PROVE  Creating(s)' /\ Changing(s)'
<1>1. /\ pc \in [Session -> AccountStep] /\ lock \in [{"business"} -> Session \cup {None}]
      /\ Creating(s) /\ Changing(s)
  BY DEF AccountsInv, AccountsTyped, AccountsTypeOK, AccountStep
<1>2. CASE Answer(s)
  <2>1. pc'[s] = "idle"
    BY <1>1, <1>2 DEF Answer
  <2> QED
    BY <2>1 DEF Creating, Changing
<1>3. CASE LockBusiness(s)
  <2>1. /\ pc'[s] = "check" /\ job' = job /\ lock'["business"] = s /\ Existing = {} /\ users' = users
        /\ pc[s] = "business"
    BY <1>1, <1>3 DEF LockBusiness, Goto, Hold
  <2>2. Existing' = {}
    BY <2>1 DEF Existing
  <2> QED
    BY <1>1, <2>1, <2>2 DEF Creating, Changing
<1>4. CASE CheckEmail(s)
  <2>1. /\ pc'[s] = (IF job[s].kind = "create" THEN "insert" ELSE "update") /\ job' = job /\ lock' = lock
        /\ users' = users /\ pc[s] = "check"
    BY <1>1, <1>4 DEF CheckEmail
  <2>2. Existing' = Existing
    BY <2>1 DEF Existing
  <2> QED
    BY <1>1, <2>1, <2>2 DEF Creating, Changing
<1>5. CASE InsertUser(s) \/ UpdateUser(s) \/ DeleteUser(s)
  BY <1>2, <1>5 DEF InsertUser, UpdateUser, DeleteUser
<1>6. CASE RefuseBootstrap(s) \/ RefuseEmail(s) \/ RefuseDuplicate(s) \/ AbortManagement(s)
  BY <1>2, <1>6 DEF RefuseBootstrap, RefuseEmail, RefuseDuplicate, AbortManagement, Refused
<1> QED
  BY <1>3, <1>4, <1>5, <1>6 DEF AccountRequest

\* A step of a request keeps the invariant.
LEMMA AccountRequestKeeps ==
  ASSUME AccountsInv, NEW s \in Session, AccountRequest(s)
  PROVE  AccountsInv'
<1>1. /\ pc \in [Session -> AccountStep] /\ job \in [Session -> AccountTask \cup {None}] /\ asked \in Nat
      /\ \A t \in Session : pc[t] # "idle" => job[t] \in AccountTask
      /\ clock \in Instant
  BY DEF AccountsInv, AccountsTyped, AccountsTypeOK, AccountStep
<1>2. PICK step \in AccountStep : pc' = [pc EXCEPT ![s] = step]
  BY AccountMoves DEF AccountsInv
<1>3. job' = job \/ (job' = [job EXCEPT ![s] = None] /\ pc' = [pc EXCEPT ![s] = "idle"])
  BY AccountMoves DEF AccountsInv
<1>4. /\ pc' \in [Session -> AccountStep] /\ job' \in [Session -> AccountTask \cup {None}]
      /\ \A t \in Session : pc'[t] # "idle" => job'[t] \in AccountTask
  BY <1>1, <1>2, <1>3, AccountMoves DEF AccountsInv
<1>5. \A t \in Session \ {s} : pc'[t] = pc[t] /\ job'[t] = job[t]
  BY <1>1, <1>2, <1>3
<1>6. AccountsKept(s)
  BY AccountWrites
<1>7. AccountsTyped'
  <2>1. asked' = asked /\ clock' = clock
    BY AccountMoves DEF AccountsInv
  <2>2. lock' \in [{"business"} -> Session \cup {None}]
    BY AccountLock DEF AccountsInv
  <2>3. \A u \in User : users'[u] # None => users'[u] \in UserRow /\ u \in past'
    BY <1>6 DEF AccountsKept
  <2>4. AccountsTypeOK'
    BY <1>1, <1>4, <2>1, <2>2, <2>3, AccountHistories DEF AccountsTypeOK, AccountStep
  <2> QED
    BY <1>1, <1>4, <1>6, <2>1, <2>4 DEF AccountsTyped, AccountsKept
<1>8. ASSUME NEW t \in Session
      PROVE  Creating(t)' /\ Changing(t)'
  <2>1. CASE t = s
    BY <2>1, AccountOwn
  <2>2. CASE t # s
    BY <1>5, <1>6, <2>2, AccountOthers, AccountLock DEF AccountsInv
  <2> QED
    BY <2>1, <2>2
<1> QED
  BY <1>6, <1>7, <1>8 DEF AccountsInv, AccountsKept

\* What a request carries when it begins.
Begun(step, task) ==
  \/ step = "business" /\ task.kind = "create" /\ task.row \in UserRow /\ task.row.primary
     /\ task.row.pending = None /\ task.row.code = 0
  \/ step = "check" /\ task.kind = "create" /\ task.row \in UserRow /\ ~task.row.primary
     /\ task.row.pending = None /\ task.row.code = 0 /\ Existing # {}
  \/ /\ step = "check" /\ task.kind \in {"update", "email", "confirm"}
     /\ task.user \in Existing /\ task.seen = users[task.user] /\ task.row \in UserRow
     /\ task.row.primary = task.seen.primary
     /\ task.kind = "email" => task.row.pending \in Email /\ task.row.code = asked + 1
     /\ task.kind = "update" => task.row.pending = task.seen.pending /\ task.row.code = task.seen.code
     /\ task.kind = "confirm" =>
          /\ task.row.pending = None /\ task.row.code = 0 /\ task.row.email = task.seen.pending
          /\ task.code = task.seen.code /\ task.seen.pending # None
  \/ step = "delete" /\ task.kind = "delete" /\ task.user \in Existing /\ ~IsPrimary(task.user)

AccountBegun(s) == \E step \in AccountStep \ {"idle"}, task \in AccountTask :
  /\ pc[s] = "idle" /\ pc' = [pc EXCEPT ![s] = step] /\ job' = [job EXCEPT ![s] = task]
  /\ asked' = asked + 1 /\ UNCHANGED <<lock, clock, users, accountHistory>>
  /\ Begun(step, task)

\* The row of an account to create.
LEMMA NewUserRow ==
  ASSUME NEW e \in Email, NEW b \in Barber \cup {None}, NEW primary \in BOOLEAN
  PROVE  /\ Row(e, b, primary) \in UserRow
         /\ Row(e, b, primary).primary = primary /\ Row(e, b, primary).pending = None
         /\ Row(e, b, primary).code = 0
BY DEF Row, UserRow

\* A request that begins tests what it reads, and waits for nobody.
LEMMA AccountBegins ==
  ASSUME AccountsInv, NEW s \in Session, BeginRequest(s)
  PROVE  AccountBegun(s)
<1>1. /\ users \in [User -> UserRow \cup {None}] /\ None \notin User \cup Email \cup UserRow
      /\ asked \in Nat /\ clock \in Nat /\ EmailLife \in Nat
      /\ \A m \in mailed : m \in Nat \X Email
  BY UserAssumption, HorizonAssumption DEF AccountsInv, AccountsTyped, AccountsTypeOK, Instant
<1>2. ASSUME NEW step \in AccountStep \ {"idle"}, NEW kind, NEW u \in User \cup {None}, NEW row, NEW code,
             Present(s, step, kind, u, row, code),
             kind \in {"create", "update", "delete", "email", "confirm"},
             u # None => users[u] \in UserRow, row \in UserRow \cup {None}, code \in Nat,
             Begun(step, [kind |-> kind, user |-> u, seen |-> IF u = None THEN None ELSE users[u],
                          row |-> row, code |-> code])
      PROVE  AccountBegun(s)
  <2> DEFINE task == [kind |-> kind, user |-> u, seen |-> IF u = None THEN None ELSE users[u],
                      row |-> row, code |-> code]
  <2>1. task \in AccountTask
    BY <1>2 DEF AccountTask
  <2>2. /\ pc[s] = "idle" /\ pc' = [pc EXCEPT ![s] = step] /\ job' = [job EXCEPT ![s] = task]
        /\ asked' = asked + 1 /\ UNCHANGED <<lock, clock, users, accountHistory>>
    BY <1>2 DEF Present, Begin
  <2>3. Begun(step, task)
    BY <1>2
  <2> HIDE DEF task
  <2> QED
    BY <2>1, <2>2, <2>3 DEF AccountBegun
<1>3. PICK e \in Email :
        \/ BeginBootstrap(s, e) \/ BeginCreateOwner(s, e)
        \/ \E b \in Barber : BeginCreateBarber(s, b, e)
        \/ \E u \in User : BeginUpdate(s, u, e) \/ BeginDeleteUser(s, u) \/ BeginEmail(s, u, e)
        \/ \E u \in User : \E m \in mailed : BeginConfirm(s, u, m[1])
  BY DEF BeginRequest
<1>4. CASE BeginBootstrap(s, e)
  <2>1. Present(s, "business", "create", None, Row(e, None, TRUE), 0) /\ "business" \in AccountStep \ {"idle"}
    BY <1>4 DEF BeginBootstrap, Manage, AccountStep
  <2> QED
    BY <1>2, <2>1, NewUserRow DEF Begun
<1>5. ASSUME NEW b \in Barber \cup {None}, Authorized(None), Manage(s, "check", "create", None, Row(e, b, FALSE))
      PROVE  AccountBegun(s)
  <2>1. Present(s, "check", "create", None, Row(e, b, FALSE), 0) /\ "check" \in AccountStep \ {"idle"}
        /\ Existing # {}
    BY <1>5 DEF Manage, AccountStep, Authorized, Owners
  <2> QED
    BY <1>2, <2>1, NewUserRow DEF Begun
<1>6. CASE BeginCreateOwner(s, e) \/ \E b \in Barber : BeginCreateBarber(s, b, e)
  BY <1>5, <1>6 DEF BeginCreateOwner, BeginCreateBarber
<1>7. ASSUME NEW u \in User, u \in Existing
      PROVE  u # None /\ users[u] \in UserRow
  BY <1>1, <1>7 DEF Existing
<1>8. ASSUME NEW u \in User, BeginUpdate(s, u, e)
      PROVE  AccountBegun(s)
  <2> DEFINE row == [users[u] EXCEPT !.email = e]
  <2>1. Present(s, "check", "update", u, row, 0) /\ "check" \in AccountStep \ {"idle"} /\ u \in Existing
    BY <1>8 DEF BeginUpdate, Manage, AccountStep
  <2>2. row \in UserRow /\ row.primary = users[u].primary /\ row.pending = users[u].pending
        /\ row.code = users[u].code
    BY <1>7, <2>1 DEF UserRow
  <2> HIDE DEF row
  <2> QED
    BY <1>2, <1>7, <2>1, <2>2 DEF Begun
<1>9. ASSUME NEW u \in User, BeginDeleteUser(s, u)
      PROVE  AccountBegun(s)
  <2>1. Present(s, "delete", "delete", u, None, 0) /\ "delete" \in AccountStep \ {"idle"} /\ u \in Existing
        /\ ~IsPrimary(u)
    BY <1>9 DEF BeginDeleteUser, Manage, AccountStep, IsPrimary
  <2> QED
    BY <1>2, <1>7, <2>1 DEF Begun
<1>10. ASSUME NEW u \in User, BeginEmail(s, u, e)
       PROVE  AccountBegun(s)
  <2> DEFINE row == [users[u] EXCEPT !.pending = e, !.code = asked + 1, !.expires = clock + EmailLife]
  <2>1. Present(s, "check", "email", u, row, 0) /\ "check" \in AccountStep \ {"idle"} /\ u \in Existing
    BY <1>10 DEF BeginEmail, Manage, AccountStep, Owners
  <2>2. asked + 1 \in Nat /\ clock + EmailLife \in Nat
    BY <1>1
  <2>3. row \in UserRow /\ row.primary = users[u].primary /\ row.pending \in Email
        /\ row.code = asked + 1
    BY <1>7, <2>1, <2>2 DEF UserRow
  <2> HIDE DEF row
  <2> QED
    BY <1>2, <1>7, <2>1, <2>3 DEF Begun
<1>11. ASSUME NEW u \in User, NEW m \in mailed, BeginConfirm(s, u, m[1])
       PROVE  AccountBegun(s)
  <2> DEFINE row == [users[u] EXCEPT !.email = users[u].pending, !.pending = None, !.code = 0, !.expires = 0]
  <2>1. /\ Present(s, "check", "confirm", u, row, m[1]) /\ "check" \in AccountStep \ {"idle"}
        /\ u \in Existing /\ users[u].pending # None /\ users[u].code = m[1] /\ m[1] \in Nat
    BY <1>1, <1>11 DEF BeginConfirm, Confirm, AccountStep, Owners
  <2>2. row \in UserRow /\ row.primary = users[u].primary /\ row.pending = None
        /\ row.code = 0 /\ row.email = users[u].pending
    BY <1>7, <2>1 DEF UserRow
  <2> HIDE DEF row
  <2> QED
    BY <1>2, <1>7, <2>1, <2>2 DEF Begun
<1> QED
  BY <1>3, <1>4, <1>6, <1>8, <1>9, <1>10, <1>11

\* A request that begins keeps the invariant.
LEMMA AccountBeginKeeps ==
  ASSUME AccountsInv, NEW s \in Session, BeginRequest(s)
  PROVE  AccountsInv'
<1>1. PICK step \in AccountStep \ {"idle"}, task \in AccountTask :
        /\ pc[s] = "idle" /\ pc' = [pc EXCEPT ![s] = step] /\ job' = [job EXCEPT ![s] = task]
        /\ asked' = asked + 1 /\ UNCHANGED <<lock, clock, users, accountHistory>>
        /\ Begun(step, task)
  BY AccountBegins DEF AccountBegun
<1>2. /\ pc \in [Session -> AccountStep] /\ job \in [Session -> AccountTask \cup {None}] /\ asked \in Nat
      /\ \A t \in Session : pc[t] # "idle" => job[t] \in AccountTask
      /\ \A u \in User : users[u] # None => u \in past
  BY DEF AccountsInv, AccountsTyped, AccountsTypeOK, AccountStep
<1>3. /\ pc'[s] = step /\ job'[s] = task
      /\ \A t \in Session \ {s} : pc'[t] = pc[t] /\ job'[t] = job[t]
  BY <1>1, <1>2
<1>4. /\ pc' \in [Session -> AccountStep] /\ job' \in [Session -> AccountTask \cup {None}]
      /\ \A t \in Session : pc'[t] # "idle" => job'[t] \in AccountTask
      /\ asked' \in Nat
  BY <1>1, <1>2, <1>3
<1>5. AccountsTyped'
  <2>1. AccountsTypeOK /\ UNCHANGED <<lock, clock, users, mailed, adopted, past>>
    BY <1>1 DEF AccountsInv, AccountsTyped, accountHistory
  <2>2. AccountsTypeOK'
    BY <1>4, <2>1 DEF AccountsTypeOK, AccountStep
  <2> QED
    BY <1>4, <2>1, <2>2 DEF AccountsInv, AccountsTyped
<1>6. AccountsKept(s) /\ Existing' = Existing
  BY <1>1, UnchangedKeeps DEF accountHistory, Existing
<1>7. Creating(s)' /\ Changing(s)'
  <2>1. ASSUME NEW u, u = task.user, u \in Existing
        PROVE  users[u] \in UserRow /\ u \in User /\ u \in past
    BY <1>2, <2>1 DEF AccountsInv, AccountsTyped, Existing
  <2>2. IsPrimary(task.user)' <=> IsPrimary(task.user)
    BY <1>1 DEF IsPrimary
  <2>3. UNCHANGED <<lock, users, past>>
    BY <1>1 DEF accountHistory
  <2>4. Creating(s)'
    BY <1>1, <1>3, <1>6 DEF Begun, Creating
  <2>5. ~IsPrimary(task.user) => ~IsPrimary(job[s].user)'
    BY <1>3, <2>3 DEF IsPrimary
  <2>6. Changing(s)'
    BY <1>1, <1>3, <2>1, <2>3, <2>5 DEF Begun, Changing
  <2> QED
    BY <2>4, <2>6
<1>8. ASSUME NEW t \in Session
      PROVE  Creating(t)' /\ Changing(t)'
  <2>1. CASE t = s
    BY <1>7, <2>1
  <2>2. CASE t # s
    BY <1>1, <1>3, <1>6, <2>2, AccountOthers
  <2> QED
    BY <2>1, <2>2
<1> QED
  BY <1>5, <1>6, <1>8 DEF AccountsInv, AccountsKept

\* Every step keeps the invariant.
LEMMA AccountStepKeeps ==
  ASSUME AccountsInv, [AccountsNext]_accountVars
  PROVE  AccountsInv'
<1>1. CASE \E s \in Session : BeginAccount(s)
  BY <1>1, AccountBeginKeeps DEF BeginAccount, BeginRequest
<1>2. CASE \E s \in Session : AccountRequest(s)
  BY <1>2, AccountRequestKeeps
<1>3. ASSUME UNCHANGED <<pc, job, lock, asked, users, accountHistory>>, clock' \in Instant
      PROVE  AccountsInv'
  <2>1. UNCHANGED <<users, past, mailed, adopted>>
    BY <1>3 DEF accountHistory
  <2>2. AccountsTyped' /\ OnePrimary'
    BY <1>3, <2>1, UnchangedKeeps DEF AccountsInv, AccountsTyped, AccountsTypeOK, AccountsKept
  <2>3. Existing' = Existing /\ \A u : IsPrimary(u)' <=> IsPrimary(u)
    BY <2>1 DEF Existing, IsPrimary
  <2>4. ASSUME NEW s \in Session
        PROVE  Creating(s)' /\ Changing(s)'
    <3>1. IsPrimary(job[s].user)' <=> IsPrimary(job[s].user)
      BY <1>3, <2>1 DEF IsPrimary
    <3> QED
      BY <1>3, <2>1, <2>3, <3>1 DEF AccountsInv, Creating, Changing
  <2> QED
    BY <2>2, <2>4 DEF AccountsInv
<1>4. CASE AccountsTick
  BY <1>3, <1>4, HorizonAssumption DEF AccountsTick, AccountsInv, AccountsTyped, AccountsTypeOK, Instant
<1>5. CASE UNCHANGED accountVars
  BY <1>3, <1>5 DEF accountVars, AccountsInv, AccountsTyped, AccountsTypeOK
<1> QED
  BY <1>1, <1>2, <1>4, <1>5 DEF AccountsNext, AccountsStep, AccountRequest

\* A business starts without accounts and without requests.
LEMMA AccountInitInv == AccountsInit => AccountsInv
<1> SUFFICES ASSUME AccountsInit
             PROVE  AccountsInv
  OBVIOUS
<1>1. /\ pc = [s \in Session |-> "idle"] /\ job = [s \in Session |-> None]
      /\ lock = [x \in {"business"} |-> None] /\ clock = 0 /\ asked = 0
      /\ users = [u \in User |-> None] /\ mailed = {} /\ adopted = {} /\ past = {}
  BY DEF AccountsInit, BackendInit, NoAccounts
<1>2. AccountsTyped
  BY <1>1, HorizonAssumption DEF AccountsTyped, AccountsTypeOK, Instant
<1>3. OnePrimary
  BY <1>1 DEF OnePrimary, Existing
<1>4. \A s \in Session : Creating(s) /\ Changing(s)
  BY <1>1 DEF Creating, Changing
<1> QED
  BY <1>2, <1>3, <1>4 DEF AccountsInv

\* The inductive invariant of the accounts.
LEMMA AccountsInvariant == AccountsSpec => []AccountsInv
BY AccountInitInv, AccountStepKeeps, PTL DEF AccountsSpec

\* The accounts of a business and the requests about them have their types.
THEOREM AccountsTypes == AccountsSpec => []AccountsTypeOK
<1>1. AccountsInv => AccountsTypeOK
  BY DEF AccountsInv, AccountsTyped
<1> QED
  BY <1>1, AccountsInvariant, PTL

LEMMA OwnerHolds == AccountsInv => OnePrimaryOwner
<1>1. ASSUME AccountsInv, Existing # {}
      PROVE  Cardinality({u \in Existing : users[u].primary}) = 1
  <2>1. PICK p \in User : \A u \in User : IsPrimary(u) <=> u = p
    BY <1>1 DEF AccountsInv, OnePrimary
  <2>2. {u \in Existing : users[u].primary} = {p}
    BY <2>1 DEF IsPrimary, Existing
  <2> QED
    BY <2>2, FS_Singleton
<1> QED
  BY <1>1 DEF OnePrimaryOwner

\* However many first accounts are requested together, and whatever accounts owners create and
\* delete, a business with accounts has exactly one primary owner.
THEOREM FirstOwnerOnly == AccountsSpec => []OnePrimaryOwner
BY OwnerHolds, AccountsInvariant, PTL
-----------------------------------------------------------------------------

\* The code of the e-mail that an update leaves pending was sent to it.
LEMMA WrittenMail ==
  ASSUME AccountsInv, MailInv, NEW s \in Session, UpdateUser(s)
  PROVE  /\ mailed \subseteq mailed' /\ EmailProven'
         /\ Written(s).code <= asked
         /\ Written(s).pending # None => <<Written(s).code, Written(s).pending>> \in mailed'
         /\ job[s].kind # "email" => Written(s).pending \in {None, users[job[s].user].pending}
<1> DEFINE u == job[s].user  row == job[s].row  seen == job[s].seen  new == Written(s)
<1>1. /\ users \in [User -> UserRow \cup {None}] /\ asked \in Nat
      /\ Changing(s) /\ Intact(s) /\ EmailProven /\ PendingSent /\ CodesNumbered
  BY DEF AccountsInv, AccountsTyped, MailInv
<1>2. /\ u \in User /\ users[u] \in UserRow /\ seen \in UserRow /\ row \in UserRow
      /\ job[s].kind \in {"update", "email", "confirm"} /\ pc[s] = "update"
      /\ job[s].kind = "email" => row.pending # None
  BY <1>1, UserAssumption DEF UpdateUser, Changing, Existing
<1>3. /\ new.pending = IF row.pending # seen.pending THEN row.pending ELSE users[u].pending
      /\ new.code = IF row.code # seen.code THEN row.code ELSE users[u].code
  BY <1>2, FlushedRow DEF Written
<1>4. /\ users[u] # None /\ users[u].code <= asked
      /\ users[u].pending # None => <<users[u].code, users[u].pending>> \in mailed
  BY <1>1, <1>2, UserAssumption DEF PendingSent, CodesNumbered
<1>5. /\ mailed' = IF job[s].kind = "email" THEN mailed \cup {<<row.code, row.pending>>} ELSE mailed
      /\ adopted' = IF job[s].kind = "confirm" THEN adopted \cup {<<job[s].code, row.email>>} ELSE adopted
  BY DEF UpdateUser
<1> HIDE DEF u, row, seen, new
<1>6. CASE job[s].kind = "update"
  <2>1. row.pending = seen.pending /\ row.code = seen.code
    BY <1>1, <1>2, <1>6 DEF Intact, row, seen
  <2> QED
    BY <1>1, <1>3, <1>4, <1>5, <1>6, <2>1 DEF EmailProven, u, new
<1>7. CASE job[s].kind = "confirm"
  <2>1. row.pending = None /\ seen.pending # None /\ row.code <= asked /\ <<job[s].code, row.email>> \in mailed
    BY <1>1, <1>2, <1>7 DEF Intact, row, seen
  <2> QED
    BY <1>1, <1>3, <1>4, <1>5, <1>7, <2>1 DEF EmailProven, u, new
<1>8. CASE job[s].kind = "email"
  <2>1. row.code # seen.code /\ row.code <= asked /\ users[u].pending \in {None, seen.pending}
    BY <1>1, <1>2, <1>4, <1>8 DEF Intact, row, seen, u
  <2>2. new.code = row.code /\ new.pending \in {None, row.pending}
    BY <1>3, <2>1
  <2> QED
    BY <1>1, <1>5, <1>8, <2>1, <2>2 DEF EmailProven, new
<1> QED
  BY <1>2, <1>6, <1>7, <1>8

\* A step that leaves the e-mail that a request for a new one may find pending.
Undisturbed(t) ==
  pc[t] \in {"check", "update"} /\ job[t].kind = "email" =>
    LET u == job[t].user IN
    users'[u] # None =>
      users'[u].pending = None \/ (users[u] # None /\ users'[u].pending = users[u].pending)

\* Such a step leaves the request what it relies on.
LEMMA OthersKept ==
  ASSUME MailInv, NEW t \in Session, Undisturbed(t), asked \in Nat, asked' \in Nat, asked <= asked',
         pc'[t] = pc[t], job'[t] = job[t], mailed \subseteq mailed', job[t] \in AccountTask,
         pc[t] \in {"check", "update"} => job[t].kind = "create" \/ job[t].row \in UserRow
  PROVE  Intact(t)' /\ FreshUser(t)'
<1>1. Intact(t) /\ FreshUser(t)
  BY DEF MailInv
<1>2. FreshUser(t)'
  BY <1>1 DEF FreshUser
<1>3. CASE ~(pc[t] \in {"check", "update"} /\ job[t].kind # "create")
  BY <1>2, <1>3 DEF Intact
<1>4. CASE pc[t] \in {"check", "update"} /\ job[t].kind # "create"
  <2> DEFINE u == job[t].user  row == job[t].row  seen == job[t].seen
  <2>1. row.code \in Nat
    BY <1>4 DEF UserRow
  <2>2. row.code <= asked => row.code <= asked'
    BY <2>1
  <2>3. job[t].kind = "email" /\ users'[u] # None => users'[u].pending \in {None, seen.pending}
    BY <1>1, <1>4 DEF Intact, Undisturbed
  <2> QED
    BY <1>1, <1>2, <1>4, <2>2, <2>3 DEF Intact
<1> QED
  BY <1>3, <1>4

\* While requests for a new e-mail of one account do not overlap, requests keep what was sent and
\* confirmed.
LEMMA MailRequestKeeps ==
  ASSUME AccountsInv, MailInv, NEW s \in Session, AccountRequest(s), EmailsApart
  PROVE  MailInv'
<1>1. /\ users \in [User -> UserRow \cup {None}] /\ None \notin UserRow /\ asked \in Nat
      /\ pc \in [Session -> AccountStep] /\ job \in [Session -> AccountTask \cup {None}]
      /\ \A t \in Session : pc[t] # "idle" => job[t] \in AccountTask
      /\ Creating(s) /\ Changing(s) /\ Intact(s) /\ FreshUser(s)
      /\ EmailProven /\ PendingSent /\ CodesNumbered
  BY UserAssumption DEF AccountsInv, AccountsTyped, AccountsTypeOK, AccountStep, MailInv
<1>2. /\ pc[s] # "idle" /\ asked' = asked
      /\ \A t \in Session \ {s} : pc'[t] = pc[t] /\ job'[t] = job[t]
  BY <1>1, AccountMoves DEF AccountsInv
<1>3. ASSUME EmailProven', PendingSent', CodesNumbered', mailed \subseteq mailed', Intact(s)', FreshUser(s)',
             \A t \in Session \ {s} : Undisturbed(t)
      PROVE  MailInv'
  <2>1. ASSUME NEW t \in Session \ {s}
        PROVE  Intact(t)' /\ FreshUser(t)'
    <3>1. CASE pc[t] = "idle"
      BY <1>2, <3>1 DEF Intact, FreshUser
    <3>2. CASE pc[t] # "idle"
      <4>1. pc[t] \in {"check", "update"} => job[t].kind = "create" \/ job[t].row \in UserRow
        BY DEF AccountsInv, Changing
      <4> QED
        BY <1>1, <1>2, <1>3, <3>2, <4>1, OthersKept
    <3> QED
      BY <3>1, <3>2
  <2> QED
    BY <1>3, <2>1 DEF MailInv
<1>4. ASSUME UNCHANGED <<users, mailed, adopted>>, Intact(s)', FreshUser(s)'
      PROVE  MailInv'
  <2>1. EmailProven' /\ PendingSent' /\ CodesNumbered'
    BY <1>1, <1>2, <1>4 DEF EmailProven, PendingSent, CodesNumbered
  <2>2. \A t \in Session \ {s} : Undisturbed(t)
    BY <1>4 DEF Undisturbed
  <2> QED
    BY <1>3, <1>4, <2>1, <2>2
<1>5. ASSUME Answer(s)
      PROVE  Intact(s)' /\ FreshUser(s)'
  BY <1>1, <1>5 DEF Answer, Intact, FreshUser
<1>6. CASE InsertUser(s)
  <2> DEFINE row == job[s].row
  <2>1. PICK u \in User : users' = [users EXCEPT ![u] = row]
    BY <1>6 DEF InsertUser, First
  <2>2. /\ row.pending = None /\ row.code = 0 /\ row \in UserRow
        /\ UNCHANGED <<mailed, adopted>> /\ Answer(s)
    BY <1>1, <1>6 DEF InsertUser, FreshUser, Creating
  <2> HIDE DEF row
  <2>3. users'[u] = row /\ \A x \in User \ {u} : users'[x] = users[x]
    BY <1>1, <2>1
  <2>4. EmailProven' /\ PendingSent' /\ CodesNumbered'
    BY <1>1, <1>2, <2>2, <2>3 DEF EmailProven, PendingSent, CodesNumbered
  <2>5. \A t \in Session \ {s} : Undisturbed(t)
    BY <1>1, <2>1, <2>2 DEF Undisturbed
  <2> QED
    BY <1>3, <1>5, <2>2, <2>4, <2>5
<1>7. CASE UpdateUser(s)
  <2> DEFINE u == job[s].user  new == Written(s)
  <2>1. u \in User /\ users[u] # None /\ users' = [users EXCEPT ![u] = new] /\ Answer(s)
    BY <1>7 DEF UpdateUser, Existing
  <2>2. /\ mailed \subseteq mailed' /\ EmailProven' /\ new.code <= asked
        /\ new.pending # None => <<new.code, new.pending>> \in mailed'
        /\ job[s].kind # "email" => new.pending \in {None, users[u].pending}
    BY <1>7, WrittenMail
  <2> HIDE DEF new
  <2>3. users'[u] = new /\ \A x \in User \ {u} : users'[x] = users[x]
    BY <1>1, <2>1
  <2>4. PendingSent' /\ CodesNumbered'
    BY <1>1, <1>2, <2>2, <2>3 DEF PendingSent, CodesNumbered
  <2>5. ASSUME NEW t \in Session \ {s}
        PROVE  Undisturbed(t)
    <3>1. CASE job[s].kind # "email"
      BY <1>1, <2>1, <2>2, <3>1 DEF Undisturbed
    <3>2. CASE job[s].kind = "email"
      <4>1. pc[t] # "idle" /\ job[t].kind = "email" => job[t].user # u
        BY <1>2, <3>2 DEF EmailsApart, Serving
      <4> QED
        BY <1>1, <2>1, <4>1 DEF Undisturbed
    <3> QED
      BY <3>1, <3>2
  <2> QED
    BY <1>3, <1>5, <2>1, <2>2, <2>4, <2>5
<1>8. CASE DeleteUser(s)
  <2>1. users' = [users EXCEPT ![job[s].user] = None] /\ UNCHANGED <<mailed, adopted>> /\ Answer(s)
    BY <1>8 DEF DeleteUser, accountHistory
  <2>2. \A x \in User : users'[x] # None => users'[x] = users[x]
    BY <1>1, <2>1
  <2>3. EmailProven' /\ PendingSent' /\ CodesNumbered'
    BY <1>1, <1>2, <2>1, <2>2 DEF EmailProven, PendingSent, CodesNumbered
  <2>4. \A t \in Session \ {s} : Undisturbed(t)
    BY <1>1, <2>1 DEF Undisturbed
  <2> QED
    BY <1>3, <1>5, <2>1, <2>3, <2>4
<1>9. CASE LockBusiness(s)
  <2>1. pc'[s] = "check" /\ pc[s] = "business" /\ job' = job /\ UNCHANGED <<users, mailed, adopted>>
    BY <1>1, <1>9 DEF LockBusiness, Goto, accountHistory
  <2> QED
    BY <1>1, <1>4, <2>1 DEF Intact, FreshUser, Creating
<1>10. CASE CheckEmail(s)
  <2>1. /\ pc'[s] \in {"insert", "update"} /\ pc[s] = "check" /\ job' = job /\ UNCHANGED <<users, mailed, adopted>>
        /\ pc'[s] = "insert" => job[s].kind = "create"
    BY <1>1, <1>10 DEF CheckEmail, accountHistory
  <2> QED
    BY <1>1, <1>2, <1>4, <2>1 DEF Intact, FreshUser, Creating
<1>11. CASE RefuseBootstrap(s) \/ RefuseEmail(s) \/ RefuseDuplicate(s) \/ AbortManagement(s)
  BY <1>4, <1>5, <1>11
     DEF RefuseBootstrap, RefuseEmail, RefuseDuplicate, AbortManagement, Refused, accountHistory
<1> QED
  BY <1>6, <1>7, <1>8, <1>9, <1>10, <1>11 DEF AccountRequest

\* A request that begins reads what it will write from, and draws a new code.
LEMMA MailBeginKeeps ==
  ASSUME AccountsInv, MailInv, NEW s \in Session, BeginRequest(s)
  PROVE  MailInv'
<1>1. PICK step \in AccountStep \ {"idle"}, task \in AccountTask :
        /\ pc[s] = "idle" /\ pc' = [pc EXCEPT ![s] = step] /\ job' = [job EXCEPT ![s] = task]
        /\ UNCHANGED <<users, mailed, adopted, past>> /\ asked' = asked + 1
        /\ Begun(step, task)
  BY AccountBegins DEF AccountBegun, accountHistory
<1>2. /\ pc \in [Session -> AccountStep] /\ job \in [Session -> AccountTask \cup {None}]
      /\ users \in [User -> UserRow \cup {None}] /\ asked \in Nat
      /\ \A t \in Session : pc[t] # "idle" => job[t] \in AccountTask
      /\ EmailProven /\ PendingSent /\ CodesNumbered
  BY DEF AccountsInv, AccountsTyped, AccountsTypeOK, AccountStep, MailInv
<1>3. pc'[s] = step /\ job'[s] = task /\ step # "idle"
  BY <1>1, <1>2
<1>4. ASSUME NEW t \in Session \ {s}
      PROVE  Intact(t)' /\ FreshUser(t)'
  <2>1. pc'[t] = pc[t] /\ job'[t] = job[t] /\ Undisturbed(t)
    BY <1>1, <1>2 DEF Undisturbed
  <2>2. CASE pc[t] = "idle"
    BY <2>1, <2>2 DEF Intact, FreshUser
  <2>3. CASE pc[t] # "idle"
    <3>1. pc[t] \in {"check", "update"} => job[t].kind = "create" \/ job[t].row \in UserRow
      BY DEF AccountsInv, Changing
    <3> QED
      BY <1>1, <1>2, <2>1, <2>3, <3>1, OthersKept
  <2> QED
    BY <2>2, <2>3
<1>5. \A u \in User : users[u] # None => users[u].code \in Nat
  BY <1>2 DEF UserRow
<1>6. EmailProven' /\ PendingSent' /\ CodesNumbered'
  BY <1>1, <1>2, <1>5 DEF EmailProven, PendingSent, CodesNumbered
<1>7. Intact(s)'
  <2>1. ASSUME task.user \in Existing, task.seen = users[task.user]
        PROVE  /\ task.seen.code <= asked /\ task.seen.code \in Nat
               /\ task.seen.pending # None => <<task.seen.code, task.seen.pending>> \in mailed
    BY <1>2, <1>5, <2>1 DEF PendingSent, CodesNumbered, Existing
  <2>2. CASE step = "check" /\ task.kind = "update"
    BY <1>1, <1>3, <2>2 DEF Begun, Intact
  <2>3. CASE step = "check" /\ task.kind = "confirm"
    BY <1>1, <1>2, <1>3, <2>1, <2>3 DEF Begun, Intact
  <2>4. CASE step = "check" /\ task.kind = "email"
    <3>1. /\ task.user \in Existing /\ task.seen = users[task.user] /\ task.row.code = asked + 1
      BY <1>1, <2>4 DEF Begun
    <3>2. task.row.code # task.seen.code /\ task.row.code <= asked'
      BY <1>1, <1>2, <2>1, <3>1
    <3> QED
      BY <1>1, <1>3, <2>4, <3>1, <3>2 DEF Intact
  <2> QED
    BY <1>1, <1>3, <2>2, <2>3, <2>4 DEF Begun, Intact
<1>8. FreshUser(s)'
  BY <1>1, <1>3 DEF Begun, FreshUser
<1> QED
  BY <1>4, <1>6, <1>7, <1>8 DEF MailInv

\* Steps taken while requests for a new e-mail of one account do not overlap.
LEMMA MailStepKeeps ==
  ASSUME AccountsInv, MailInv, EmailsApart, [AccountsNext]_accountVars
  PROVE  MailInv'
<1>1. CASE \E s \in Session : BeginAccount(s)
  BY <1>1, MailBeginKeeps DEF BeginAccount, BeginRequest
<1>2. CASE \E s \in Session : AccountRequest(s)
  BY <1>2, MailRequestKeeps
<1>3. ASSUME UNCHANGED <<pc, job, asked, users, mailed, adopted>>
      PROVE  MailInv'
  BY <1>3 DEF MailInv, EmailProven, PendingSent, CodesNumbered, Intact, FreshUser
<1>4. CASE AccountsTick \/ UNCHANGED accountVars
  BY <1>3, <1>4 DEF AccountsTick, accountVars, accountHistory
<1> QED
  BY <1>1, <1>2, <1>4 DEF AccountsNext, AccountsStep, AccountRequest

\* Unless two requests for a new e-mail of one account overlap, an account takes only an e-mail that
\* the confirmed code was sent to, whatever else overlaps; where they do, the e-mail of one is left
\* with the code of the other.
THEOREM EmailsProven == AccountsSpec /\ []EmailsApart => []EmailProven
<1>1. AccountsInit => MailInv
  BY DEF AccountsInit, BackendInit, NoAccounts, MailInv, EmailProven, PendingSent, CodesNumbered, Intact, FreshUser
<1>2. MailInv => EmailProven
  BY DEF MailInv
<1>3. AccountsInv /\ MailInv /\ EmailsApart /\ [AccountsNext]_accountVars => MailInv'
  BY MailStepKeeps
<1> QED
  BY <1>1, <1>2, <1>3, AccountsInvariant, PTL DEF AccountsSpec
-----------------------------------------------------------------------------

\* What the requests about expenses carry.
RecordTask == [row : ExpenseRow]
EntryTask == [entry : Entry, edit : BOOLEAN, seen : ExpenseRow, row : ExpenseRow \cup {None}]
GenerateTask == [month : Month, sources : SUBSET ExpenseRow, keys : SUBSET Label]
LedgerTask == RecordTask \cup EntryTask \cup GenerateTask \cup {None}

LedgerStep == {"idle", "record", "write", "remove", "generate", "sources", "existing", "copy"}
Generation == {"generate", "sources", "existing", "copy"}

SameExpense(x, y) == x.label = y.label /\ x.month = y.month /\ x.day = y.day /\ x.fixed = y.fixed

\* Only a correction changes what an expense is.
Posting(s) ==
  /\ pc[s] = "record" => job[s] \in RecordTask /\ job[s].row.day >= 1
  /\ pc[s] \in {"write", "remove"} => job[s] \in EntryTask
  /\ pc[s] = "write" =>
       /\ job[s].row \in ExpenseRow /\ job[s].row.day >= 1
       /\ ~job[s].edit => SameExpense(job[s].row, job[s].seen)

\* A generation that is about to copy has read, under the lock, the keys of all copies of its month.
Generating(s) ==
  /\ pc[s] \in Generation => job[s] \in GenerateTask /\ \A x \in job[s].sources : x.day >= 1
  /\ pc[s] \in Generation \ {"generate"} => lock["business"] = s
  /\ pc[s] = "copy" =>
       \A e \in copies : expenses[e].month = job[s].month => KeyOf[expenses[e].label] \in job[s].keys

\* Stored expenses have a day; untouched copies are fixed expenses on a day of their month.
Stored ==
  /\ \A e \in Entry : expenses[e] # None => expenses[e].day >= 1 /\ e \in ledger
  /\ \A e \in copies :
       /\ expenses[e] \in ExpenseRow /\ expenses[e].fixed
       /\ expenses[e].day <= MonthLength[expenses[e].month]

ExpensesInv ==
  /\ ExpensesTypeOK /\ job \in [Session -> LedgerTask]
  /\ Stored /\ CopiesUnique
  /\ \A s \in Session : Posting(s) /\ Generating(s)
-----------------------------------------------------------------------------

\* The steps of a request about expenses, and the beginnings of one.
LedgerRequest(s) ==
  \/ RecordExpense(s) \/ WriteExpense(s) \/ RemoveExpense(s)
  \/ LockLedger(s) \/ ReadSources(s) \/ ReadExisting(s) \/ Copy(s) \/ AbortLedger(s)

BeginLedger(s) ==
  \/ \E m \in Month : BeginGenerate(s, m)
  \/ \E m \in Month, l \in Label, d \in MonthDay, fixed \in BOOLEAN :
       BeginRecord(s, l, m, d, fixed) \/ \E e \in Entry : BeginCorrect(s, e, l, m, d, fixed)
  \/ \E e \in Entry : BeginPaid(s, e) \/ BeginPending(s, e) \/ BeginRemove(s, e)

\* A flush leaves an expense; columns that were not assigned are those of the table.
LEMMA FlushedExpense ==
  ASSUME NEW stored \in ExpenseRow, NEW seen \in ExpenseRow, NEW row \in ExpenseRow
  PROVE  /\ Flushed(stored, seen, row) \in ExpenseRow
         /\ Flushed(stored, seen, row).day \in {row.day, stored.day}
         /\ SameExpense(row, seen) => SameExpense(Flushed(stored, seen, row), stored)
<1> DEFINE new == Flushed(stored, seen, row)
<1>1. DOMAIN row = {"label", "month", "day", "fixed", "paid", "on"}
  BY DEF ExpenseRow
<1>2. new = [f \in {"label", "month", "day", "fixed", "paid", "on"} |->
               IF row[f] # seen[f] THEN row[f] ELSE stored[f]]
  BY <1>1 DEF Flushed
<1>3. new = [label |-> new.label, month |-> new.month, day |-> new.day, fixed |-> new.fixed,
             paid |-> new.paid, on |-> new.on]
  BY <1>2
<1>4. /\ new.label \in Label /\ new.month \in Month /\ new.day \in Nat /\ new.fixed \in BOOLEAN
      /\ new.paid \in BOOLEAN /\ new.on \in Instant \cup {None}
  BY <1>2 DEF ExpenseRow
<1>5. new \in ExpenseRow
  BY <1>3, <1>4 DEF ExpenseRow
<1>6. new.day \in {row.day, stored.day}
  BY <1>2
<1>7. ASSUME SameExpense(row, seen)
      PROVE  SameExpense(new, stored)
  BY <1>2, <1>7 DEF SameExpense
<1> QED
  BY <1>5, <1>6, <1>7

\* What the invariant says of the types, for the steps that follow.
LEMMA LedgerTypes ==
  ASSUME ExpensesInv
  PROVE  /\ pc \in [Session -> LedgerStep] /\ job \in [Session -> LedgerTask]
         /\ lock \in [{"business"} -> Session \cup {None}] /\ clock \in Instant
         /\ expenses \in [Entry -> ExpenseRow \cup {None}]
         /\ copies \subseteq ledger /\ ledger \subseteq Entry
         /\ None \notin Session /\ None \notin ExpenseRow
BY SessionAssumption, ExpenseAssumption DEF ExpensesInv, ExpensesTypeOK, LedgerStep

\* What the other requests rely on while this one writes.
LedgerKept(s) ==
  /\ expenses' \in [Entry -> ExpenseRow \cup {None}]
  /\ copies' \subseteq ledger' /\ ledger' \subseteq Entry
  /\ Stored' /\ CopiesUnique'
  /\ \A t \in Session \ {s} : lock["business"] = t =>
       \A e \in copies' : e \in copies /\ SameExpense(expenses'[e], expenses[e])

\* A write that makes no copy and changes none.
LEMMA FewerCopies ==
  ASSUME ExpensesInv, NEW s,
         expenses' \in [Entry -> ExpenseRow \cup {None}], copies' \subseteq copies,
         ledger \subseteq ledger', ledger' \subseteq Entry,
         \A e \in copies' : expenses'[e] \in ExpenseRow /\ SameExpense(expenses'[e], expenses[e]),
         \A e \in Entry : expenses'[e] # None => expenses'[e].day >= 1 /\ e \in ledger'
  PROVE  LedgerKept(s)
<1>1. copies' \subseteq ledger' /\ copies' \subseteq Entry
  BY LedgerTypes
<1>2. Stored'
  BY DEF ExpensesInv, Stored, SameExpense
<1>3. CopiesUnique'
  BY DEF ExpensesInv, CopiesUnique, SameExpense
<1> QED
  BY <1>1, <1>2, <1>3 DEF LedgerKept

\* An expense that is recorded is new, and no copy.
LEMMA RecordKeeps ==
  ASSUME ExpensesInv, NEW s \in Session, RecordExpense(s)
  PROVE  LedgerKept(s)
<1>1. PICK e \in Entry \ ledger :
        /\ expenses' = [expenses EXCEPT ![e] = job[s].row] /\ ledger' = ledger \cup {e} /\ copies' = copies
  BY DEF RecordExpense, First
<1>2. job[s].row \in ExpenseRow /\ job[s].row.day >= 1 /\ Stored
  BY DEF RecordExpense, ExpensesInv, Posting, RecordTask
<1>3. expenses'[e] = job[s].row /\ \A f \in Entry \ {e} : expenses'[f] = expenses[f]
  BY <1>1, LedgerTypes
<1>4. expenses' \in [Entry -> ExpenseRow \cup {None}]
  BY <1>1, <1>2, LedgerTypes
<1>5. \A f \in copies' : expenses'[f] \in ExpenseRow /\ SameExpense(expenses'[f], expenses[f])
  BY <1>1, <1>2, <1>3, LedgerTypes DEF Stored, SameExpense
<1>6. \A f \in Entry : expenses'[f] # None => expenses'[f].day >= 1 /\ f \in ledger'
  BY <1>1, <1>2, <1>3 DEF Stored
<1> QED
  BY <1>1, <1>4, <1>5, <1>6, FewerCopies, LedgerTypes

\* A change of an expense is a correction, or leaves what the expense is.
LEMMA WriteKeeps ==
  ASSUME ExpensesInv, NEW s \in Session, WriteExpense(s)
  PROVE  LedgerKept(s)
<1> DEFINE e == job[s].entry  row == Flushed(expenses[e], job[s].seen, job[s].row)
<1>1. /\ job[s].seen \in ExpenseRow /\ job[s].row \in ExpenseRow /\ job[s].row.day >= 1
      /\ ~job[s].edit => SameExpense(job[s].row, job[s].seen)
      /\ Stored
  BY DEF WriteExpense, ExpensesInv, Posting, EntryTask
<1>2. e \in Entry /\ expenses[e] \in ExpenseRow /\ expenses[e].day >= 1 /\ e \in ledger
  BY <1>1, LedgerTypes DEF WriteExpense, Recorded, Stored
<1>3. row \in ExpenseRow /\ row.day >= 1 /\ (~job[s].edit => SameExpense(row, expenses[e]))
  BY <1>1, <1>2, FlushedExpense
<1>4. /\ expenses' = [expenses EXCEPT ![e] = row] /\ ledger' = ledger
      /\ copies' = IF job[s].edit THEN copies \ {e} ELSE copies
  BY DEF WriteExpense
<1> HIDE DEF e, row
<1>5. expenses'[e] = row /\ \A f \in Entry \ {e} : expenses'[f] = expenses[f]
  BY <1>2, <1>4, LedgerTypes
<1>6. expenses' \in [Entry -> ExpenseRow \cup {None}]
  BY <1>3, <1>4, LedgerTypes
<1>7. \A f \in copies' : expenses'[f] \in ExpenseRow /\ SameExpense(expenses'[f], expenses[f])
  BY <1>1, <1>3, <1>4, <1>5, LedgerTypes DEF Stored, SameExpense
<1>8. \A f \in Entry : expenses'[f] # None => expenses'[f].day >= 1 /\ f \in ledger'
  BY <1>1, <1>2, <1>3, <1>4, <1>5 DEF Stored
<1> QED
  BY <1>4, <1>6, <1>7, <1>8, FewerCopies, LedgerTypes

\* A deletion.
LEMMA RemoveKeeps ==
  ASSUME ExpensesInv, NEW s \in Session, RemoveExpense(s)
  PROVE  LedgerKept(s)
<1> DEFINE e == job[s].entry
<1>1. e \in Entry /\ Stored
  BY DEF RemoveExpense, ExpensesInv, Posting, EntryTask
<1>2. expenses' = [expenses EXCEPT ![e] = None] /\ copies' = copies \ {e} /\ ledger' = ledger
  BY DEF RemoveExpense
<1> HIDE DEF e
<1>3. expenses'[e] = None /\ \A f \in Entry \ {e} : expenses'[f] = expenses[f]
  BY <1>1, <1>2, LedgerTypes
<1>4. expenses' \in [Entry -> ExpenseRow \cup {None}]
  BY <1>2, LedgerTypes
<1>5. \A f \in copies' : expenses'[f] \in ExpenseRow /\ SameExpense(expenses'[f], expenses[f])
  BY <1>1, <1>2, <1>3, LedgerTypes DEF Stored, SameExpense
<1>6. \A f \in Entry : expenses'[f] # None => expenses'[f].day >= 1 /\ f \in ledger'
  BY <1>1, <1>2, <1>3 DEF Stored
<1> QED
  BY <1>2, <1>4, <1>5, <1>6, FewerCopies, LedgerTypes

\* The copy of an expense is a fixed expense of its month, on a day of that month.
LEMMA CopyRow ==
  ASSUME NEW x \in ExpenseRow, x.day >= 1, NEW m \in Month
  PROVE  /\ CopyOf(x, m) \in ExpenseRow /\ CopyOf(x, m).label = x.label /\ CopyOf(x, m).month = m
         /\ CopyOf(x, m).fixed /\ CopyOf(x, m).day >= 1 /\ CopyOf(x, m).day <= MonthLength[m]
<1>1. MonthLength[m] \in Nat /\ MonthLength[m] >= 1 /\ x.day \in Nat /\ x.label \in Label
  BY ExpenseAssumption DEF ExpenseRow
<1> DEFINE day == IF x.day < MonthLength[m] THEN x.day ELSE MonthLength[m]
<1>2. day \in Nat /\ day >= 1 /\ day <= MonthLength[m]
  BY <1>1
<1>3. CopyOf(x, m) = [label |-> x.label, month |-> m, day |-> day, fixed |-> TRUE, paid |-> FALSE, on |-> None]
  BY DEF CopyOf, Pending
<1> HIDE DEF day
<1> QED
  BY <1>1, <1>2, <1>3 DEF ExpenseRow

\* The copies that a generation makes have keys of their own, and keys the month did not have.
LEMMA CopyKeeps ==
  ASSUME ExpensesInv, NEW s \in Session, Copy(s)
  PROVE  LedgerKept(s)
<1> DEFINE m == job[s].month  keys == MissingKeys(s)  sources == job[s].sources
<1>1. /\ m \in Month /\ sources \subseteq ExpenseRow /\ \A x \in sources : x.day >= 1
      /\ lock["business"] = s /\ Stored /\ CopiesUnique
      /\ \A e \in copies : expenses[e].month = m => KeyOf[expenses[e].label] \notin keys
  BY DEF Copy, ExpensesInv, Generating, Generation, GenerateTask, MissingKeys
<1>2. PICK at \in Injection(keys, Entry \ ledger), of \in [keys -> sources] :
        /\ \A k \in keys : of[k] \in Latest(sources, k)
        /\ expenses' = [e \in Entry |-> IF \E k \in keys : at[k] = e
                                        THEN CopyOf(of[CHOOSE k \in keys : at[k] = e], m)
                                        ELSE expenses[e]]
        /\ copies' = copies \cup {at[k] : k \in keys}
        /\ ledger' = ledger \cup {at[k] : k \in keys}
  BY DEF Copy
<1> HIDE DEF m, keys, sources
<1>3. /\ \A k \in keys : at[k] \in Entry \ ledger
      /\ \A j, k \in keys : at[j] = at[k] => j = k
  BY <1>2 DEF Injection, IsInjective
<1>4. \A k \in keys : of[k] \in ExpenseRow /\ of[k].day >= 1 /\ KeyOf[of[k].label] = k
  BY <1>1, <1>2 DEF Latest
<1>5. ASSUME NEW k \in keys
      PROVE  expenses'[at[k]] = CopyOf(of[k], m)
  <2>1. (CHOOSE j \in keys : at[j] = at[k]) = k
    BY <1>3
  <2> QED
    BY <1>2, <1>3, <2>1
<1>6. ASSUME NEW e \in Entry, \A k \in keys : at[k] # e
      PROVE  expenses'[e] = expenses[e]
  BY <1>2, <1>6
<1>7. \A k \in keys :
        /\ expenses'[at[k]] \in ExpenseRow /\ KeyOf[expenses'[at[k]].label] = k
        /\ expenses'[at[k]].month = m /\ expenses'[at[k]].fixed
        /\ expenses'[at[k]].day >= 1 /\ expenses'[at[k]].day <= MonthLength[m]
  BY <1>1, <1>4, <1>5, CopyRow
<1>8. \A e \in ledger : expenses'[e] = expenses[e]
  BY <1>3, <1>6, LedgerTypes
<1>9. expenses' \in [Entry -> ExpenseRow \cup {None}]
  <2>1. expenses' = [e \in Entry |-> expenses'[e]]
    BY <1>2
  <2>2. \A e \in Entry : expenses'[e] \in ExpenseRow \cup {None}
    BY <1>6, <1>7, LedgerTypes
  <2> QED
    BY <2>1, <2>2
<1>10. Stored'
  <2>1. \A e \in Entry : expenses'[e] # None => expenses'[e].day >= 1 /\ e \in ledger'
    BY <1>1, <1>2, <1>6, <1>7 DEF Stored
  <2>2. \A e \in copies' : /\ expenses'[e] \in ExpenseRow /\ expenses'[e].fixed
                           /\ expenses'[e].day <= MonthLength[expenses'[e].month]
    BY SMTT(30), <1>1, <1>2, <1>7, <1>8, LedgerTypes DEF Stored
  <2> QED
    BY <2>1, <2>2 DEF Stored
<1>11. CopiesUnique'
  <2>1. \A e \in copies : e \in ledger /\ expenses'[e] = expenses[e]
    BY <1>8, LedgerTypes
  <2>2. ASSUME NEW e \in copies'
        PROVE  expenses'[e].day \in 1..MonthLength[expenses'[e].month]
    <3>1. expenses'[e] \in ExpenseRow /\ expenses'[e].day >= 1
          /\ expenses'[e].day <= MonthLength[expenses'[e].month]
      <4>1. CASE e \in copies
        <5>1. e \in Entry /\ expenses[e] \in ExpenseRow /\ expenses[e] # None
          BY <1>1, <4>1, LedgerTypes DEF Stored
        <5> QED
          BY <1>1, <2>1, <4>1, <5>1 DEF Stored
      <4>2. CASE e \notin copies
        BY <1>2, <1>7, <2>2, <4>2
      <4> QED
        BY <4>1, <4>2
    <3> QED
      BY <3>1, ExpenseAssumption DEF ExpenseRow
  <2>3. ASSUME NEW e \in copies', NEW f \in copies' \ {e}, expenses'[e].month = expenses'[f].month
        PROVE  KeyOf[expenses'[e].label] # KeyOf[expenses'[f].label]
    <3>1. CASE e \in copies /\ f \in copies
      BY <1>1, <2>1, <2>3, <3>1 DEF CopiesUnique
    <3>2. ASSUME NEW x \in copies, NEW k \in keys, expenses'[x].month = m
          PROVE  KeyOf[expenses'[x].label] # k
      BY SMTT(30), <1>1, <2>1, <3>2
    <3>3. CASE e \in copies /\ f \notin copies
      BY SMTT(30), <1>2, <1>7, <2>3, <3>2, <3>3
    <3>4. CASE e \notin copies /\ f \in copies
      BY SMTT(30), <1>2, <1>7, <2>3, <3>2, <3>4
    <3>5. CASE e \notin copies /\ f \notin copies
      BY <1>2, <1>7, <2>3, <3>5
    <3> QED
      BY <3>1, <3>3, <3>4, <3>5
  <2> QED
    BY <2>2, <2>3 DEF CopiesUnique
<1> QED
  BY <1>1, <1>2, <1>3, <1>9, <1>10, <1>11, LedgerTypes DEF LedgerKept

\* The other steps write no expense.
LEMMA UnchangedExpenses ==
  ASSUME ExpensesInv, NEW s, UNCHANGED <<expenses, copies, ledger>>
  PROVE  LedgerKept(s)
<1>1. \A e \in copies : expenses[e] \in ExpenseRow
  BY DEF ExpensesInv, Stored
<1> QED
  BY <1>1, LedgerTypes DEF ExpensesInv, Stored, CopiesUnique, SameExpense, LedgerKept

\* A request keeps the expenses as the others rely on them.
LEMMA LedgerWrites ==
  ASSUME ExpensesInv, NEW s \in Session, LedgerRequest(s)
  PROVE  LedgerKept(s)
<1>1. CASE RecordExpense(s) \/ WriteExpense(s) \/ RemoveExpense(s) \/ Copy(s)
  BY <1>1, RecordKeeps, WriteKeeps, RemoveKeeps, CopyKeeps
<1>2. CASE LockLedger(s) \/ ReadSources(s) \/ ReadExisting(s) \/ AbortLedger(s)
  BY <1>2, UnchangedExpenses DEF LockLedger, ReadSources, ReadExisting, AbortLedger
<1> QED
  BY <1>1, <1>2 DEF LedgerRequest

\* A request moves only itself and the lock that it holds.
LEMMA LedgerMoves ==
  ASSUME ExpensesInv, NEW s \in Session, LedgerRequest(s)
  PROVE  /\ \E step \in LedgerStep : pc' = [pc EXCEPT ![s] = step]
         /\ \E task \in LedgerTask : job' = [job EXCEPT ![s] = task]
         /\ clock' = clock
         /\ lock' \in [{"business"} -> Session \cup {None}]
         /\ \A t \in Session \ {s} : lock["business"] = t => lock'["business"] = t
<1>1. ASSUME Answer(s), Release(s), clock' = clock
      PROVE  /\ \E step \in LedgerStep : pc' = [pc EXCEPT ![s] = step]
             /\ \E task \in LedgerTask : job' = [job EXCEPT ![s] = task]
             /\ clock' = clock
             /\ lock' \in [{"business"} -> Session \cup {None}]
             /\ \A t \in Session \ {s} : lock["business"] = t => lock'["business"] = t
  <2>1. "idle" \in LedgerStep /\ None \in LedgerTask
    BY DEF LedgerStep, LedgerTask
  <2>2. /\ lock' \in [{"business"} -> Session \cup {None}]
        /\ \A t \in Session \ {s} : lock["business"] = t => lock'["business"] = t
    BY <1>1, LedgerTypes DEF Release
  <2> QED
    BY <1>1, <2>1, <2>2 DEF Answer
<1>2. CASE RecordExpense(s) \/ WriteExpense(s) \/ RemoveExpense(s) \/ Copy(s) \/ AbortLedger(s)
  BY <1>1, <1>2 DEF RecordExpense, WriteExpense, RemoveExpense, Copy, AbortLedger
<1>3. CASE LockLedger(s)
  <2>1. pc' = [pc EXCEPT ![s] = "sources"] /\ "sources" \in LedgerStep /\ clock' = clock
    BY <1>3 DEF LockLedger, Goto, LedgerStep
  <2>2. job' = [job EXCEPT ![s] = job[s]] /\ job[s] \in LedgerTask
    BY <1>3, LedgerTypes DEF LockLedger
  <2>3. /\ lock' \in [{"business"} -> Session \cup {None}]
        /\ \A t \in Session \ {s} : lock["business"] = t => lock'["business"] = t
    BY <1>3, LedgerTypes DEF LockLedger, Available, Hold
  <2> QED
    BY <2>1, <2>2, <2>3
<1>4. ASSUME job[s] \in GenerateTask
      PROVE  /\ \A S \in SUBSET ExpenseRow : [job[s] EXCEPT !.sources = S] \in GenerateTask
             /\ \A K \in SUBSET Label : [job[s] EXCEPT !.keys = K] \in GenerateTask
  BY <1>4 DEF GenerateTask
<1>5. CASE ReadSources(s)
  <2> DEFINE read == {expenses[e] : e \in FixedOf(job[s].month - 1)}
             task == [job[s] EXCEPT !.sources = read]
  <2>1. read \in SUBSET ExpenseRow /\ job[s] \in GenerateTask
    BY <1>5, LedgerTypes DEF FixedOf, Recorded, ReadSources, Goto, ExpensesInv, Generating, Generation
  <2>2. task \in LedgerTask
    BY <1>4, <2>1 DEF LedgerTask
  <2>3. job' = [job EXCEPT ![s] = task]
    BY <1>5, LedgerTypes DEF ReadSources
  <2> HIDE DEF task, read
  <2> QED
    BY <1>5, <2>2, <2>3, LedgerTypes DEF ReadSources, Goto, LedgerStep
<1>6. CASE ReadExisting(s)
  <2> DEFINE read == {KeyOf[expenses[e].label] : e \in FixedOf(job[s].month)}
             task == [job[s] EXCEPT !.keys = read]
  <2>1. \A e \in FixedOf(job[s].month) : KeyOf[expenses[e].label] \in Label
    BY LedgerTypes, ExpenseAssumption DEF FixedOf, Recorded, ExpenseRow
  <2>2. job[s] \in GenerateTask
    BY <1>6 DEF ReadExisting, Goto, ExpensesInv, Generating, Generation
  <2>3. task \in LedgerTask
    BY <1>4, <2>1, <2>2 DEF LedgerTask
  <2>4. job' = [job EXCEPT ![s] = task]
    BY <1>6, LedgerTypes DEF ReadExisting
  <2> HIDE DEF task, read
  <2> QED
    BY <1>6, <2>3, <2>4, LedgerTypes DEF ReadExisting, Goto, LedgerStep
<1> QED
  BY <1>2, <1>3, <1>5, <1>6 DEF LedgerRequest

\* What a request knows stays true while others write.
LEMMA LedgerOthers ==
  ASSUME ExpensesInv, NEW s \in Session, LedgerKept(s), NEW t \in Session \ {s},
         pc'[t] = pc[t], job'[t] = job[t], lock["business"] = t => lock'["business"] = t
  PROVE  Posting(t)' /\ Generating(t)'
<1>1. Posting(t) /\ Generating(t)
  BY DEF ExpensesInv
<1>2. Posting(t)'
  BY <1>1 DEF Posting
<1>3. ASSUME pc[t] = "copy"
      PROVE  \A e \in copies' :
               expenses'[e].month = job[t].month => KeyOf[expenses'[e].label] \in job[t].keys
  <2>1. lock["business"] = t
    BY <1>1, <1>3 DEF Generating, Generation
  <2> QED
    BY <1>1, <1>3, <2>1 DEF Generating, LedgerKept, SameExpense
<1>4. Generating(t)'
  BY <1>1, <1>3 DEF Generating, Generation
<1> QED
  BY <1>2, <1>4

\* A request keeps what it knows from one of its steps to the next.
LEMMA LedgerOwn ==
  ASSUME ExpensesInv, NEW s \in Session, LedgerRequest(s)
  PROVE  Posting(s)' /\ Generating(s)'
<1>1. Posting(s) /\ Generating(s)
  BY DEF ExpensesInv
<1>2. CASE Answer(s)
  <2>1. pc'[s] = "idle"
    BY <1>2, LedgerTypes DEF Answer
  <2> QED
    BY <2>1 DEF Posting, Generating, Generation
<1>3. CASE RecordExpense(s) \/ WriteExpense(s) \/ RemoveExpense(s) \/ Copy(s) \/ AbortLedger(s)
  BY <1>2, <1>3 DEF RecordExpense, WriteExpense, RemoveExpense, Copy, AbortLedger
<1>4. CASE LockLedger(s)
  <2>1. pc[s] = "generate" /\ pc'[s] = "sources" /\ job'[s] = job[s] /\ lock'["business"] = s
    BY <1>4, LedgerTypes DEF LockLedger, Goto, Hold
  <2> QED
    BY <1>1, <2>1 DEF Posting, Generating, Generation
<1>5. CASE ReadSources(s)
  <2> DEFINE read == {expenses[e] : e \in FixedOf(job[s].month - 1)}
  <2>1. job[s] \in GenerateTask /\ lock["business"] = s
    BY <1>1, <1>5 DEF ReadSources, Goto, Generating, Generation
  <2>2. read \subseteq ExpenseRow /\ \A x \in read : x.day >= 1
    BY LedgerTypes DEF FixedOf, Recorded, ExpensesInv, Stored
  <2>3. job'[s] = [job[s] EXCEPT !.sources = read] /\ pc'[s] = "existing" /\ lock' = lock
    BY <1>5, LedgerTypes DEF ReadSources, Goto
  <2> HIDE DEF read
  <2>4. job'[s] \in GenerateTask /\ \A x \in job'[s].sources : x.day >= 1
    BY <2>1, <2>2, <2>3 DEF GenerateTask
  <2> QED
    BY <2>1, <2>3, <2>4 DEF Posting, Generating, Generation
<1>6. CASE ReadExisting(s)
  <2> DEFINE read == {KeyOf[expenses[e].label] : e \in FixedOf(job[s].month)}
  <2>1. /\ job[s] \in GenerateTask /\ lock["business"] = s /\ \A x \in job[s].sources : x.day >= 1
    BY <1>1, <1>6 DEF ReadExisting, Goto, Generating, Generation
  <2>2. read \subseteq Label
    BY LedgerTypes, ExpenseAssumption DEF FixedOf, Recorded, ExpenseRow
  <2>3. /\ job'[s] = [job[s] EXCEPT !.keys = read] /\ pc'[s] = "copy"
        /\ UNCHANGED <<lock, expenses, copies>>
    BY <1>6, LedgerTypes DEF ReadExisting, Goto
  <2>4. \A e \in copies : expenses[e].month = job[s].month => KeyOf[expenses[e].label] \in read
    BY LedgerTypes DEF FixedOf, Recorded, ExpensesInv, Stored
  <2> HIDE DEF read
  <2>5. job'[s] \in GenerateTask /\ job'[s].sources = job[s].sources /\ job'[s].month = job[s].month
        /\ job'[s].keys = read
    BY <2>1, <2>2, <2>3 DEF GenerateTask
  <2> QED
    BY <2>1, <2>3, <2>4, <2>5 DEF Posting, Generating, Generation
<1> QED
  BY <1>3, <1>4, <1>5, <1>6 DEF LedgerRequest

\* A step of a request keeps the invariant.
LEMMA LedgerRequestKeeps ==
  ASSUME ExpensesInv, NEW s \in Session, LedgerRequest(s)
  PROVE  ExpensesInv'
<1>1. PICK step \in LedgerStep : pc' = [pc EXCEPT ![s] = step]
  BY LedgerMoves
<1>2. PICK task \in LedgerTask : job' = [job EXCEPT ![s] = task]
  BY LedgerMoves
<1>3. /\ pc' \in [Session -> LedgerStep] /\ job' \in [Session -> LedgerTask]
      /\ \A t \in Session \ {s} : pc'[t] = pc[t] /\ job'[t] = job[t]
  BY <1>1, <1>2, LedgerTypes
<1>4. LedgerKept(s)
  BY LedgerWrites
<1>5. ExpensesTypeOK'
  BY <1>3, <1>4, LedgerMoves, LedgerTypes DEF ExpensesTypeOK, LedgerKept, LedgerStep
<1>6. ASSUME NEW t \in Session
      PROVE  Posting(t)' /\ Generating(t)'
  <2>1. CASE t = s
    BY <2>1, LedgerOwn
  <2>2. CASE t # s
    BY <1>3, <1>4, <2>2, LedgerOthers, LedgerMoves
  <2> QED
    BY <2>1, <2>2
<1> QED
  BY <1>3, <1>4, <1>5, <1>6 DEF ExpensesInv, LedgerKept

\* What a request carries when it begins.
Posted(step, task) ==
  \/ step = "record" /\ task \in RecordTask /\ task.row.day >= 1
  \/ /\ step = "write" /\ task \in EntryTask /\ task.row \in ExpenseRow /\ task.row.day >= 1
     /\ ~task.edit => SameExpense(task.row, task.seen)
  \/ step = "remove" /\ task \in EntryTask
  \/ step = "generate" /\ task \in GenerateTask /\ task.sources = {}

LedgerBegun(s) == \E step \in LedgerStep \ {"idle"}, task \in LedgerTask :
  /\ pc' = [pc EXCEPT ![s] = step] /\ job' = [job EXCEPT ![s] = task]
  /\ UNCHANGED <<lock, clock, expenses, copies, ledger>> /\ Posted(step, task)

\* A request that begins has read the expense it is about.
LEMMA LedgerBegins ==
  ASSUME ExpensesInv, NEW s \in Session, BeginLedger(s)
  PROVE  LedgerBegun(s)
<1>1. ASSUME NEW step, NEW task, Post(s, step, task), Posted(step, task)
      PROVE  LedgerBegun(s)
  BY <1>1 DEF Post, Begin, Posted, LedgerStep, LedgerTask, LedgerBegun
<1>2. \A d \in MonthDay : d \in Nat /\ d >= 1
  BY ExpenseAssumption
<1>3. ASSUME NEW m \in Month, BeginGenerate(s, m)
      PROVE  LedgerBegun(s)
  <2>1. Posted("generate", [month |-> m, sources |-> {}, keys |-> {}])
    BY DEF Posted, GenerateTask
  <2> QED
    BY <1>1, <1>3, <2>1 DEF BeginGenerate
<1>4. ASSUME NEW m \in Month, NEW l \in Label, NEW d \in MonthDay, NEW fixed \in BOOLEAN,
             BeginRecord(s, l, m, d, fixed)
      PROVE  LedgerBegun(s)
  <2>1. Pending(l, m, d, fixed) \in ExpenseRow /\ Pending(l, m, d, fixed).day >= 1
    BY <1>2 DEF Pending, ExpenseRow
  <2>2. Posted("record", [row |-> Pending(l, m, d, fixed)])
    BY <2>1 DEF Posted, RecordTask
  <2> QED
    BY <1>1, <1>4, <2>2 DEF BeginRecord
<1>5. ASSUME NEW e \in Entry, e \in Recorded
      PROVE  expenses[e] \in ExpenseRow /\ expenses[e].day >= 1
  BY <1>5, LedgerTypes DEF Recorded, ExpensesInv, Stored
<1>6. ASSUME NEW m \in Month, NEW l \in Label, NEW d \in MonthDay, NEW fixed \in BOOLEAN, NEW e \in Entry,
             BeginCorrect(s, e, l, m, d, fixed)
      PROVE  LedgerBegun(s)
  <2> DEFINE row == [expenses[e] EXCEPT !.label = l, !.month = m, !.day = d, !.fixed = fixed]
  <2>1. e \in Recorded
        /\ Post(s, "write", [entry |-> e, edit |-> TRUE, seen |-> expenses[e], row |-> row])
    BY <1>6 DEF BeginCorrect
  <2>2. row \in ExpenseRow /\ row.day >= 1
    BY <1>2, <1>5, <2>1 DEF ExpenseRow
  <2> HIDE DEF row
  <2>3. Posted("write", [entry |-> e, edit |-> TRUE, seen |-> expenses[e], row |-> row])
    BY <1>5, <2>1, <2>2 DEF Posted, EntryTask
  <2> QED
    BY <1>1, <2>1, <2>3
<1>7. ASSUME NEW e \in Entry, NEW row \in ExpenseRow, BeginEntry(s, e, "write", row),
             row.day >= 1, SameExpense(row, expenses[e])
      PROVE  LedgerBegun(s)
  <2>1. Posted("write", [entry |-> e, edit |-> FALSE, seen |-> expenses[e], row |-> row])
    BY <1>5, <1>7 DEF Posted, EntryTask, BeginEntry
  <2> QED
    BY <1>1, <1>7, <2>1 DEF BeginEntry
<1>8. ASSUME NEW e \in Entry, BeginPaid(s, e) \/ BeginPending(s, e)
      PROVE  \E row \in ExpenseRow :
               BeginEntry(s, e, "write", row) /\ row.day >= 1 /\ SameExpense(row, expenses[e])
  <2>1. expenses[e] \in ExpenseRow /\ expenses[e].day >= 1
    BY <1>5, <1>8 DEF BeginPaid, BeginPending, BeginEntry
  <2>2. \A paid \in BOOLEAN, on \in Instant \cup {None} :
          LET row == [expenses[e] EXCEPT !.paid = paid, !.on = on] IN
          row \in ExpenseRow /\ row.day >= 1 /\ SameExpense(row, expenses[e])
    BY <2>1 DEF ExpenseRow, SameExpense
  <2>3. CASE BeginPaid(s, e)
    BY <2>2, <2>3, LedgerTypes DEF BeginPaid
  <2>4. CASE BeginPending(s, e)
    BY <2>2, <2>4 DEF BeginPending
  <2> QED
    BY <1>8, <2>3, <2>4
<1>9. ASSUME NEW e \in Entry, BeginRemove(s, e)
      PROVE  LedgerBegun(s)
  <2>1. Posted("remove", [entry |-> e, edit |-> FALSE, seen |-> expenses[e], row |-> None])
    BY <1>5, <1>9 DEF Posted, EntryTask, BeginRemove, BeginEntry
  <2> QED
    BY <1>1, <1>9, <2>1 DEF BeginRemove, BeginEntry
<1> QED
  BY <1>3, <1>4, <1>6, <1>7, <1>8, <1>9 DEF BeginLedger

\* A request that begins keeps the invariant.
LEMMA LedgerBeginKeeps ==
  ASSUME ExpensesInv, NEW s \in Session, BeginLedger(s)
  PROVE  ExpensesInv'
<1>1. PICK step \in LedgerStep \ {"idle"}, task \in LedgerTask :
        /\ pc' = [pc EXCEPT ![s] = step] /\ job' = [job EXCEPT ![s] = task]
        /\ UNCHANGED <<lock, clock, expenses, copies, ledger>> /\ Posted(step, task)
  BY LedgerBegins DEF LedgerBegun
<1>2. /\ pc'[s] = step /\ job'[s] = task
      /\ pc' \in [Session -> LedgerStep] /\ job' \in [Session -> LedgerTask]
      /\ \A t \in Session \ {s} : pc'[t] = pc[t] /\ job'[t] = job[t]
  BY <1>1, LedgerTypes
<1>3. LedgerKept(s)
  BY <1>1, UnchangedExpenses
<1>4. ExpensesTypeOK'
  BY <1>1, <1>2, LedgerTypes DEF ExpensesTypeOK, LedgerStep
<1>5. Posting(s)' /\ Generating(s)'
  BY <1>1, <1>2 DEF Posted, Posting, Generating, Generation
<1>6. ASSUME NEW t \in Session
      PROVE  Posting(t)' /\ Generating(t)'
  <2>1. CASE t = s
    BY <1>5, <2>1
  <2>2. CASE t # s
    BY <1>1, <1>2, <1>3, <2>2, LedgerOthers
  <2> QED
    BY <2>1, <2>2
<1> QED
  BY <1>2, <1>3, <1>4, <1>6 DEF ExpensesInv, LedgerKept

\* Every step keeps the invariant.
LEMMA LedgerStepKeeps ==
  ASSUME ExpensesInv, [ExpensesNext]_expenseVars
  PROVE  ExpensesInv'
<1>1. CASE \E s \in Session : BeginLedger(s)
  BY <1>1, LedgerBeginKeeps
<1>2. CASE \E s \in Session : LedgerRequest(s)
  BY <1>2, LedgerRequestKeeps
<1>3. ASSUME UNCHANGED <<pc, job, lock, expenses, copies, ledger>>, clock' \in Instant
      PROVE  ExpensesInv'
  BY <1>3, LedgerTypes
     DEF ExpensesInv, ExpensesTypeOK, Stored, CopiesUnique, Posting, Generating
<1>4. CASE ExpensesTick
  BY <1>3, <1>4, HorizonAssumption, LedgerTypes DEF ExpensesTick, Instant
<1>5. CASE UNCHANGED expenseVars
  BY <1>3, <1>5, LedgerTypes DEF expenseVars
<1>6. ExpensesNext => (\E s \in Session : BeginLedger(s)) \/ (\E s \in Session : LedgerRequest(s)) \/ ExpensesTick
  BY DEF ExpensesNext, BeginLedger, LedgerRequest
<1> QED
  BY <1>1, <1>2, <1>4, <1>5, <1>6

\* A business starts without expenses.
LEMMA LedgerInitInv == ExpensesInit => ExpensesInv
<1> SUFFICES ASSUME ExpensesInit
             PROVE  ExpensesInv
  OBVIOUS
<1>1. /\ pc = [s \in Session |-> "idle"] /\ job = [s \in Session |-> None]
      /\ lock = [x \in {"business"} |-> None] /\ clock = 0
      /\ expenses = [e \in Entry |-> None] /\ copies = {} /\ ledger = {}
  BY DEF ExpensesInit, BackendInit, NoExpenses
<1>2. ExpensesTypeOK
  BY <1>1, HorizonAssumption DEF ExpensesTypeOK, Instant
<1>3. job \in [Session -> LedgerTask]
  BY <1>1 DEF LedgerTask
<1>4. Stored /\ CopiesUnique
  BY <1>1 DEF Stored, CopiesUnique
<1>5. \A s \in Session : Posting(s) /\ Generating(s)
  BY <1>1 DEF Posting, Generating, Generation
<1> QED
  BY <1>2, <1>3, <1>4, <1>5 DEF ExpensesInv

\* The inductive invariant of the expenses.
LEMMA ExpensesInvariant == ExpensesSpec => []ExpensesInv
BY LedgerInitInv, LedgerStepKeeps, PTL DEF ExpensesSpec

\* The expenses of a business and the requests about them have their types.
THEOREM ExpensesTypes == ExpensesSpec => []ExpensesTypeOK
<1>1. ExpensesInv => ExpensesTypeOK
  BY DEF ExpensesInv
<1> QED
  BY <1>1, ExpensesInvariant, PTL

\* However often a month is generated, and however entries change in between, a month has one
\* untouched copy of a fixed expense, on a day that the month has.
THEOREM GeneratedOnce == ExpensesSpec => []CopiesUnique
<1>1. ExpensesInv => CopiesUnique
  BY DEF ExpensesInv
<1> QED
  BY <1>1, ExpensesInvariant, PTL
=============================================================================

------------------------------- MODULE Accounts --------------------------------
(***************************************************************************)
(* The accounts of a business come and go: the first one is the primary    *)
(* owner and is created under the row lock of the business, its owners add *)
(* and delete the others, and an owner moves to another e-mail with a code *)
(* sent to it.  Apart from the first account nothing is read under a lock: *)
(* requests test what they read, and the unique indexes of e-mail and      *)
(* professional decide at the commit.                                      *)
(***************************************************************************)
EXTENDS Backend

CONSTANTS
  User,          \* account identifiers, numbers
  Email,
  Barber,        \* professionals of the business
  EmailLife,     \* how long a code sent to a new e-mail lasts
  MaxManagement  \* bound: requests

UserRow ==
  [primary : BOOLEAN, barber : Barber \cup {None}, email : Email,
   pending : Email \cup {None}, code : Nat, expires : Nat]

ASSUME UserAssumption ==
  /\ None \notin User \cup Email \cup Barber \cup UserRow /\ User \subseteq Nat
  /\ EmailLife \in Nat

VARIABLES
  users,    \* the users table: rows of existing accounts, None for the others
  mailed,   \* history: codes sent, each with the e-mail it was sent to
  adopted,  \* history: codes confirmed, each with the e-mail the account took
  past      \* history: identifiers that were used

accountHistory == <<mailed, adopted, past>>
accountVars == <<pc, job, lock, clock, asked, users, accountHistory>>

AccountsTypeOK ==
  /\ pc \in [Session -> {"idle", "business", "check", "insert", "update", "delete"}]
  /\ clock \in Instant
  /\ lock \in [{"business"} -> Session \cup {None}]
  /\ \A u \in User : users[u] # None => users[u] \in UserRow /\ u \in past
  /\ \A m \in mailed : m \in Nat \X Email
  /\ \A m \in adopted : m \in Nat \X Email

NoAccounts ==
  /\ users = [u \in User |-> None]
  /\ mailed = {} /\ adopted = {} /\ past = {}

AccountsInit == BackendInit({"business"}) /\ NoAccounts

Existing == {u \in User : users[u] # None}
Owners == {u \in Existing : users[u].barber = None}

\* The indexes users.email and users.barber_id, and the queries before them.
EmailTaken(e, except) == \E u \in Existing \ {except} : users[u].email = e
LoginOf(b) == {u \in Existing : users[u].barber = b}

Row(e, b, primary) ==
  [primary |-> primary, barber |-> b, email |-> e, pending |-> None, code |-> 0, expires |-> 0]

Present(s, step, kind, u, row, code) ==
  /\ asked < MaxManagement
  /\ Begin(s, step, [kind |-> kind, user |-> u, seen |-> IF u = None THEN None ELSE users[u],
                     row |-> row, code |-> code])
  /\ UNCHANGED <<lock, clock, users, accountHistory>>

Manage(s, step, kind, u, row) == Present(s, step, kind, u, row, 0)

BeginBootstrap(s, e) == Manage(s, "business", "create", None, Row(e, None, TRUE))

\* The other requests come with the token of an owner, who is not the one they change.
Authorized(u) == \E o \in Owners : o # u

BeginCreateOwner(s, e) == Authorized(None) /\ Manage(s, "check", "create", None, Row(e, None, FALSE))

BeginCreateBarber(s, b, e) ==
  /\ Authorized(None) /\ LoginOf(b) = {}
  /\ Manage(s, "check", "create", None, Row(e, b, FALSE))

BeginUpdate(s, u, e) ==
  /\ u \in Existing /\ ~users[u].primary /\ Authorized(u)
  /\ Manage(s, "check", "update", u, [users[u] EXCEPT !.email = e])

\* Only the primary owner deletes other owners, any owner the login of a professional.
BeginDeleteUser(s, u) ==
  /\ u \in Existing /\ ~users[u].primary
  /\ users[u].barber = None => \E o \in Owners : users[o].primary
  /\ Authorized(u)
  /\ Manage(s, "delete", "delete", u, None)

\* A new code for an e-mail; codes are numbered as they are drawn.
BeginEmail(s, u, e) ==
  /\ u \in Owners
  /\ Manage(s, "check", "email", u, [users[u] EXCEPT !.pending = e, !.code = asked + 1,
                                                     !.expires = clock + EmailLife])

Confirm(s, u, c) ==
  Present(s, "check", "confirm", u, [users[u] EXCEPT !.email = users[u].pending, !.pending = None,
                                                     !.code = 0, !.expires = 0], c)

\* Faulty variant: the code is not compared.
BeginConfirmAny(s, u, c) ==
  /\ u \in Owners
  /\ users[u].pending # None /\ users[u].expires >= clock
  /\ Confirm(s, u, c)

\* With any other code the request changes nothing.
BeginConfirm(s, u, c) ==
  /\ u \in Owners
  /\ users[u].pending # None /\ users[u].expires >= clock /\ users[u].code = c
  /\ Confirm(s, u, c)

Refused(s) == Release(s) /\ Answer(s) /\ UNCHANGED <<clock, asked, users, accountHistory>>

\* Faulty variant: the business is read without its row lock.
LockBusinessUnlocked(s) ==
  /\ Goto(s, "business", "check")
  /\ Existing = {}
  /\ UNCHANGED <<job, lock, clock, asked, users, accountHistory>>

\* The accounts of the business are counted under its lock.
LockBusiness(s) ==
  /\ Goto(s, "business", "check")
  /\ Available(s, "business") /\ Hold(s, "business")
  /\ Existing = {}
  /\ UNCHANGED <<job, clock, asked, users, accountHistory>>

RefuseBootstrap(s) ==
  /\ pc[s] = "business" /\ Available(s, "business")
  /\ Existing # {}
  /\ Refused(s)

\* The e-mail the request wants: the pending one of an e-mail change.
Wanted(s) == IF job[s].kind = "email" THEN job[s].row.pending ELSE job[s].row.email

CheckEmail(s) ==
  /\ pc[s] = "check" /\ ~EmailTaken(Wanted(s), job[s].user)
  /\ pc' = [pc EXCEPT ![s] = IF job[s].kind = "create" THEN "insert" ELSE "update"]
  /\ UNCHANGED <<job, lock, clock, asked, users, accountHistory>>

RefuseEmail(s) == pc[s] = "check" /\ EmailTaken(Wanted(s), job[s].user) /\ Refused(s)

\* The unique indexes refuse what was free when it was checked.
Unique(s, row) ==
  /\ ~EmailTaken(row.email, job[s].user)
  /\ job[s].kind = "create" /\ row.barber # None => LoginOf(row.barber) = {}

\* The foreign key of an inserted account waits for the lock of the business.
InsertUser(s) == LET row == job[s].row IN
  /\ pc[s] = "insert" /\ Available(s, "business")
  /\ Unique(s, row)
  /\ \E u \in First(User \ past) : users' = [users EXCEPT ![u] = row] /\ past' = past \cup {u}
  /\ Release(s) /\ Answer(s)
  /\ UNCHANGED <<clock, asked, mailed, adopted>>

Written(s) == Flushed(users[job[s].user], job[s].seen, job[s].row)

UpdateUser(s) == LET u == job[s].user  row == job[s].row IN
  /\ pc[s] = "update" /\ u \in Existing
  /\ Unique(s, Written(s))
  /\ users' = [users EXCEPT ![u] = Written(s)]
  /\ mailed' = IF job[s].kind = "email" THEN mailed \cup {<<row.code, row.pending>>} ELSE mailed
  /\ adopted' = IF job[s].kind = "confirm" THEN adopted \cup {<<job[s].code, row.email>>} ELSE adopted
  /\ Release(s) /\ Answer(s)
  /\ UNCHANGED <<clock, asked, past>>

RefuseDuplicate(s) ==
  /\ \/ pc[s] = "insert" /\ ~Unique(s, job[s].row)
     \/ pc[s] = "update" /\ job[s].user \in Existing /\ ~Unique(s, Written(s))
  /\ Refused(s)

DeleteUser(s) ==
  /\ pc[s] = "delete"
  /\ users' = [users EXCEPT ![job[s].user] = None]
  /\ Release(s) /\ Answer(s)
  /\ UNCHANGED <<clock, asked, accountHistory>>

\* The account was deleted under the request, the connection or the worker is lost.
AbortManagement(s) == pc[s] # "idle" /\ Refused(s)

AccountsTick ==
  /\ clock < Horizon
  /\ clock' = clock + 1
  /\ UNCHANGED <<pc, job, lock, asked, users, accountHistory>>

AccountsStep ==
  \/ \E s \in Session :
       \/ LockBusiness(s) \/ RefuseBootstrap(s) \/ CheckEmail(s) \/ RefuseEmail(s)
       \/ InsertUser(s) \/ UpdateUser(s) \/ RefuseDuplicate(s) \/ DeleteUser(s) \/ AbortManagement(s)
  \/ AccountsTick

BeginAccount(s) == \E e \in Email :
  \/ BeginBootstrap(s, e) \/ BeginCreateOwner(s, e)
  \/ \E b \in Barber : BeginCreateBarber(s, b, e)
  \/ \E u \in User : BeginUpdate(s, u, e) \/ BeginDeleteUser(s, u) \/ BeginEmail(s, u, e)
  \/ \E u \in User : \E m \in mailed : BeginConfirm(s, u, m[1])

AccountsNext == (\E s \in Session : BeginAccount(s)) \/ AccountsStep

AccountsSpec == AccountsInit /\ [][AccountsNext]_accountVars

\* A business with accounts has exactly one primary owner, although first accounts are
\* requested together and owners delete each other.
OnePrimaryOwner == Existing # {} => Cardinality({u \in Existing : users[u].primary}) = 1

\* No two requests for a new e-mail of one account are served together.
EmailsApart ==
  \A r, s \in Serving :
    job[r].kind = "email" /\ job[s].kind = "email" /\ job[r].user = job[s].user => r = s

\* An account takes only an e-mail that the confirmed code was sent to, if its requests for a new
\* one do not overlap.
EmailProven == adopted \subseteq mailed
=============================================================================

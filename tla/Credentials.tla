------------------------------ MODULE Credentials ------------------------------
(***************************************************************************)
(* The accounts of a business as they sign in: the lock after wrong        *)
(* passwords, the version that every token carries, suspension, and codes  *)
(* that reset a password.  Sign-in and reset read the account under its    *)
(* row lock.  The other requests keep the account they read and later      *)
(* write its changed columns, the version as a value and not as an         *)
(* increment.  Passwords are abstracted to right and wrong; a stale        *)
(* request with a wrong current password changes nothing and is left out.  *)
(***************************************************************************)
EXTENDS Backend, Sequences

CONSTANTS
  Account,        \* accounts of one business
  Professional,   \* those linked to a professional's profile, not to an owner
  Managed,        \* those another owner may suspend and delete: all but the primary owner
  LoginLimit,     \* the wrong password that locks the account
  LockTime,       \* how long it stays locked
  ResetCooldown,  \* the least time between two reset codes
  ResetLife,      \* how long a reset code lasts
  ResetGuesses,   \* the wrong answer that destroys a reset code
  MaxSignIns      \* bound: requests

SignInRow ==
  [active : BOOLEAN, version : Nat, failures : 0..LoginLimit - 1, locked : Nat,
   code : Nat, expires : Nat, requested : Int, attempts : 0..ResetGuesses]

ASSUME AccountAssumption ==
  /\ Professional \subseteq Account /\ Managed \subseteq Account
  /\ None \notin Account \cup SignInRow \cup BOOLEAN /\ Account \cap ({"profile"} \X Account) = {}
  /\ LoginLimit \in Nat \ {0} /\ LockTime \in Nat \ {0}
  /\ ResetCooldown \in Nat /\ ResetLife \in Nat /\ ResetGuesses \in Nat \ {0}

VARIABLES
  account,  \* the users table; None when deleted
  profile,  \* whether the profile of a professional is active
  tokens,   \* history: tokens given, <<account, version>>; that they also expire is left out
  wrong,    \* history: when each account met wrong passwords since the count was cleared
  resets,   \* history: reset codes drawn
  redeemed  \* history: reset codes accepted

signInHistory == <<tokens, wrong, resets, redeemed>>
credentialVars == <<pc, job, lock, clock, asked, account, profile, signInHistory>>

Profile(a) == <<"profile", a>>
CredentialRow == Account \cup {Profile(a) : a \in Professional}

NewAccount ==
  [active |-> TRUE, version |-> 0, failures |-> 0, locked |-> 0,
   code |-> 0, expires |-> 0, requested |-> -ResetCooldown, attempts |-> 0]

CredentialsTypeOK ==
  /\ pc \in [Session -> {"idle", "lock", "decide", "profile", "write"}]
  /\ clock \in Instant
  /\ lock \in [CredentialRow -> Session \cup {None}]
  /\ \A a \in Account : account[a] # None => account[a] \in SignInRow /\ account[a].code <= resets
  /\ profile \in [Professional -> BOOLEAN]
  /\ tokens \subseteq Account \X Nat
  /\ wrong \in [Account -> Seq(Instant)]
  /\ redeemed \subseteq 1..resets

NoSignIns ==
  /\ account = [a \in Account |-> NewAccount]
  /\ profile = [a \in Professional |-> TRUE]
  /\ tokens = {} /\ wrong = [a \in Account |-> <<>>]
  /\ resets = 0 /\ redeemed = {}

CredentialsInit == BackendInit(CredentialRow) /\ NoSignIns

Open(a) == a \in Professional => profile[a]

\* get_current_user: the token's account, its version and, for a professional, its profile.
Valid(t) ==
  /\ account[t[1]] # None /\ account[t[1]].active /\ account[t[1]].version = t[2]
  /\ Open(t[1])

Call(kind, a) ==
  [kind |-> kind, account |-> a, password |-> FALSE, code |-> 0, active |-> None, was |-> None, seen |-> None]

BeginCall(s, step, call) ==
  /\ asked < MaxSignIns
  /\ Begin(s, step, call)
  /\ UNCHANGED <<lock, clock, account, profile, signInHistory>>

\* POST /auth/token with a right or a wrong password, and the two steps of a reset.
BeginLogin(s, a) ==
  \E right \in BOOLEAN : BeginCall(s, "lock", [Call("login", a) EXCEPT !.password = right])
BeginReset(s, a) ==
  \/ BeginCall(s, "lock", Call("request", a))
  \/ \E c \in 0..resets : BeginCall(s, "lock", [Call("reset", a) EXCEPT !.code = c])

BeginStale(s, a, kind, password, active) ==
  /\ account[a] # None
  /\ BeginCall(s, "write", [Call(kind, a) EXCEPT !.password = password, !.active = active,
                                                 !.seen = account[a]])

\* An owner about the own account, with a token that get_current_user accepts.
BeginOwn(s, a) ==
  /\ a \notin Professional
  /\ \E t \in tokens : t[1] = a /\ Valid(t)
  /\ BeginStale(s, a, "change", TRUE, None) \/ BeginStale(s, a, "revoke", FALSE, None)

\* Another owner about the account: a password, an activity, both or only other columns.
BeginManage(s, a) ==
  /\ a \in Managed
  /\ \E password \in BOOLEAN, active \in BOOLEAN \cup {None} :
       BeginStale(s, a, "update", password, active)
BeginDelete(s, a) == a \in Managed /\ BeginStale(s, a, "delete", FALSE, None)

\* PATCH of a professional's profile that states is_active.
BeginProfile(s, a) ==
  /\ a \in Professional
  /\ \E active \in BOOLEAN :
       BeginCall(s, "profile", [Call("profile", a) EXCEPT !.active = active, !.was = profile[a]])

\* Faulty variant: the account is read without its row lock.
LockAccountUnlocked(s) ==
  /\ Goto(s, "lock", "decide")
  /\ account[job[s].account] # None
  /\ job' = [job EXCEPT ![s].seen = account[job[s].account]]
  /\ UNCHANGED <<lock, clock, asked, account, profile, signInHistory>>

\* get_by_email_for_update reads the account again after the wait.
LockAccount(s) == LET a == job[s].account IN
  /\ Goto(s, "lock", "decide")
  /\ account[a] # None
  /\ Available(s, a) /\ Hold(s, a)
  /\ job' = [job EXCEPT ![s].seen = account[a]]
  /\ UNCHANGED <<clock, asked, account, profile, signInHistory>>

\* A commit writes the columns that changed since the row was read, if there still is one.
Store(s, row) == LET a == job[s].account IN
  /\ account[a] # None
  /\ account' = [account EXCEPT ![a] = Flushed(@, job[s].seen, row)]
  /\ Release(s) /\ Answer(s)
  /\ UNCHANGED <<clock, asked>>

Refuse(s) ==
  /\ Release(s) /\ Answer(s)
  /\ UNCHANGED <<clock, asked, account, profile, signInHistory>>

\* No such account, or one that another request deletes in the meantime.
RefuseUnknown(s) == pc[s] = "lock" /\ account[job[s].account] = None /\ Refuse(s)

Deciding(s, kind) == pc[s] = "decide" /\ job[s].kind = kind

MayLogin(s) ==
  /\ job[s].seen.active /\ job[s].seen.locked <= clock
  /\ Open(job[s].account)

RefuseLogin(s) == Deciding(s, "login") /\ ~MayLogin(s) /\ Refuse(s)

Cleared(row) == [row EXCEPT !.failures = 0, !.locked = 0]

\* Faulty variant: the lock comes one wrong password late.
RejectPasswordLate(s) == LET row == job[s].seen  a == job[s].account IN
  /\ Deciding(s, "login") /\ MayLogin(s) /\ ~job[s].password
  /\ Store(s, IF row.failures + 1 > LoginLimit
              THEN [row EXCEPT !.failures = 0, !.locked = clock + LockTime]
              ELSE [row EXCEPT !.failures = @ + 1])
  /\ wrong' = [wrong EXCEPT ![a] = Append(@, clock)]
  /\ UNCHANGED <<profile, tokens, resets, redeemed>>

RejectPassword(s) == LET row == job[s].seen  a == job[s].account IN
  /\ Deciding(s, "login") /\ MayLogin(s) /\ ~job[s].password
  /\ Store(s, IF row.failures + 1 >= LoginLimit
              THEN [row EXCEPT !.failures = 0, !.locked = clock + LockTime]
              ELSE [row EXCEPT !.failures = @ + 1])
  /\ wrong' = [wrong EXCEPT ![a] = Append(@, clock)]
  /\ UNCHANGED <<profile, tokens, resets, redeemed>>

AcceptPassword(s) == LET a == job[s].account IN
  /\ Deciding(s, "login") /\ MayLogin(s) /\ job[s].password
  /\ Store(s, Cleared(job[s].seen))
  /\ tokens' = tokens \cup {<<a, job[s].seen.version>>}
  /\ wrong' = [wrong EXCEPT ![a] = <<>>]
  /\ UNCHANGED <<profile, resets, redeemed>>

MayReset(s) == job[s].account \notin Professional /\ job[s].seen.active

DrawReset(s) ==
  /\ Deciding(s, "request") /\ MayReset(s)
  /\ job[s].seen.requested + ResetCooldown <= clock
  /\ Store(s, [job[s].seen EXCEPT !.code = resets + 1, !.expires = clock + ResetLife,
                                  !.requested = clock, !.attempts = 0])
  /\ resets' = resets + 1
  /\ UNCHANGED <<profile, tokens, wrong, redeemed>>

RefuseDraw(s) ==
  /\ Deciding(s, "request")
  /\ ~MayReset(s) \/ job[s].seen.requested + ResetCooldown > clock
  /\ Refuse(s)

CodeUsable(row) == row.code # 0 /\ row.expires >= clock /\ row.attempts < ResetGuesses

RefuseReset(s) ==
  /\ Deciding(s, "reset")
  /\ ~MayReset(s) \/ ~CodeUsable(job[s].seen)
  /\ Refuse(s)

Missed(row) ==
  IF row.attempts + 1 >= ResetGuesses
  THEN [row EXCEPT !.attempts = @ + 1, !.code = 0, !.expires = 0]
  ELSE [row EXCEPT !.attempts = @ + 1]

RejectReset(s) ==
  /\ Deciding(s, "reset") /\ MayReset(s) /\ CodeUsable(job[s].seen)
  /\ job[s].code # job[s].seen.code
  /\ Store(s, Missed(job[s].seen))
  /\ UNCHANGED <<profile, signInHistory>>

\* Faulty variant: a code that was redeemed stays with the account.
ResetRowKeeping(row) ==
  [Cleared(row) EXCEPT !.version = @ + 1, !.requested = -ResetCooldown, !.attempts = 0]

ResetRow(row) ==
  [Cleared(row) EXCEPT !.version = @ + 1, !.code = 0, !.expires = 0,
                       !.requested = -ResetCooldown, !.attempts = 0]

AcceptReset(s) == LET a == job[s].account IN
  /\ Deciding(s, "reset") /\ MayReset(s) /\ CodeUsable(job[s].seen)
  /\ job[s].code = job[s].seen.code
  /\ Store(s, ResetRow(job[s].seen))
  /\ redeemed' = redeemed \cup {job[s].code}
  /\ wrong' = [wrong EXCEPT ![a] = <<>>]
  /\ UNCHANGED <<profile, tokens, resets>>

\* Faulty variant: a new activity leaves the version.
ActivatedSameVersion(row, active) == [row EXCEPT !.active = active]

Activated(row, active) ==
  [row EXCEPT !.active = active, !.version = IF row.active # active THEN @ + 1 ELSE @]

\* The row a stale request assigns to the account it read.
Assigned(call) ==
  LET row == IF call.kind = "revoke" THEN [call.seen EXCEPT !.version = @ + 1]
             ELSE IF call.password THEN [Cleared(call.seen) EXCEPT !.version = @ + 1]
             ELSE call.seen
  IN IF call.active = None THEN row ELSE Activated(row, call.active)

\* The flush of the profile's activity takes the row lock of the profile; the account is
\* read after it.
FlushProfile(s) == LET a == job[s].account IN
  /\ Goto(s, "profile", "write")
  /\ IF job[s].active = job[s].was THEN UNCHANGED lock
     ELSE Available(s, Profile(a)) /\ Hold(s, Profile(a))
  /\ job' = [job EXCEPT ![s].seen = account[a]]
  /\ UNCHANGED <<clock, asked, account, profile, signInHistory>>

ProfileAfter(s) == LET a == job[s].account IN
  IF job[s].kind = "profile" /\ lock[Profile(a)] = s
  THEN [profile EXCEPT ![a] = job[s].active] ELSE profile

Writing(s) == pc[s] = "write" /\ Available(s, job[s].account)

WriteStale(s) == LET a == job[s].account IN
  /\ Writing(s) /\ job[s].kind # "delete"
  /\ job[s].seen # None
  /\ Store(s, Assigned(job[s]))
  /\ profile' = ProfileAfter(s)
  /\ wrong' = IF job[s].password THEN [wrong EXCEPT ![a] = <<>>] ELSE wrong
  /\ UNCHANGED <<tokens, resets, redeemed>>

\* A profile without an account.
WriteProfileAlone(s) ==
  /\ Writing(s) /\ job[s].seen = None
  /\ profile' = ProfileAfter(s)
  /\ Release(s) /\ Answer(s)
  /\ UNCHANGED <<clock, asked, account, signInHistory>>

DeleteAccount(s) ==
  /\ Writing(s) /\ job[s].kind = "delete"
  /\ account' = [account EXCEPT ![job[s].account] = None]
  /\ Release(s) /\ Answer(s)
  /\ UNCHANGED <<clock, asked, profile, signInHistory>>

\* The account was deleted under the request, the connection or the worker is lost.
AbortSignIn(s) == pc[s] # "idle" /\ Refuse(s)

CredentialsTick ==
  /\ clock < Horizon
  /\ clock' = clock + 1
  /\ UNCHANGED <<pc, job, lock, asked, account, profile, signInHistory>>

CredentialsStep ==
  \/ \E s \in Session :
       \/ LockAccount(s) \/ RefuseUnknown(s) \/ AbortSignIn(s)
       \/ RefuseLogin(s) \/ RejectPassword(s) \/ AcceptPassword(s)
       \/ DrawReset(s) \/ RefuseDraw(s)
       \/ RefuseReset(s) \/ RejectReset(s) \/ AcceptReset(s)
       \/ FlushProfile(s) \/ WriteStale(s) \/ WriteProfileAlone(s) \/ DeleteAccount(s)
  \/ CredentialsTick

BeginManagement(s, a) == BeginOwn(s, a) \/ BeginManage(s, a) \/ BeginDelete(s, a) \/ BeginProfile(s, a)

CredentialsNext ==
  \/ \E s \in Session, a \in Account :
       BeginLogin(s, a) \/ BeginReset(s, a) \/ BeginManagement(s, a)
  \/ CredentialsStep

CredentialsSpec == CredentialsInit /\ [][CredentialsNext]_credentialVars

\* However sign-ins race with each other and with changes of the account, no span as long
\* as the lock holds more wrong passwords than the limit, until the right one or a new
\* password clears the count.
GuessesBounded ==
  \A a \in Account : \A i \in 1..Len(wrong[a]) :
    Cardinality({j \in i..Len(wrong[a]) : wrong[a][j] < wrong[a][i] + LockTime}) <= LoginLimit

LiveReset(a) == IF account[a] = None THEN 0 ELSE account[a].code

\* The reset codes of the accounts keep the promises of a one-time code, even while other
\* requests write columns of the account they read before.
ResetCode == INSTANCE OneTimeCode WITH
  Subject <- Account, GuessLimit <- ResetGuesses, CodeLife <- ResetLife,
  live <- [a \in Account |-> LiveReset(a)],
  misses <- [a \in Account |-> IF LiveReset(a) = 0 THEN 0 ELSE account[a].attempts],
  until <- [a \in Account |-> IF LiveReset(a) = 0 THEN 0 ELSE account[a].expires],
  drawn <- resets,
  accepted <- redeemed

ResetImplementsOneTimeCode == ResetCode!Spec

\* Between the reading and the commit of a request that writes the version it read, no other
\* request is about to write the version of its account.
Renews(s) ==
  \/ pc[s] = "write" /\ job[s].kind # "delete"
  \/ Deciding(s, "reset")
VersionsApart ==
  \A r, s \in Session :
    Renews(r) /\ Renews(s) /\ pc[r] = "write" /\ job[r].account = job[s].account => r = s

TokensStayRefused == \A t \in tokens : ~Valid(t) => ~Valid(t)'

\* A token that was refused is never accepted again: no suspension, reactivation, reset,
\* change or revocation brings an old version back.
NoTokenRevives == [][TokensStayRefused]_credentialVars
=============================================================================

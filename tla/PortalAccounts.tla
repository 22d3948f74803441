--------------------------- MODULE PortalAccounts ---------------------------
(***************************************************************************)
(* Accounts of the portal, their sessions and the brake on logins          *)
(* (portal_auth.py and the first half of portal_store.py).  A request is   *)
(* several transactions: a login is counted, the account is read, the slow *)
(* password check runs, the session is inserted and only then the session  *)
(* of the old cookie is deleted.  An administrator is authenticated in one *)
(* transaction and acts in another.  Meanwhile others are enabled and      *)
(* disabled.  A request may end between any two of them.                   *)
(*                                                                         *)
(* A counting transaction belongs to the window of 15 minutes in which it  *)
(* began (NOW() is its first moment); it writes when it gets to it, so a   *)
(* window may have passed in between.                                      *)
(***************************************************************************)
EXTENDS FiniteSetsExt

CONSTANTS
  Admins,        \* usernames whose role is admin; their accounts are there
  Newcomers,     \* usernames that may register
  Orders,        \* numbers of the demonstration orders, 8000..9999
  Tokens,        \* session tokens, each issued once
  Requests,      \* requests in flight, all from one address
  UserLimit, AddressLimit,   \* admitted attempts in a window of 15 minutes
  MaxWindow,     \* bound: windows after the first
  Nobody

ASSUME OrdersAssumption == Orders \subseteq Nat
ASSUME LimitsAssumption ==
  /\ UserLimit \in Nat \ {0} /\ AddressLimit \in Nat /\ UserLimit <= AddressLimit
  /\ MaxWindow \in Nat

Users == Admins \cup Newcomers
Address == "address"
Registering == "register"

ASSUME NamesAssumption == /\ Nobody \notin Users \cup Orders \cup Tokens
                          /\ {Address, Registering} \cap Users = {}
ASSUME AdminsAssumption == Admins # {}

VARIABLES
  accounts,      \* portal_accounts
  owner,         \* the owners of the demonstration orders
  sessions,      \* portal_sessions, and which tokens were never issued
  window,        \* the database's clock, in windows of 15 minutes
  attempts,      \* portal_login_attempts; beyond the limit all counts are one
  requests,
  admitted,      \* history: attempts let through, by the window they began in
  late           \* history: attempts written after one of a later window

accountVars == <<accounts, owner, sessions, window, attempts, requests, admitted, late>>
brakeVars == <<window, attempts, admitted, late>>

NoAccount == [active |-> FALSE, order |-> Nobody, there |-> FALSE]
Unissued == [state |-> "unissued", user |-> Nobody]
Gone == [state |-> "gone", user |-> Nobody]
Ready == [op |-> "none", at |-> "none", user |-> Nobody, target |-> Nobody, active |-> FALSE,
          old |-> Nobody, window |-> 0]
Scopes == Users \cup {Address, Registering}
Windows == 0 .. MaxWindow

Active(u) == accounts[u].there /\ accounts[u].active
ActiveAdmins == {a \in Admins : Active(a)}

\* session(): the row has not expired and its account is active.
Valid(t) == sessions[t].state = "open" /\ Active(sessions[t].user)

\* The cookie a request brings: none, or any token that was ever issued.
Cookies == {Nobody} \cup {t \in Tokens : sessions[t].state # "unissued"}

Becomes(r, request) == requests' = [requests EXCEPT ![r] = request]
Goes(r, at) == Becomes(r, [requests[r] EXCEPT !.at = at])
Ends(r) == Becomes(r, Ready)
At(r, op, at) == requests[r].op \in op /\ requests[r].at = at

----------------------------------------------------------------------------
(* The brake: every attempt counts, admitted or not.                       *)

LimitOf(scope) == IF scope = Address THEN AddressLimit ELSE UserLimit

\* The upsert: a row of another window, an earlier or a later one, starts
\* again from one.
Count(scope, w) == IF attempts[scope].window = w THEN attempts[scope].count + 1 ELSE 1

\* Seeded fault: the row keeps the window it was made in.
UpsertInOldWindow(scope, w) ==
  [window |-> attempts[scope].window, count |-> Min({Count(scope, w), LimitOf(scope)})]

Upsert(scope, w) == [window |-> w, count |-> Min({Count(scope, w), LimitOf(scope)})]

\* A registration has only scopes of its address, and of these the user's
\* limit is the narrower.
ScopesOf(request) == IF request.op = "login" THEN {request.user, Address} ELSE {Registering}

\* Seeded fault: the last scope of the loop alone decides.
AdmittedByLast(scopes, w) == Address \in scopes => Count(Address, w) <= AddressLimit

Admitted(scopes, w) == \A scope \in scopes : Count(scope, w) <= LimitOf(scope)

----------------------------------------------------------------------------
(* POST /auth/login and /auth/register                                     *)

\* The transaction that counts begins.
Counting(r, op, u, cookie) ==
  /\ requests[r] = Ready
  /\ Becomes(r, [Ready EXCEPT !.op = op, !.at = "counting", !.user = u, !.old = cookie,
                              !.window = window])
  /\ UNCHANGED <<accounts, owner, sessions, brakeVars>>

Login(r, u, cookie) == Counting(r, "login", u, cookie)
AskToRegister(r, u, cookie) == Counting(r, "register", u, cookie)

\* admit_login: the rows of all scopes in one transaction.
AdmitLogin(r) ==
  /\ requests[r].at = "counting"
  /\ LET w == requests[r].window
         scopes == ScopesOf(requests[r])
     IN  /\ attempts' = [scope \in Scopes |->
                           IF scope \in scopes THEN Upsert(scope, w) ELSE attempts[scope]]
         /\ late' = [scope \in Scopes |->
                       IF scope \in scopes /\ w < attempts[scope].window
                       THEN late[scope] + 1 ELSE late[scope]]
         /\ IF Admitted(scopes, w)
            THEN /\ Becomes(r, [requests[r] EXCEPT !.at = "admitted", !.window = 0])
                 /\ admitted' = [admitted EXCEPT ![w] =
                      [scope \in Scopes |-> IF scope \in scopes THEN @[scope] + 1 ELSE @[scope]]]
            ELSE Ends(r) /\ UNCHANGED admitted
  /\ UNCHANGED <<accounts, owner, sessions, window>>

\* account() and verify_password: the account is active and the password is
\* right, or the answer is 401 and tells neither from the other.
CheckPassword(r) ==
  /\ At(r, {"login"}, "admitted")
  /\ \/ Active(requests[r].user) /\ Goes(r, "known")
     \/ Ends(r)
  /\ UNCHANGED <<accounts, owner, sessions, brakeVars>>

\* Seeded fault: the name is looked up among the active accounts.
RegisterIfInactive(r) ==
  /\ At(r, {"register"}, "admitted")
  /\ LET u == requests[r].user
         free == {o \in Orders : owner[o] = Nobody}
     IN  IF Active(u) \/ free = {}
         THEN Ends(r) /\ UNCHANGED <<accounts, owner>>
         ELSE /\ accounts' = [accounts EXCEPT ![u] =
                                [active |-> TRUE, order |-> Min(free), there |-> TRUE]]
              /\ owner' = [owner EXCEPT ![Min(free)] = u]
              /\ Goes(r, "known")
  /\ UNCHANGED <<sessions, brakeVars>>

\* register: account, order and policy in one transaction under the lock
\* 'portal-register', or a conflict.
Register(r) ==
  /\ At(r, {"register"}, "admitted")
  /\ LET u == requests[r].user
         free == {o \in Orders : owner[o] = Nobody}
     IN  IF accounts[u].there \/ free = {}
         THEN Ends(r) /\ UNCHANGED <<accounts, owner>>
         ELSE /\ accounts' = [accounts EXCEPT ![u] =
                                [active |-> TRUE, order |-> Min(free), there |-> TRUE]]
              /\ owner' = [owner EXCEPT ![Min(free)] = u]
              /\ Goes(r, "known")
  /\ UNCHANGED <<sessions, brakeVars>>

\* Seeded fault: the account is not read again.
CreateSessionAsKnown(r, t) ==
  /\ At(r, {"login", "register"}, "known")
  /\ sessions[t] = Unissued
  /\ sessions' = [x \in Tokens |->
                    IF x = t THEN [state |-> "open", user |-> requests[r].user]
                    ELSE IF sessions[x].state = "expired" THEN Gone ELSE sessions[x]]
  /\ Goes(r, "replace")
  /\ UNCHANGED <<accounts, owner, brakeVars>>

\* establish_session, create_session: with the account's row locked.  What
\* has expired is swept out.
CreateSession(r, t) ==
  /\ At(r, {"login", "register"}, "known")
  /\ sessions[t] = Unissued
  /\ IF Active(requests[r].user)
     THEN /\ sessions' = [x \in Tokens |->
                            IF x = t THEN [state |-> "open", user |-> requests[r].user]
                            ELSE IF sessions[x].state = "expired" THEN Gone ELSE sessions[x]]
          /\ Goes(r, "replace")
     ELSE Ends(r) /\ UNCHANGED sessions
  /\ UNCHANGED <<accounts, owner, brakeVars>>

\* revoke_session of the cookie that came with a login or a logout.
RevokeSession(r) ==
  /\ At(r, {"login", "register", "logout"}, "replace")
  /\ sessions' = IF requests[r].old = Nobody THEN sessions
                 ELSE [sessions EXCEPT ![requests[r].old] = Gone]
  /\ Ends(r)
  /\ UNCHANGED <<accounts, owner, brakeVars>>

Logout(r, t) ==
  /\ requests[r] = Ready
  /\ Valid(t)
  /\ Becomes(r, [Ready EXCEPT !.op = "logout", !.at = "replace", !.old = t])
  /\ UNCHANGED <<accounts, owner, sessions, brakeVars>>

----------------------------------------------------------------------------
(* PATCH /auth/admin/users/{username}                                      *)

\* administrator(): the session and the role.
Administrator(r, t, target, active) ==
  /\ requests[r] = Ready
  /\ Valid(t) /\ sessions[t].user \in Admins
  /\ Becomes(r, [Ready EXCEPT !.op = "status", !.at = "authorised", !.user = sessions[t].user,
                              !.target = target, !.active = active])
  /\ UNCHANGED <<accounts, owner, sessions, brakeVars>>

\* Seeded fault: whoever was authenticated acts, and every administrator
\* counts as an available one.
MaySetByRole(actor, target, active) ==
  /\ accounts[target].there
  /\ ~active => actor # target /\ (target \in Admins => Cardinality(Admins) > 1)

\* The checks under the lock 'portal-admin'.
MaySet(actor, target, active) ==
  /\ Active(actor)
  /\ accounts[target].there
  /\ ~active => actor # target /\ (target \in Admins => Cardinality(ActiveAdmins) > 1)

\* Seeded fault: the sessions of a disabled account are left to expire.
SetAccountActiveOnly(r) ==
  /\ At(r, {"status"}, "authorised")
  /\ LET target == requests[r].target
         active == requests[r].active
     IN  IF MaySet(requests[r].user, target, active)
         THEN accounts' = [accounts EXCEPT ![target].active = active]
         ELSE UNCHANGED accounts
  /\ Ends(r)
  /\ UNCHANGED <<owner, sessions, brakeVars>>

\* set_account_active, one transaction.
SetAccountActive(r) ==
  /\ At(r, {"status"}, "authorised")
  /\ LET target == requests[r].target
         active == requests[r].active
     IN  IF MaySet(requests[r].user, target, active)
         THEN /\ accounts' = [accounts EXCEPT ![target].active = active]
              /\ sessions' = [t \in Tokens |->
                                IF ~active /\ sessions[t].user = target THEN Gone ELSE sessions[t]]
         ELSE UNCHANGED <<accounts, sessions>>
  /\ Ends(r)
  /\ UNCHANGED <<owner, brakeVars>>

----------------------------------------------------------------------------
\* Eight hours pass for a session.
Expire(t) ==
  /\ sessions[t].state = "open"
  /\ sessions' = [sessions EXCEPT ![t].state = "expired"]
  /\ UNCHANGED <<accounts, owner, requests, brakeVars>>

\* The next window of 15 minutes begins; the rows stay until they are written.
NextWindow ==
  /\ window < MaxWindow
  /\ window' = window + 1
  /\ UNCHANGED <<accounts, owner, sessions, attempts, requests, admitted, late>>

\* The process or the connection dies.
Abort(r) ==
  /\ requests[r] # Ready
  /\ Ends(r)
  /\ UNCHANGED <<accounts, owner, sessions, brakeVars>>

AccountsInit ==
  /\ accounts = [u \in Users |-> IF u \in Admins
                                 THEN [active |-> TRUE, order |-> Nobody, there |-> TRUE]
                                 ELSE NoAccount]
  /\ owner = [o \in Orders |-> Nobody]
  /\ sessions = [t \in Tokens |-> Unissued]
  /\ window = 0
  /\ attempts = [scope \in Scopes |-> [window |-> 0, count |-> 0]]
  /\ requests = [r \in Requests |-> Ready]
  /\ admitted = [w \in Windows |-> [scope \in Scopes |-> 0]]
  /\ late = [scope \in Scopes |-> 0]

\* What asks for admission, counts and gives up; none of it reads an account.
BrakeNext ==
  \E r \in Requests :
    \/ \E u \in Users, cookie \in Cookies : Login(r, u, cookie)
    \/ \E u \in Newcomers, cookie \in Cookies : AskToRegister(r, u, cookie)
    \/ AdmitLogin(r) \/ Abort(r)

AccountsNext ==
  \/ BrakeNext
  \/ \E r \in Requests :
       \/ CheckPassword(r) \/ Register(r) \/ RevokeSession(r)
       \/ \E t \in Tokens : CreateSession(r, t) \/ Logout(r, t)
       \/ \E t \in Tokens, target \in Users, active \in BOOLEAN : Administrator(r, t, target, active)
       \/ SetAccountActive(r)
  \/ \E t \in Tokens : Expire(t)
  \/ NextWindow

AccountsSpec == AccountsInit /\ [][AccountsNext]_accountVars

----------------------------------------------------------------------------
(* Correctness.                                                            *)

Accounts == [active : BOOLEAN, order : Orders \cup {Nobody}, there : BOOLEAN]
Pending ==
  [op : {"none", "login", "register", "logout", "status"},
   at : {"none", "counting", "admitted", "known", "replace", "authorised"},
   user : Users \cup {Nobody}, target : Users \cup {Nobody}, active : BOOLEAN,
   old : Tokens \cup {Nobody}, window : Windows]

\* A request knows whose it is: only newcomers register, and only an
\* administrator was let through to change an account.
WellFormed(request) ==
  /\ request.op \in {"login", "register"} => request.user \in Users
  /\ request.at = "counting" => request.op \in {"login", "register"}
  /\ request.op = "register" => request.user \in Newcomers
  /\ request.at = "authorised" => request.user \in Admins /\ request.target \in Users

\* Types; an account that registered and its demonstration order belong to
\* each other, since register writes both or nothing.
AccountsTypeOK ==
  /\ accounts \in [Users -> Accounts]
  /\ owner \in [Orders -> Newcomers \cup {Nobody}]
  /\ \A u \in Newcomers, o \in Orders : owner[o] = u <=> accounts[u].order = o
  /\ sessions \in [Tokens -> {Unissued, Gone} \cup [state : {"open", "expired"}, user : Users]]
  /\ \A t \in Tokens : sessions[t].user # Nobody => accounts[sessions[t].user].there
  /\ window \in Windows
  /\ attempts \in [Scopes -> [window : Windows, count : Nat]]
  /\ \A scope \in Scopes : attempts[scope].count <= LimitOf(scope)
  /\ admitted \in [Windows -> [Scopes -> Nat]]
  /\ late \in [Scopes -> Nat]
  /\ requests \in [Requests -> Pending]
  /\ \A r \in Requests : WellFormed(requests[r])

\* portal_store.py, set_account_active: administrators who disable each other
\* at the same time never leave the system without one who is active.
AdminRemains == ActiveAdmins # {}

\* create_session's comment: a token that was issued and does not open the
\* portal never opens it again, even when the account is enabled again and a
\* login was under way when it was disabled.
DeadSessionsStayDead ==
  [][\A t \in Tokens : sessions[t].state # "unissued" /\ ~Valid(t) => ~Valid(t)']_accountVars

\* The brake holds for all requests together: of the attempts that began in
\* one window no more are let through than the limits of the name and of the
\* address say.  An attempt that is written after one of a later window gives
\* its name and its address one more turn, and nothing else does.
GuessesBounded ==
  \A w \in Windows, scope \in Scopes :
    admitted[w][scope] <= LimitOf(scope) * (1 + late[scope])

\* The invariant of the accounts: sessions have an account, somebody
\* administers them, and passwords cannot be tried without limit.
AccountsInv == AccountsTypeOK /\ AdminRemains /\ GuessesBounded

----------------------------------------------------------------------------
(* Why the invariant holds: with the following it goes by induction.       *)

\* A session opens the portal as long as it is open: who disables an account
\* takes its sessions away.
OpenIsActive == \A t \in Tokens : sessions[t].state = "open" => Active(sessions[t].user)

\* Nobody has an order before the account is there.
OrderWithAccount == \A u \in Users : ~accounts[u].there => accounts[u].order = Nobody

\* Of the turns a scope had, the row knows one; of a later window none was
\* let through but in the turns of those who came late.
Turn(w, scope) ==
  IF w = attempts[scope].window THEN attempts[scope].count
  ELSE IF w < attempts[scope].window THEN LimitOf(scope) ELSE 0

GuessesCounted ==
  \A w \in Windows, scope \in Scopes :
    admitted[w][scope] <= LimitOf(scope) * late[scope] + Turn(w, scope)

AccountsInduction == AccountsInv /\ OpenIsActive /\ OrderWithAccount /\ GuessesCounted
=============================================================================

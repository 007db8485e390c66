--------------------------------- MODULE Staff ---------------------------------
(***************************************************************************)
(* The operators' console: who may change which operator and which         *)
(* customer user (api/staff.py, auth/staff.py, api/admin.py), and how an   *)
(* operator signs in (api/staff_auth.py). A request reads the rows it      *)
(* decides on, and writes the columns it was asked to change when it       *)
(* commits; other requests run in between.                                 *)
(***************************************************************************)
EXTENDS Naturals, FiniteSets

CONSTANTS
    Account,        \* StaffAccount rows
    Glass,          \* a customer login of the deployment's allowlist
    Customer,       \* the users of one tenant
    Second,         \* what the second operator may be at the start
    MaxWork,        \* bound: sign-in requests at a time
    MaxRequests,    \* bound: console requests
    MaxTokens,      \* bound: sessions minted
    MaxSecrets      \* bound: authenticators enrolled

VARIABLES
    row,        \* StaffAccount
    role,       \* User.role of each customer
    req,        \* the console request each operator is making
    work,       \* sign-in requests that have read and not yet written
    pending,    \* operators who have passed the password step
    sessions,   \* access tokens: whose, when, with which authenticator
    cutoff,     \* revocation: tokens minted up to here are refused
    minted, secrets, requests,
    odd         \* what has overlapped (history)

vars == <<row, role, req, work, pending, sessions, cutoff, minted, secrets, requests, odd>>

-----------------------------------------------------------------------------
(* Permissions: "manage" stands for staff:manage and user:manage, "roles"  *)
(* for what only leadership has.                                           *)
Perm == {"manage", "roles"}
Dept == {"leadership", "security", "support"}

DeptPerms(d) == CASE d = "leadership" -> Perm
                  [] d = "security" -> {"manage"}
                  [] d = "support" -> {}

Held(r) == (DeptPerms(r.dept) \cup r.granted) \ r.revoked

None == [status |-> "none", dept |-> "support", granted |-> {}, revoked |-> {},
         fresh |-> FALSE, on |-> FALSE, secret |-> 0]
Row == [status : {"none", "active", "suspended"}, dept : Dept, granted : SUBSET Perm,
        revoked : SUBSET Perm, fresh : BOOLEAN, on : BOOLEAN, secret : 0..MaxSecrets]
Enrolled(d, g, r, n) == [status |-> "active", dept |-> d, granted |-> g, revoked |-> r,
                         fresh |-> FALSE, on |-> TRUE, secret |-> n]

Lead == CHOOSE a \in Account : TRUE
Deputy == IF Account = {Lead} THEN Lead ELSE CHOOSE a \in Account \ {Lead} : TRUE

(* A console with a lead, a second operator of any kind and free places.   *)
Init ==
    /\ \E x \in Second :
         row = [a \in Account |-> CASE a = Lead -> Enrolled("leadership", {}, {}, 1)
                                    [] a = Deputy /\ a # Lead -> Enrolled(x[1], x[2], x[3], 2)
                                    [] OTHER -> None]
    /\ role = [c \in Customer |-> "owner"]
    /\ req = [o \in Account \cup {Glass} |-> {}]
    /\ work = {} /\ pending = {}
    /\ sessions = {[who |-> a, at |-> 1, factor |-> row[a].secret] : a \in {Lead, Deputy}}
    /\ cutoff = [a \in Account |-> 0]
    /\ minted = 1 /\ secrets = 2 /\ requests = 0 /\ odd = {}

(* current_operator: the session is not revoked, the account is active and *)
(* has a password of its own.                                              *)
Live(s) == s.at > cutoff[s.who]
Usable(s) == Live(s) /\ row[s.who].status = "active" /\ ~row[s.who].fresh

May(o) == IF o = Glass THEN Perm ELSE Held(row[o])
SignedIn(o) == o = Glass \/ \E s \in sessions : s.who = o /\ Usable(s)

-----------------------------------------------------------------------------
(* The checks of a console request.                                        *)
CanDelegate(o, ps) == ps \subseteq May(o)
CanManageDepartment(o, r) == DeptPerms(r.dept) \subseteq May(o)
CanManage(o, r) == Held(r) \subseteq May(o)
CanAssign(o, d) == DeptPerms(d) \subseteq May(o)

Managing == {"leadership", "security"}
Managers == {a \in Account : row[a].status = "active" /\ row[a].dept \in Managing}

(* Who can in fact manage staff. The check of a suspension counts the two  *)
(* departments instead, whatever was granted or revoked.                   *)
Holders == {a \in Account : row[a].status = "active" /\ "manage" \in Held(row[a])}

Owners == {c \in Customer : role[c] = "owner"}

(* A request that has passed its checks: what it will do and to whom, what *)
(* the operator held and the target's row, both as they were read.         *)
Ask(o, what, a, dept, granted, revoked) ==
    [what |-> what, on |-> a, may |-> May(o), read |-> row[a], dept |-> dept,
     granted |-> granted, revoked |-> revoked]

Begins(o, r) ==
    /\ req[o] = {} /\ requests < MaxRequests /\ SignedIn(o)
    /\ "manage" \in May(o)
    /\ req' = [req EXCEPT ![o] = {r}]
    /\ requests' = requests + 1
    /\ odd' = IF \E p \in DOMAIN req : req[p] # {} THEN odd \cup {"beside"} ELSE odd
    /\ UNCHANGED <<row, role, work, pending, sessions, cutoff, minted, secrets>>

(* create_staff.                                                           *)
AskCreate(o, a, d, g, r) ==
    /\ row[a].status = "none" /\ CanAssign(o, d) /\ CanDelegate(o, g)
    /\ Begins(o, Ask(o, "create", a, {d}, {g}, {r}))

(* update_staff: a column is changed if it was sent (a set of one value);  *)
(* Console sends one column at a time, as a bound on the inputs.           *)
AskUpdate(o, a, d, g, r) ==
    /\ row[a].status # "none" /\ a # o /\ CanManage(o, row[a])
    /\ \A x \in d : CanAssign(o, x)
    /\ \A x \in g : CanDelegate(o, x)
    /\ Begins(o, Ask(o, "update", a, d, g, r))

(* suspend_staff: not oneself, and not the last who manages staff.         *)
AskSuspendUncounted(o, a) ==
    /\ row[a].status # "none" /\ a # o /\ CanManage(o, row[a])
    /\ Begins(o, Ask(o, "suspend", a, {}, {}, {}))
AskSuspend(o, a) ==
    /\ row[a].status # "none" /\ a # o /\ CanManage(o, row[a])
    /\ ~(row[a].dept \in Managing /\ Cardinality(Managers) <= 1)
    /\ Begins(o, Ask(o, "suspend", a, {}, {}, {}))

(* reinstate_staff and reset_staff_password.                               *)
AskRestore(o, a, what) ==
    /\ row[a].status # "none" /\ CanManage(o, row[a])
    /\ what \in {"reinstate", "reset"}
    /\ Begins(o, Ask(o, what, a, {}, {}, {}))

(* A suspension and a reset revoke the account's sessions, then commit.    *)
RevokeFirst(o) ==
    \E r \in req[o] :
      /\ r.what \in {"suspend", "reset"}
      /\ req' = [req EXCEPT ![o] = {[r EXCEPT !.what = IF @ = "suspend" THEN "suspending"
                                                       ELSE "resetting"]}]
      /\ cutoff' = [cutoff EXCEPT ![r.on] = minted]
    /\ UNCHANGED <<row, role, work, pending, sessions, minted, secrets, requests, odd>>

One(s, old) == IF s = {} THEN old ELSE CHOOSE x \in s : TRUE

Reset(x) == [x EXCEPT !.fresh = TRUE, !.on = FALSE, !.secret = 0]

Written(r) ==
    LET x == row[r.on] IN
    CASE r.what = "create" -> [None EXCEPT !.status = "active", !.fresh = TRUE,
                                 !.dept = One(r.dept, ""), !.granted = One(r.granted, {}),
                                 !.revoked = One(r.revoked, {})]
      [] r.what = "update" -> [x EXCEPT !.dept = One(r.dept, @), !.granted = One(r.granted, @),
                                        !.revoked = One(r.revoked, @)]
      [] r.what = "suspending" -> [x EXCEPT !.status = "suspended"]
      [] r.what = "reinstate" -> [x EXCEPT !.status = "active"]
      [] r.what = "resetting" -> Reset(x)

(* The break-glass login holds no account that would be left: it moves one *)
(* who manages staff, which nothing checks, or suspends somebody while the *)
(* departments miscount who manages.                                       *)
GlassTakes(o, r) ==
    {x \in {"moved", "miscounted"} :
        /\ o = Glass
        /\ x = "moved" => r.what = "update" /\ r.on \in Holders
        /\ x = "miscounted" => r.what = "suspending" /\ Managers # Holders}

Commit(o) ==
    \E r \in req[o] :
      /\ r.what \in {"create", "update", "suspending", "reinstate", "resetting"}
      /\ r.what = "create" => row[r.on].status = "none"   \* StaffAccount.email is unique
      /\ row' = [row EXCEPT ![r.on] = Written(r)]
      /\ req' = [req EXCEPT ![o] = {}]
      /\ odd' = odd \cup GlassTakes(o, r)
    /\ UNCHANGED <<role, work, pending, sessions, cutoff, minted, secrets, requests>>

(* A second creation of an address fails on the unique column.             *)
Conflict(o) ==
    /\ \E r \in req[o] : r.what = "create" /\ row[r.on].status # "none"
    /\ req' = [req EXCEPT ![o] = {}]
    /\ UNCHANGED <<row, role, work, pending, sessions, cutoff, minted, secrets, requests, odd>>

(* set_user_role: the last owner of a tenant stays one.                    *)
SpareOwner(c, new) == role[c] = "owner" /\ new # "owner" => Cardinality(Owners) > 1

AskRole(o, c, new) ==
    /\ "roles" \in May(o) /\ SpareOwner(c, new) /\ role[c] # new
    /\ req[o] = {} /\ requests < MaxRequests /\ SignedIn(o)
    /\ req' = [req EXCEPT ![o] = {[what |-> "role", on |-> c, new |-> new]}]
    /\ requests' = requests + 1
    /\ odd' = IF \E p \in DOMAIN req : req[p] # {} THEN odd \cup {"beside"} ELSE odd
    /\ UNCHANGED <<row, role, work, pending, sessions, cutoff, minted, secrets>>

SetRole(o) ==
    \E r \in req[o] :
      /\ r.what = "role"
      /\ role' = [role EXCEPT ![r.on] = r.new]
      /\ req' = [req EXCEPT ![o] = {}]
    /\ UNCHANGED <<row, work, pending, sessions, cutoff, minted, secrets, requests, odd>>

-----------------------------------------------------------------------------
(* Signing in: the password, then the authenticator.                       *)
Login(a) ==
    /\ MaxWork > 0 /\ row[a].status = "active" /\ a \notin pending
    /\ pending' = pending \cup {a}
    /\ UNCHANGED <<row, role, req, work, sessions, cutoff, minted, secrets, requests, odd>>

PendingExpires(a) ==
    /\ a \in pending /\ pending' = pending \ {a}
    /\ UNCHANGED <<row, role, req, work, sessions, cutoff, minted, secrets, requests, odd>>

Starts(a, step, factor) ==
    /\ row[a].status = "active" /\ Cardinality(work) < MaxWork
    /\ work' = work \cup {[step |-> step, who |-> a, read |-> row[a], factor |-> factor]}
    /\ UNCHANGED <<row, role, req, pending, sessions, cutoff, minted, secrets, requests, odd>>

StartSetup(a) == a \in pending /\ ~row[a].on /\ Starts(a, "setup", 0)
StartVerify(a) == a \in pending /\ row[a].secret # 0 /\ Starts(a, "verify", row[a].secret)
StartRefresh(s) == Live(s) /\ Starts(s.who, "refresh", s.factor)
StartPassword(a) == (\E s \in sessions : s.who = a) /\ Starts(a, "password", 0)

(* What a sign-in request read is no longer so when it writes.             *)
Stale(w) == \/ row[w.who].secret # w.read.secret \/ row[w.who].on # w.read.on
            \/ row[w.who].fresh # w.read.fresh
Done(w) == /\ work' = work \ {w}
           /\ odd' = IF Stale(w) THEN odd \cup {"stale"} ELSE odd

(* staff_mfa_setup.                                                        *)
FinishSetup(w) ==
    /\ w.step = "setup" /\ secrets < MaxSecrets /\ Done(w)
    /\ secrets' = secrets + 1
    /\ row' = [row EXCEPT ![w.who].secret = secrets']
    /\ UNCHANGED <<role, req, pending, sessions, cutoff, minted, requests>>

Mint(a, f) ==
    /\ minted < MaxTokens /\ minted' = minted + 1
    /\ sessions' = sessions \cup {[who |-> a, at |-> minted', factor |-> f]}

(* staff_mfa_verify: the code is right for the secret that was read; only  *)
(* a changed column is written.                                            *)
FinishVerify(w) ==
    /\ w.step = "verify" /\ Done(w) /\ Mint(w.who, w.factor)
    /\ row' = IF w.read.on THEN row ELSE [row EXCEPT ![w.who].on = TRUE]
    /\ UNCHANGED <<role, req, pending, cutoff, secrets, requests>>

(* staff_refresh.                                                          *)
FinishRefresh(w) ==
    /\ w.step = "refresh" /\ Done(w) /\ Mint(w.who, w.factor)
    /\ UNCHANGED <<row, role, req, pending, cutoff, secrets, requests>>

(* set_own_password ends every session.                                    *)
PasswordCutoff(w) == [cutoff EXCEPT ![w.who] = minted]

FinishPassword(w) ==
    /\ w.step = "password" /\ Done(w)
    /\ cutoff' = PasswordCutoff(w)
    /\ row' = IF w.read.fresh THEN [row EXCEPT ![w.who].fresh = FALSE] ELSE row
    /\ UNCHANGED <<role, req, pending, sessions, minted, secrets, requests>>

Logout(a) ==
    /\ SignedIn(a)
    /\ cutoff' = [cutoff EXCEPT ![a] = minted]
    /\ UNCHANGED <<row, role, req, work, pending, sessions, minted, secrets, requests, odd>>

-----------------------------------------------------------------------------
Console(o) ==
    \/ RevokeFirst(o) \/ Commit(o) \/ Conflict(o) \/ SetRole(o)
    \/ \E c \in Customer, new \in {"owner", "member"} : AskRole(o, c, new)
    \/ \E a \in Account :
         \/ AskSuspend(o, a)
         \/ \E what \in {"reinstate", "reset"} : AskRestore(o, a, what)
         \/ \E d \in Dept, g \in SUBSET Perm : AskCreate(o, a, d, g, {})
         \/ \E d \in Dept : AskUpdate(o, a, {d}, {}, {})
         \/ \E ps \in SUBSET Perm : \/ AskUpdate(o, a, {}, {ps}, {})
                                      \/ AskUpdate(o, a, {}, {}, {ps})

SignIn ==
    \/ \E a \in Account : \/ Login(a) \/ PendingExpires(a) \/ StartSetup(a) \/ StartVerify(a)
                          \/ StartPassword(a) \/ Logout(a)
    \/ \E s \in sessions : StartRefresh(s)
    \/ \E w \in work : \/ FinishSetup(w) \/ FinishVerify(w) \/ FinishRefresh(w)
                       \/ FinishPassword(w)

Next == SignIn \/ \E o \in Account \cup {Glass} : Console(o)

Spec == Init /\ [][Next]_vars
-----------------------------------------------------------------------------
(* Properties                                                              *)

(* Every variable keeps its shape, and, unless a sign-in overlapped a      *)
(* reset, an account with two-factor on has an authenticator: no operator  *)
(* is locked out by a secret that is gone.                                 *)
TypeOK ==
    /\ row \in [Account -> Row] /\ role \in [Customer -> {"owner", "member"}]
    /\ pending \subseteq Account /\ minted <= MaxTokens /\ requests <= MaxRequests
    /\ "stale" \notin odd => \A a \in Account : row[a].on => row[a].secret # 0

(* You cannot grant what you do not hold: a permission that an account     *)
(* gains when a request commits was held by the operator who asked, however*)
(* requests overlap. One case is not so: update_staff checks what it grants*)
(* and not what it stops revoking, so whoever changes the revocations may  *)
(* give back what the account's department or grants give.                 *)
Gain(r) == Held(row'[r.on]) \ Held(row[r.on])
Lifts(r) ==
    /\ r.what = "update" /\ r.revoked # {}
    /\ Gain(r) \ r.may \subseteq
          row[r.on].revoked \cap (DeptPerms(row[r.on].dept) \cup row[r.on].granted)
GainsAreHeldStep ==
    \A o \in Account \cup {Glass} : \A r \in req[o] :
      r.what \in {"create", "update"} /\ req'[o] = {} /\ row'[r.on] # row[r.on]
      => Gain(r) \subseteq r.may \/ Lifts(r)
GainsAreHeld == [][GainsAreHeldStep]_vars

(* The same without the exception, as api/staff.py:9-11 has it: "nobody can*)
(* grant a permission they do not themselves hold". It does not hold.      *)
NobodyGivesMore ==
    [][\A o \in Account \cup {Glass} : \A r \in req[o] :
         r.what \in {"create", "update"} /\ req'[o] = {} /\ row'[r.on] # row[r.on]
         => Gain(r) \subseteq r.may]_vars

(* You cannot act on someone who holds more than you do: when a request    *)
(* changes an account, the operator held all the account did, unless       *)
(* another console request was under way at the same time.                 *)
HigherUntouchedStep ==
    \A o \in Account \cup {Glass} : \A r \in req[o] :
      "beside" \notin odd /\ r.what # "role" /\ req'[o] = {} /\ row'[r.on] # row[r.on]
      => r.what = "create" \/ Held(row[r.on]) \subseteq r.may
HigherUntouched == [][HigherUntouchedStep]_vars

(* Somebody active can manage staff: holds the permission, by department or*)
(* by grant, and not revoked. api/staff.py:333-342 promises it without the *)
(* exceptions below ("the last operator who can manage staff"); it does not*)
(* hold without them.                                                      *)
SomebodyManages == Holders # {}

(* Somebody active who can manage staff stays, and the tenant keeps an     *)
(* owner, however permissions are granted, revoked and moved: unless two   *)
(* requests overlapped, or the break-glass login moved one who manages or  *)
(* suspended while the departments miscounted who does.                    *)
LastOnesKept ==
    /\ odd \cap {"beside", "moved", "miscounted"} = {} => SomebodyManages
    /\ "beside" \notin odd => \E c \in Customer : role[c] = "owner"

(* Every session the console accepts was opened with the authenticator the *)
(* account has now: a reset cuts off whoever holds the old one, for good,  *)
(* although the sessions minted while it ran are only stopped later, by    *)
(* the new password. Only a sign-in that overlaps the change escapes.      *)
SessionHasFactor ==
    "stale" \notin odd => \A s \in sessions : Usable(s) => s.factor = row[s.who].secret
=============================================================================

----------------------------- MODULE Workspace -----------------------------
(***************************************************************************)
(* The mailboxes a workspace protects and the people who may sign in to    *)
(* it: what administrators do in api/tenants.py, side by side, while the   *)
(* plan changes under them.                                                *)
(*                                                                         *)
(* A request loads the tenant and makes its checks, and commits later; the *)
(* tenant's row lock is held from the seat count to the commit.            *)
(***************************************************************************)
EXTENDS Entitlement, FiniteSets, FiniteSetsExt

CONSTANTS
    Addr,           \* addresses on the company's domains
    Req,            \* requests that may run side by side
    Nobody,         \* no request
    Plans,          \* the entitlements the tenant moves between
    MaxRequests,    \* bound: requests made
    MaxMoves        \* bound: changes of the tenant's entitlement

VARIABLES
    tenant,     \* the tenant row
    boxes,      \* its mailboxes, oldest first: [addr, class, via]
    users,      \* the login of each address: [role, status]
    jobs,       \* the requests in progress
    lock,       \* which of them holds the tenant's row lock
    odd,        \* which rare things have happened (history)
    spent       \* requests made and plans changed so far

vars == <<tenant, boxes, users, jobs, lock, odd, spent>>

NoUser == [role |-> "none", status |-> "none"]
Idle == [pc |-> "idle", kind |-> "none", addr |-> {}, class |-> "none",
         role |-> "none", cap |-> 0, stale |-> FALSE]

Init ==
    /\ tenant \in Plans
    /\ boxes = <<>>
    /\ users = [a \in Addr |-> NoUser]
    /\ jobs = [r \in Req |-> Idle]
    /\ lock = Nobody
    /\ odd = {}
    /\ spent = [requests |-> 0, moves |-> 0]

Boxed == {boxes[i].addr : i \in 1..Len(boxes)}
Protected == {boxes[i].addr : i \in {k \in 1..Len(boxes) : boxes[k].class = "protected"}}
Active == {a \in Addr : users[a].status = "active"}
Watched == EntitledMailboxes(tenant, [i \in 1..Len(boxes) |-> boxes[i].addr])

(* What a connected mailbox of a class is read with, and what a change of  *)
(* its class makes of that.                                                *)
Strategy(class) == IF class = "protected" THEN "idle" ELSE "poll"
Via(via, class) == IF via = "none" THEN via ELSE Strategy(class)

-----------------------------------------------------------------------------
(* Requests that commit later                                              *)

Begins(r, job) ==
    /\ jobs[r] = Idle
    /\ spent.requests < MaxRequests
    /\ spent' = [spent EXCEPT !.requests = @ + 1]
    /\ jobs' = [jobs EXCEPT ![r] = job]
    /\ UNCHANGED <<tenant, boxes, users, lock, odd>>

(* add_mailbox of an address not there yet.                                *)
Add(r, a, class) ==
    /\ a \notin Boxed /\ MailboxEntitled(tenant)
    /\ Begins(r, [Idle EXCEPT !.pc = "count", !.kind = "add", !.addr = {a},
                              !.class = class, !.cap = MailboxCapacity(tenant)])

(* add_mailboxes_bulk counts without the lock and takes what fits.         *)
AddBulk(r, pasted) ==
    /\ MailboxEntitled(tenant)
    /\ LET remaining == MailboxCapacity(tenant) - Len(boxes) IN
       \E taken \in SUBSET (pasted \ Boxed) :
          /\ taken # {}
          /\ Cardinality(taken) = Min({remaining, Cardinality(pasted \ Boxed)})
          /\ Begins(r, [Idle EXCEPT !.pc = "insert", !.kind = "bulk", !.addr = taken,
                                    !.class = "monitored"])

(* create_member, after _assert_can_grant_login.                           *)
Create(r, a, role) ==
    /\ users[a] = NoUser
    /\ MailboxEntitled(tenant)
    /\ Cardinality(Active) < MailboxCapacity(tenant)
    /\ role = "member" => a \in Protected
    /\ Begins(r, [Idle EXCEPT !.pc = "grant", !.kind = "create", !.addr = {a},
                              !.role = role])

HasProtectedMailbox(a) == a \in Protected

(* approve_member: a colleague who is no protected mailbox becomes one.    *)
Approve(r, a) ==
    /\ users[a].status = "pending"
    /\ IF HasProtectedMailbox(a)
       THEN Begins(r, [Idle EXCEPT !.pc = "grant", !.kind = "approve", !.addr = {a},
                                   !.role = users[a].role])
       ELSE /\ MailboxEntitled(tenant)
            /\ Begins(r, [Idle EXCEPT !.pc = "count", !.kind = "approve", !.addr = {a},
                                      !.class = "protected", !.role = users[a].role,
                                      !.cap = MailboxCapacity(tenant)])

(* connect_imap tries the credentials before it stores them.               *)
Connect(r, a) ==
    /\ a \in Boxed /\ MailboxEntitled(tenant)
    /\ \E i \in 1..Len(boxes) :
         /\ boxes[i].addr = a
         /\ Begins(r, [Idle EXCEPT !.pc = "probe", !.kind = "connect", !.addr = {a},
                                   !.class = boxes[i].class])

MayCountUnlocked(r) == TRUE
MayCount(r) == lock = Nobody

(* _require_mailbox_capacity waits for the row lock, then counts; the      *)
(* capacity is that of the tenant as loaded.                               *)
CountSeats(r) ==
    /\ jobs[r].pc = "count" /\ MayCount(r)
    /\ IF Len(boxes) + 1 > jobs[r].cap
       THEN /\ jobs' = [jobs EXCEPT ![r] = Idle]
            /\ UNCHANGED lock
       ELSE /\ jobs' = [jobs EXCEPT ![r].pc = "insert"]
            /\ lock' = r
    /\ UNCHANGED <<tenant, boxes, users, odd, spent>>

Ends(r) ==
    /\ jobs' = [jobs EXCEPT ![r] = Idle]
    /\ lock' = IF lock = r THEN Nobody ELSE lock
    /\ UNCHANGED <<tenant, spent>>

Grants(r) == [a \in Addr |-> IF a \in jobs[r].addr /\ jobs[r].role # "none"
                             THEN [role |-> jobs[r].role, status |-> "active"]
                             ELSE users[a]]

(* Whether the login the request grants can still be written: an email is  *)
(* unique, and a row to update must be there.                              *)
LoginWritable(r) ==
    \A a \in jobs[r].addr : CASE jobs[r].kind = "create"  -> users[a] = NoUser
                              [] jobs[r].kind = "approve" -> users[a] # NoUser
                              [] OTHER -> TRUE

NewBoxes(r) == LET s == CHOOSE s \in [1..Cardinality(jobs[r].addr) -> jobs[r].addr] :
                          \A a \in jobs[r].addr : \E i \in DOMAIN s : s[i] = a
               IN [i \in DOMAIN s |-> [addr |-> s[i], class |-> jobs[r].class,
                                       via |-> "none"]]

AddressesUnique(addrs) == addrs \cap Boxed = {}

(* The mailboxes are inserted, and an approved login with them; an address *)
(* that has a mailbox by now fails the whole commit.                       *)
InsertBoxes(r) ==
    /\ jobs[r].pc = "insert"
    /\ IF AddressesUnique(jobs[r].addr) /\ LoginWritable(r)
       THEN /\ boxes' = boxes \o NewBoxes(r)
            /\ users' = Grants(r)
            /\ odd' = odd \cup (IF jobs[r].kind = "bulk" THEN {"bulk"} ELSE {})
       ELSE /\ odd' = odd \cup {"refused"}
            /\ UNCHANGED <<boxes, users>>
    /\ Ends(r)

(* A login is granted without a new mailbox.                               *)
GrantLogin(r) ==
    /\ jobs[r].pc = "grant"
    /\ IF LoginWritable(r)
       THEN /\ users' = Grants(r)
            /\ odd' = odd \cup (IF jobs[r].stale THEN {"unprotected"} ELSE {})
       ELSE /\ odd' = odd \cup {"refused"}
            /\ UNCHANGED users
    /\ Ends(r)
    /\ UNCHANGED boxes

(* The sign-in fails, or the credential and its source are stored.         *)
StoreConnection(r) ==
    /\ jobs[r].pc = "probe"
    /\ \/ UNCHANGED <<boxes, odd>>
       \/ \E i \in 1..Len(boxes) :
            /\ boxes[i].addr \in jobs[r].addr
            /\ boxes' = [boxes EXCEPT ![i].via = Strategy(jobs[r].class)]
            /\ odd' = odd \cup (IF jobs[r].stale THEN {"reclassed"} ELSE {})
    /\ Ends(r)
    /\ UNCHANGED users

-----------------------------------------------------------------------------
(* Requests that load and commit in one go                                 *)

At(a) == CHOOSE i \in 1..Len(boxes) : boxes[i].addr = a

(* The request r of another administrator is left with an old mailbox row. *)
MarkStale(a) == jobs' = [r \in Req |-> IF a \in jobs[r].addr
                                       THEN [jobs[r] EXCEPT !.stale = TRUE] ELSE jobs[r]]

Spend == /\ spent.requests < MaxRequests
         /\ spent' = [spent EXCEPT !.requests = @ + 1]

(* remove_mailbox.                                                         *)
Remove(a) ==
    /\ a \in Boxed /\ Spend
    /\ boxes' = SubSeq(boxes, 1, At(a) - 1) \o SubSeq(boxes, At(a) + 1, Len(boxes))
    /\ MarkStale(a)
    /\ UNCHANGED <<tenant, users, lock, odd>>

(* update_mailbox changes the class and with it how the mailbox is read.   *)
Reclass(a, class) ==
    /\ a \in Boxed /\ boxes[At(a)].class # class /\ MailboxEntitled(tenant) /\ Spend
    /\ boxes' = [boxes EXCEPT ![At(a)].class = class,
                              ![At(a)].via = Via(@, class)]
    /\ MarkStale(a)
    /\ UNCHANGED <<tenant, users, lock, odd>>

(* A colleague registers and waits for approval.                           *)
JoinRequest(a) ==
    /\ users[a] = NoUser /\ Spend
    /\ users' = [users EXCEPT ![a] = [role |-> "member", status |-> "pending"]]
    /\ UNCHANGED <<tenant, boxes, jobs, lock, odd>>

(* reject_member, of a pending or an active one.                           *)
Reject(a) ==
    /\ users[a] # NoUser /\ Spend
    /\ users' = [users EXCEPT ![a] = NoUser]
    /\ UNCHANGED <<tenant, boxes, jobs, lock, odd>>

(* The plan, the trial or the seats change.                                *)
PlanMoves(t) ==
    /\ t # tenant /\ spent.moves < MaxMoves
    /\ tenant' = t
    /\ spent' = [spent EXCEPT !.moves = @ + 1]
    /\ odd' = IF MailboxCapacity(t) < MailboxCapacity(tenant) THEN odd \cup {"shrunk"} ELSE odd
    /\ UNCHANGED <<boxes, users, jobs, lock>>

-----------------------------------------------------------------------------
Class == {"protected", "monitored"}

Next ==
    \/ \E r \in Req :
         \/ \E a \in Addr, class \in Class : Add(r, a, class)
         \/ \E pasted \in SUBSET Addr : AddBulk(r, pasted)
         \/ \E a \in Addr, role \in {"member", "admin"} : Create(r, a, role)
         \/ \E a \in Addr : Approve(r, a) \/ Connect(r, a)
         \/ CountSeats(r) \/ InsertBoxes(r) \/ GrantLogin(r) \/ StoreConnection(r)
    \/ \E a \in Addr : \/ Remove(a) \/ JoinRequest(a) \/ Reject(a)
                       \/ \E class \in Class : Reclass(a, class)
    \/ \E t \in Plans : PlanMoves(t)

Spec == Init /\ [][Next]_vars
-----------------------------------------------------------------------------
(* Properties                                                              *)

(* Every variable keeps its shape, and an address has one mailbox.         *)
TypeOK ==
    /\ tenant \in Plans
    /\ \A i \in 1..Len(boxes) :
         boxes[i] \in [addr : Addr, class : Class, via : {"none", "idle", "poll"}]
    /\ Cardinality(Boxed) = Len(boxes)
    /\ users \in [Addr -> [role : {"none", "member", "admin"},
                           status : {"none", "pending", "active"}]]
    /\ \A r \in Req : jobs[r].pc \in {"idle", "count", "insert", "grant", "probe"}
    /\ lock \in Req \cup {Nobody}

(* However many administrators add mailboxes and approve colleagues at     *)
(* once, the workspace never holds more than it pays for, as long as the   *)
(* capacity does not shrink and nobody pastes a list.                      *)
SeatsFit ==
    odd \cap {"bulk", "shrunk"} = {} => Len(boxes) <= MailboxCapacity(tenant)

(* A connected mailbox is read the way its class asks for, unless its      *)
(* class changed while the connection was being tried.                     *)
SourceMatchesClass ==
    "reclassed" \notin odd =>
        \A i \in 1..Len(boxes) :
            boxes[i].via \in {"none", Strategy(boxes[i].class)}

(* A workspace never holds more mailboxes than it pays for, each address   *)
(* has one, and every connected one is read the way its class asks for.    *)
SeatsNeverOversold == TypeOK /\ SeatsFit /\ SourceMatchesClass

(* Adding a mailbox never takes the protection away from another one.      *)
AddingDisplacesNobodyStep ==
    (tenant' = tenant /\ Boxed \subseteq Boxed') => Watched \subseteq Watched'

(* A member who is given a login is a protected mailbox from then on,      *)
(* unless another administrator removed or reclassed it at that moment.    *)
LoginIsProtectedStep ==
    \A a \in Addr :
      (a \notin Active /\ a \in Active' /\ users'[a].role = "member") =>
         (a \in Protected' \/ "unprotected" \in odd')

(* No mailbox loses its protection to one that is added, and a member who  *)
(* is given a login is protected from then on.                             *)
ProtectionIsKept == [][AddingDisplacesNobodyStep /\ LoginIsProtectedStep]_vars

(* "Active logins can't exceed" the seats, "otherwise self-registration    *)
(* would be a way around the seat cap" (api/tenants.py), one request at a  *)
(* time and with a plan that does not change.                              *)
LoginsWithinSeats ==
    spent.moves = 0 /\ odd = {} /\ Cardinality({r \in Req : jobs[r] # Idle}) <= 1 =>
        Cardinality(Active) <= MailboxCapacity(tenant)
=============================================================================

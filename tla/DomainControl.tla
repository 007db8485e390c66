--------------------------- MODULE DomainControl ---------------------------
(***************************************************************************)
(* Which workspace a company's domain belongs to: signup and its routing   *)
(* (api/auth.py), claiming and verifying a domain (api/tenants.py), and    *)
(* the checks that take the proof away again (services/domains.py).        *)
(*                                                                         *)
(* A check reads the rows, asks DNS in a thread, and writes afterwards.    *)
(***************************************************************************)
EXTENDS Naturals, FiniteSets

CONSTANTS
    Tenant,         \* workspaces that may come to exist
    Domain,         \* registrable domains
    Home,           \* those of them people sign up from
    MaxFlips,       \* bound: records published or taken down
    MaxFaults       \* bound: lookups that fail

VARIABLES
    strict,     \* the setting require_email_verification
    tenants,    \* [state, home (the owner's email domain), read (email proved), seen]
    rows,       \* the domains table: [d, t, verified]
    ledger,     \* domains that have had their trial
    trials,     \* trials given to each domain (history)
    dns,        \* the proofs published: pairs <<domain, tenant>>
    public,     \* what recursive resolvers still answer
    cache,      \* the on-access cache of answers
    checks,     \* the checks in progress, by kind: [pc, absent]
    missing,    \* proofs that were missing since they were last verified (history)
    old,        \* absences held from before the last verification, or heard from
                \* a resolver that had not noticed the record (history)
    spent

vars == <<strict, tenants, rows, ledger, trials, dns, public, cache, checks,
          missing, old, spent>>

Pair == Domain \X Tenant
CheckKind == {"sweep", "access", "verify"}
NoCheck == [pc |-> "idle", absent |-> {}, present |-> {}]
NoTenant == [state |-> "none", home |-> CHOOSE d \in Home : TRUE, read |-> FALSE,
             seen |-> FALSE]

Init ==
    /\ strict \in BOOLEAN
    /\ tenants = [t \in Tenant |-> NoTenant]
    /\ rows = {} /\ ledger = {} /\ trials = [d \in Domain |-> 0]
    /\ dns = {} /\ public = {} /\ cache = [p \in Pair |-> "none"]
    /\ checks = [k \in CheckKind |-> NoCheck]
    /\ missing = {} /\ old = {}
    /\ spent = [flips |-> 0, faults |-> 0]

Here(t) == tenants[t].state = "here"
RowOf(d) == {r \in rows : r.d = d}
Holder(d) == {r.t : r \in RowOf(d)}
Verified == {<<r.d, r.t>> : r \in {q \in rows : q.verified}}
Account == <<strict, dns, public, cache, checks, missing, old, spent>>

-----------------------------------------------------------------------------
(* Signup                                                                  *)

(* _tenant_claim_is_credible: somebody there has proved an address.        *)
Credible(t) == strict => tenants[t].read

(* _existing_tenant_for_domain: the tenant of the domain's row, else that  *)
(* of a user with an address on it, whichever is found first; if its claim *)
(* is not credible nobody else is looked for.                              *)
Company(d) ==
    IF Holder(d) # {} THEN Holder(d)
    ELSE {t \in Tenant : tenants[t].state \in {"here", "proving"} /\ tenants[t].home = d}

FindsNobody(d) == Company(d) = {} \/ \E t \in Company(d) : ~Credible(t)

(* register looks for the company's tenant and, finding none, prepares a   *)
(* new one; colleagues of an existing one wait there for approval.         *)
Register(t, d) ==
    /\ tenants[t].state = "none" /\ FindsNobody(d)
    /\ tenants' = [tenants EXCEPT ![t] = [state |-> "new", home |-> d, read |-> FALSE,
                                          seen |-> d \in ledger]]
    /\ UNCHANGED <<rows, ledger, trials>>
    /\ UNCHANGED Account

Unique(d) == RowOf(d) = {}

(* _start_signup_trial: once per domain; `seen` is what the request read.  *)
StartsTrial(d, seen) ==
    /\ ledger' = ledger \cup {d}
    /\ trials' = IF seen THEN trials ELSE [trials EXCEPT ![d] = @ + 1]

(* The commit of register. Without email verification the domain's row and *)
(* the trial come with it, and unique keys decide between two at once.     *)
CommitRegister(t) ==
    /\ tenants[t].state = "new"
    /\ LET d == tenants[t].home
           seen == tenants[t].seen IN
       IF strict
       THEN /\ tenants' = [tenants EXCEPT ![t].state = "here"]
            /\ UNCHANGED <<rows, ledger, trials>>
       ELSE IF Unique(d) /\ (d \in ledger => seen)
       THEN /\ tenants' = [tenants EXCEPT ![t].state = "here"]
            /\ rows' = rows \cup {[d |-> d, t |-> t, verified |-> FALSE]}
            /\ StartsTrial(d, seen)
       ELSE /\ tenants' = [tenants EXCEPT ![t] = NoTenant]
            /\ UNCHANGED <<rows, ledger, trials>>
    /\ UNCHANGED Account

(* verify_email of the owner reads the ledger, and commits: the row is     *)
(* claimed if it is free, the trial starts with the first proof.           *)
OpenLink(t) ==
    /\ strict /\ Here(t) /\ ~tenants[t].read
    /\ tenants' = [tenants EXCEPT ![t].state = "proving",
                                  ![t].seen = tenants[t].home \in ledger]
    /\ UNCHANGED <<rows, ledger, trials>>
    /\ UNCHANGED Account

LedgerKeyIgnored(d, seen) == TRUE
LedgerKey(d, seen) == d \in ledger => seen

CommitLink(t) ==
    /\ tenants[t].state = "proving"
    /\ LET d == tenants[t].home
           seen == tenants[t].seen IN
       IF LedgerKey(d, seen)
       THEN /\ tenants' = [tenants EXCEPT ![t].state = "here", ![t].read = TRUE]
            /\ rows' = IF Unique(d) /\ \A r \in rows : r.t # t
                       THEN rows \cup {[d |-> d, t |-> t, verified |-> FALSE]} ELSE rows
            /\ StartsTrial(d, seen)
       ELSE /\ tenants' = [tenants EXCEPT ![t].state = "here"]
            /\ UNCHANGED <<rows, ledger, trials>>
    /\ UNCHANGED Account

(* bootstrap: a domain nobody holds may be claimed by its own company, or  *)
(* by one that has verified another.                                       *)
MayClaim(t, d) == tenants[t].home = d \/ \E r \in rows : r.t = t /\ r.verified

Claim(t, d) ==
    /\ Here(t) /\ Credible(t)
    /\ Unique(d) /\ MayClaim(t, d)
    /\ rows' = rows \cup {[d |-> d, t |-> t, verified |-> FALSE]}
    /\ UNCHANGED <<tenants, ledger, trials>>
    /\ UNCHANGED Account

(* delete_tenant keeps the trial ledger; the row and its token go.         *)
DeleteTenant(t) ==
    /\ Here(t) /\ Credible(t)
    /\ tenants' = [tenants EXCEPT ![t].state = "gone"]
    /\ rows' = {r \in rows : r.t # t}
    /\ UNCHANGED <<ledger, trials>>
    /\ UNCHANGED Account

-----------------------------------------------------------------------------
(* DNS                                                                     *)

Book == <<strict, tenants, ledger, trials>>

Flip(p) ==
    /\ spent.flips < MaxFlips
    /\ p \in dns \/ p[2] \in Holder(p[1])
    /\ spent' = [spent EXCEPT !.flips = @ + 1]
    /\ dns' = IF p \in dns THEN dns \ {p} ELSE dns \cup {p}
    /\ missing' = IF p \in dns THEN missing \cup {p} ELSE missing
    /\ UNCHANGED <<rows, public, cache, checks, old>>
    /\ UNCHANGED Book

(* Recursive resolvers drop a negative or an old answer.                   *)
Propagate ==
    /\ public # dns /\ public' = dns
    /\ UNCHANGED <<rows, dns, cache, checks, missing, old, spent>>
    /\ UNCHANGED Book

Truth(p, where) == IF p \in where THEN "present" ELSE "absent"

(* What servers answer for a domain's host, whoever published it.          *)
Records(d, where) == {q \in where : q[1] = d}

(* Mutant: what one resolver said is forgotten when the next one fails.    *)
StatusLastWord(p, own, recursive) ==
    CASE own /\ Records(p[1], dns) # {}          -> Truth(p, dns)
      [] recursive /\ Records(p[1], public) # {}
           /\ ~(own /\ Records(p[1], dns) # {})  -> Truth(p, public)
      [] OTHER -> IF recursive THEN "absent" ELSE "unknown"

(* verification_status walks the zone's own servers and the recursive      *)
(* resolvers: the first that has records for the host decides. If none has,*)
(* the proof is absent once any of them said so, else nothing is known.    *)
Status(p, own, recursive) ==
    CASE own /\ Records(p[1], dns) # {}          -> Truth(p, dns)
      [] recursive /\ Records(p[1], public) # {}
           /\ ~(own /\ Records(p[1], dns) # {})  -> Truth(p, public)
      [] OTHER -> IF own \/ recursive THEN "absent" ELSE "unknown"

Absence(status) == status = "absent"

LookupCost(own) ==
    IF own THEN UNCHANGED spent
    ELSE /\ spent.faults < MaxFaults
         /\ spent' = [spent EXCEPT !.faults = @ + 1]

Misled(asked, answer) == {p \in asked : answer[p] = "absent" /\ p \in dns}

(* The answers held somewhere say a proof is absent.                       *)
HeldAbsent == {p \in Pair : cache[p] = "absent"} \cup
              UNION {checks[k].absent : k \in CheckKind}

(* The hourly sweep looks every verified domain up, without a cache.       *)
SweepLookup ==
    /\ checks["sweep"].pc = "idle" /\ Verified # {}
    /\ \E own, recursive \in BOOLEAN :
         LET answer == [p \in Verified |-> Status(p, own, recursive)] IN
         /\ LookupCost(own)
         /\ checks' = [checks EXCEPT !["sweep"] =
               [NoCheck EXCEPT !.pc = "write",
                               !.absent = {p \in Verified : Absence(answer[p])}]]
         /\ old' = old \cup Misled(Verified, answer)
    /\ UNCHANGED <<rows, dns, public, cache, missing>>
    /\ UNCHANGED Book

(* On dashboard access a tenant's domains are looked up; a conclusive      *)
(* answer is kept and used for two minutes.                                *)
AccessLookup(t) ==
    /\ checks["access"].pc = "idle" /\ Here(t)
    /\ LET mine == {p \in Verified : p[2] = t} IN
       /\ mine # {}
       /\ \E own, recursive \in BOOLEAN :
            LET answer == [p \in mine |-> IF cache[p] # "none" THEN cache[p]
                                          ELSE Status(p, own, recursive)] IN
            /\ LookupCost(own)
            /\ cache' = [p \in Pair |-> IF p \in mine /\ answer[p] # "unknown"
                                        THEN answer[p] ELSE cache[p]]
            /\ checks' = [checks EXCEPT !["access"] =
                  [NoCheck EXCEPT !.pc = "write",
                                  !.absent = {p \in mine : Absence(answer[p])}]]
            /\ old' = old \cup Misled(mine, answer)
    /\ UNCHANGED <<rows, dns, public, missing>>
    /\ UNCHANGED Book

CacheExpires(p) ==
    /\ cache[p] # "none"
    /\ cache' = [cache EXCEPT ![p] = "none"]
    /\ UNCHANGED <<rows, dns, public, checks, missing, old, spent>>
    /\ UNCHANGED Book

(* _revoke_absent: the rows as they were read lose their proof; a row      *)
(* deleted meanwhile fails the whole commit.                               *)
Revoke(k) ==
    /\ k \in {"sweep", "access"} /\ checks[k].pc = "write"
    /\ LET absent == checks[k].absent IN
       rows' = IF \A p \in absent : \E r \in rows : <<r.d, r.t>> = p
               THEN {[r EXCEPT !.verified = @ /\ <<r.d, r.t>> \notin absent] : r \in rows}
               ELSE rows
    /\ checks' = [checks EXCEPT ![k] = NoCheck]
    /\ UNCHANGED <<dns, public, cache, missing, old, spent>>
    /\ UNCHANGED Book

(* verify_domain asks without a cache, and marks the row.                  *)
VerifyLookup(p) ==
    /\ checks["verify"].pc = "idle"
    /\ \E r \in rows : <<r.d, r.t>> = p /\ ~r.verified
    /\ \E own, recursive \in BOOLEAN :
         /\ LookupCost(own)
         /\ Status(p, own, recursive) = "present"
    /\ checks' = [checks EXCEPT !["verify"] = [NoCheck EXCEPT !.pc = "write",
                                                              !.present = {p}]]
    /\ missing' = IF p \in dns THEN missing \ {p} ELSE missing
    /\ old' = IF p \in HeldAbsent THEN old \cup {p} ELSE old \ {p}
    /\ UNCHANGED <<rows, dns, public, cache>>
    /\ UNCHANGED Book

MarkVerified ==
    /\ checks["verify"].pc = "write"
    /\ rows' = {[r EXCEPT !.verified = @ \/ <<r.d, r.t>> \in checks["verify"].present]
                  : r \in rows}
    /\ checks' = [checks EXCEPT !["verify"] = NoCheck]
    /\ UNCHANGED <<dns, public, cache, missing, old, spent>>
    /\ UNCHANGED Book

-----------------------------------------------------------------------------
Next ==
    \/ \E t \in Tenant :
         \/ CommitRegister(t) \/ OpenLink(t) \/ CommitLink(t) \/ DeleteTenant(t)
         \/ AccessLookup(t)
         \/ \E d \in Home : Register(t, d)
         \/ \E d \in Domain : Claim(t, d)
    \/ \E p \in Pair : Flip(p) \/ CacheExpires(p) \/ VerifyLookup(p)
    \/ Propagate \/ SweepLookup \/ MarkVerified
    \/ \E k \in {"sweep", "access"} : Revoke(k)

(* The scheduler runs the sweep every hour, a check that has its answers   *)
(* writes them, resolvers forget, and the cache does after two minutes.    *)
Fairness ==
    /\ \A p \in Pair : WF_vars(CacheExpires(p))
    /\ WF_vars(SweepLookup) /\ WF_vars(Propagate) /\ WF_vars(MarkVerified)
    /\ \A k \in {"sweep", "access"} : WF_vars(Revoke(k))

Spec == Init /\ [][Next]_vars /\ Fairness
-----------------------------------------------------------------------------
(* Properties                                                              *)

(* Every variable keeps its shape, and a domain has one row.               *)
TypeOK ==
    /\ \A t \in Tenant : tenants[t].state \in {"none", "new", "here", "proving", "gone"}
    /\ \A r, q \in rows : r.d = q.d => r = q
    /\ cache \in [Pair -> {"none", "present", "absent"}]
    /\ \A k \in CheckKind : checks[k].pc \in {"idle", "write"}

(* A domain has one trial, however many colleagues sign up or prove their  *)
(* address at the same moment, and after its workspace is deleted.         *)
OneTrialPerDomain == \A d \in Domain : trials[d] <= 1

(* Whoever signs up from a domain a company has proven joins that company. *)
ColleaguesJoinHolder ==
    \A p \in Verified : Company(p[1]) = {p[2]} /\ ~FindsNobody(p[1])

(* The proof is taken from a domain only if its record was missing since   *)
(* it was last verified, or the answer is older than that verification or  *)
(* comes from a resolver that had not heard of the record; a failed lookup *)
(* never does it.                                                          *)
RevokedOnlyWhenGoneStep ==
    \A p \in Verified :
      (p \notin Verified' /\ \E r \in rows' : <<r.d, r.t>> = p) =>
         p \in missing \cup old
RevokedOnlyWhenGone == [][RevokedOnlyWhenGoneStep]_vars

(* A company that takes its record down for good is no longer trusted.     *)
GoneIsNoticed == \A p \in Pair : <>[](p \notin dns) => <>[](p \notin Verified)
=============================================================================

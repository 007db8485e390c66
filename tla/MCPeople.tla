----------------------------- MODULE MCPeople -----------------------------
(* What people do, side by side and without shared state: pay for a        *)
(* workspace through Stripe, add its mailboxes and logins, sign in and out *)
(* with sessions and second factors, the limits on signing in (requests,   *)
(* guesses and codes, one at a time), and the staff console (requests, or  *)
(* sign-ins). One part is chosen at the start, and only that one moves.    *)
(* The workspace is Workspace itself, the others are instances beside it.  *)
EXTENDS Workspace

CONSTANTS
    \* of Billing
    MaxSubs, MaxSeats, MaxTenants, Offer, MaxChanges, MaxFaults, MaxMail,
    \* of Accounts
    MaxTokens, AccountRequests, MaxSecrets, MaxOutages,
    \* of Limits
    Instance, Limit, Window, Threshold, Backoff, CodeTtl, Drift, MaxTime,
    MaxAdmitted, MaxGuesses, MaxAccepted,
    \* of Staff
    Account, Glass, Customer, Second, MaxWork, StaffRequests, StaffTokens,
    StaffSecrets

VARIABLES
    part,       \* the system that moves, chosen at the start
    \* of Billing
    billingTenant, ledger, trials, subs, mail, owner, hook, billed,
    billingOdd, billingSpent,
    \* of Accounts
    user, tokens, shared, local, accUp, accNow, accJobs,
    ended, pairs, redeemed, accOdd, accSpent,
    \* of Limits
    limitsNow, limitsUp, hits, fails, lockedTil, seen, admitted, guesses,
    accepted, limitsOdd, trying, outages,
    \* of Staff
    row, role, req, work, pending, sessions, cutoff, minted, secrets,
    requests, staffOdd

Billing == INSTANCE Billing WITH
    tenant <- billingTenant, odd <- billingOdd, spent <- billingSpent

Accounts == INSTANCE Accounts WITH
    MaxRequests <- AccountRequests, up <- accUp, now <- accNow,
    jobs <- accJobs, odd <- accOdd, spent <- accSpent

Limits == INSTANCE Limits WITH
    now <- limitsNow, up <- limitsUp, odd <- limitsOdd

Staff == INSTANCE Staff WITH
    MaxRequests <- StaffRequests, MaxTokens <- StaffTokens,
    MaxSecrets <- StaffSecrets, odd <- staffOdd
-----------------------------------------------------------------------------
(* What the constants are, where a proof needs to know.                    *)

(* A workspace has finitely many addresses, no request is nobody, and every*)
(* entitlement allows a number of mailboxes.                               *)
ASSUME Workplace ==
    /\ IsFiniteSet(Addr) /\ Nobody \notin Req
    /\ \A t \in Plans : MailboxCapacity(t) \in Nat

(* The bounds are numbers, and only paid plans are put in a checkout.      *)
ASSUME BillingBounds ==
    /\ MaxSubs \in Nat /\ MaxSeats \in Nat /\ MaxTenants \in Nat
    /\ Offer \subseteq Billing!PaidPlan \X (0..MaxSeats)

ASSUME AccountsBounds == MaxTokens \in Nat /\ MaxSecrets \in Nat

(* There are finitely many replicas, none of them Redis. A lock grows with *)
(* the wrong guesses, and a code is remembered until its window is over on *)
(* either side.                                                            *)
ASSUME LimitsBounds ==
    /\ Limits!Redis \notin Instance /\ IsFiniteSet(Instance)
    /\ Limit \in Nat /\ Window \in Nat /\ MaxTime \in Nat
    /\ Threshold \in Nat \ {0}
    /\ Backoff \in Seq(Nat) /\ Len(Backoff) >= 2
    /\ \A i, j \in 1..Len(Backoff) : i <= j => Backoff[i] <= Backoff[j]
    /\ CodeTtl \in Nat /\ Drift \in Nat /\ CodeTtl > 2 * Drift

(* There are accounts and customers, and the break-glass login is no       *)
(* account; the two operators of the start have their authenticators.      *)
ASSUME StaffBounds ==
    /\ Account # {} /\ Glass \notin Account /\ Customer # {}
    /\ Second \subseteq Staff!Dept \X (SUBSET Staff!Perm) \X (SUBSET Staff!Perm)
    /\ StaffRequests \in Nat /\ StaffTokens \in Nat \ {0} /\ StaffSecrets \in Nat \ {0, 1}
-----------------------------------------------------------------------------
(* The values of a run.                                                    *)
PeopleIncluded == [p \in {"guard", "essential", "complete"} |-> IF p = "guard" THEN 0 ELSE 1]
Bought(plan, paid, seats) ==
    [plan |-> plan, paid |-> paid, trial |-> "over", seats |-> seats, active |-> TRUE]
PeoplePlans == {Bought("essential", TRUE, 0), Bought("complete", TRUE, 1), Bought("guard", FALSE, 0)}
PeopleOffer == {<<"complete", 0>>}
Backoffs == <<1, 3>>
Seconds == {<<d, {}, {}>> : d \in {"leadership", "security", "support"}}
           \cup {<<"support", {"manage"}, {}>>, <<"leadership", {}, {"roles"}>>}

billingVars ==
    <<billingTenant, ledger, trials, subs, mail, owner, hook, billed,
      billingOdd, billingSpent>>
accountsVars ==
    <<user, tokens, shared, local, accUp, accNow, accJobs,
      ended, pairs, redeemed, accOdd, accSpent>>
limitsVars ==
    <<limitsNow, limitsUp, hits, fails, lockedTil, seen, admitted, guesses,
      accepted, limitsOdd, trying, outages>>
staffVars ==
    <<row, role, req, work, pending, sessions, cutoff, minted, secrets,
      requests, staffOdd>>
peopleVars == <<part, billingVars, vars, accountsVars, limitsVars, staffVars>>

PeopleInit ==
    /\ part \in {"billing", "workspace", "accounts", "requests", "guesses",
                 "codes", "console", "staff"}
    /\ Billing!Init /\ Init /\ Accounts!Init /\ Limits!Init /\ Staff!Init
    /\ part # "workspace" => tenant = CHOOSE p \in Plans : TRUE
    /\ part # "console" =>
          \A a \in Account \ {Staff!Lead} : row[a].dept = "support" /\ row[a].granted = {}

(* Limits, one mechanism at a time.                                        *)
LimitsPart ==
    /\ part \in {"requests", "guesses", "codes"} /\ Limits!Next
    /\ \/ part = "requests" /\ trying' = trying /\ seen' = seen
       \/ part = "guesses" /\ hits' = hits /\ seen' = seen /\ limitsUp' = limitsUp
       \/ part = "codes" /\ hits' = hits /\ trying' = trying

(* The staff console with nobody signing in or out, or the sign-ins of one *)
(* account and what takes its access away and gives it back.               *)
StaffPart ==
    /\ part \in {"console", "staff"} /\ Staff!Next
    /\ \/ part = "console" /\ pending' = pending /\ work' = work /\ (cutoff' = cutoff \/ req' # req)
       \/ /\ part = "staff"
          /\ pending' \subseteq {Staff!Lead} /\ \A w \in work' : w.who = Staff!Lead
          /\ \A o \in DOMAIN req' : \A r \in req'[o] :
                r.on = Staff!Lead /\ r.what # "update" /\ o \in {Staff!Lead, Glass}
          /\ \A a \in Account \ {Staff!Lead} : cutoff'[a] = cutoff[a] /\ row'[a] = row[a]

PeopleNext ==
    \/ /\ part = "billing" /\ Billing!Next
       /\ UNCHANGED <<part, vars, accountsVars, limitsVars, staffVars>>
    \/ /\ part = "workspace" /\ Next
       /\ UNCHANGED <<part, billingVars, accountsVars, limitsVars, staffVars>>
    \/ /\ part = "accounts" /\ Accounts!Next
       /\ UNCHANGED <<part, billingVars, vars, limitsVars, staffVars>>
    \/ /\ LimitsPart
       /\ UNCHANGED <<part, billingVars, vars, accountsVars, staffVars>>
    \/ /\ StaffPart
       /\ UNCHANGED <<part, billingVars, vars, accountsVars, limitsVars>>

PeopleSpec == PeopleInit /\ [][PeopleNext]_peopleVars
-----------------------------------------------------------------------------
(* Once every event of Stripe's is handled, a workspace has the plan and   *)
(* seats its subscription is billed for, is paid for while it is billed and*)
(* only then, and nothing is billed for one that was deleted; each with the*)
(* disorder it does not survive named.                                     *)
GrantMatchesBilling ==
    /\ Billing!TypeOK /\ Billing!GrantMatchesBilling /\ Billing!PaidMeansBilled
    /\ Billing!BilledMeansPaid /\ Billing!DeletedIsNotBilled /\ Billing!PaidHasSubscription

(* Refinement: a workspace is given what was billed for, and loses it only *)
(* after an end.                                                           *)
GivenWasBilled == Billing!GivenWasBilled

(* Signing out, a new password or a replayed token ends every session there*)
(* was, and none opened since; a refresh token and a reset link are        *)
(* exchanged once; the second factor is on only with a secret in place.    *)
SessionsEnd ==
    /\ Accounts!TypeOK /\ Accounts!OldSessionsEnd /\ Accounts!NewSessionsWork
    /\ Accounts!ExchangedOnce /\ Accounts!FactorConsistent

(* However requests are spread over instances, and while Redis comes and   *)
(* goes, no window admits more than its limit, wrong guesses wait out their*)
(* locks, and a code is accepted once.                                     *)
LimitsHold ==
    /\ Limits!TypeOK /\ Limits!WindowHolds /\ Limits!GuessesWait /\ Limits!CodeUsedOnce

(* Somebody active who can in fact manage staff stays, and the tenant keeps*)
(* an owner, unless two requests overlapped or the break-glass login moved *)
(* one who manages or suspended under a miscount; every session the console*)
(* accepts was opened with the authenticator the account has now, unless a *)
(* sign-in overlapped its change.                                          *)
StaffIsKept ==
    /\ Staff!TypeOK /\ Staff!LastOnesKept /\ Staff!SessionHasFactor

(* No operator gives what they do not hold, but for lifting a revocation,  *)
(* which update_staff does not check; and none acts on someone who holds   *)
(* more than they do, unless two requests overlap.                         *)
NobodyOverreaches ==
    [][Staff!GainsAreHeldStep /\ Staff!HigherUntouchedStep]_peopleVars

=============================================================================

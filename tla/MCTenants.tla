---------------------------- MODULE MCTenants ----------------------------
(* What runs for each customer. Forwarded mail, and what is kept: control*)
(* over domains, sealed credentials, accounting connections, lookalike    *)
(* domains, the shared graph, payment verification, renewal reminders,    *)
(* the monthly digest and retention (alerts, then links). They share no   *)
(* state: one of them is chosen at the start, and only that one moves.    *)
(* Forwarded mail is Forwarding itself, the others are instances beside   *)
(* it.                                                                    *)
EXTENDS Forwarding, FiniteSets, TLC

CONSTANTS
    Faults,     \* bound: failures of each of them
    \* of DomainControl and Lookalikes
    Domain, Home, MaxFlips, Owner, Candidate, Imitates, QueueSize,
    MaxCerts, LookMoves,
    \* of Custody
    SealedBox, Family, MaxPasswords, MaxSaves, MaxRuns, MaxRejects,
    \* of Accounting
    Provider, Idempotent, Loop, BankAlert, MaxConsents, MaxTokens,
    MaxExpiries, AccountingClicks,
    \* of SharedGraph
    Api, Worker, Verdicts, MaxReports,
    \* of Verification
    PerDay, Ttl, MaxTexts, MaxDays, MaxActs,
    \* of Reminders
    Marks, Length, MaxPeriods, MaxChanges,
    \* of Digest
    News, Plain, Period, MaxTime,
    \* of Retention
    Alert, Token, KeptMail, BodyDays, ClickDays, TokenDays, TrailDays,
    AlertDays, Batch, MaxDay, MaxKids, MaxClicks, MaxSeen

VARIABLES
    part,       \* the system that moves, chosen at the start
    \* of DomainControl
    strict, tenants, domainRows, ledger, trials, dns, public, cache, checks,
    missing, domainOld, spent,
    \* of Custody
    good, custodyCred, needs, api, worker, custodyJob, moved, saves, runs,
    rejects, custodyLate,
    \* of Accounting
    conn, live, issued, stale, accAlert, done, notes, failed, accJob,
    accConsents, accClicks, expiries, accFaults, accOdd,
    \* of Lookalikes
    claimed, lookGone, lookKnown, reloading, up, mx, queue, lookJob,
    lookRows, lookTold, owed, certs, lookMoves, lookFaults,
    \* of SharedGraph
    proven, memory, row, account, graphWork, reports, graphAsked, kept,
    mulekept, graphOdd, graphFaults,
    \* of Verification
    today, verAlert, texts, verAsked, sending, sent, answering, accepted,
    marked, shut, acts, verOdd, verFaults,
    \* of Reminders
    access, remLeft, mark, period, remJob, ran, remTold, twice, remSince,
    changes, remFaults, remOdd,
    \* of Digest
    digNow, last, made, digStored, digLate, digJob, built, digCopies,
    digFaults, digOdd,
    \* of Retention
    day, retAlert, token, retMail, body, subject, kids, retClicks, trail,
    run, kidsMade, clicksMade, retFaults

Domains == INSTANCE DomainControl WITH
    MaxFaults <- Faults, rows <- domainRows, old <- domainOld

Custody == INSTANCE Custody WITH
    Box <- SealedBox, cred <- custodyCred, job <- custodyJob,
    late <- custodyLate

Accounting == INSTANCE Accounting WITH
    Alert <- BankAlert, MaxClicks <- AccountingClicks, MaxFaults <- Faults,
    alert <- accAlert, job <- accJob, consents <- accConsents,
    clicks <- accClicks, faults <- accFaults, odd <- accOdd

Lookalikes == INSTANCE Lookalikes WITH
    MaxMoves <- LookMoves, MaxFaults <- Faults, gone <- lookGone,
    known <- lookKnown, job <- lookJob, rows <- lookRows,
    told <- lookTold, moves <- lookMoves, faults <- lookFaults

Graph == INSTANCE SharedGraph WITH
    MaxFaults <- Faults, work <- graphWork, asked <- graphAsked,
    odd <- graphOdd, faults <- graphFaults

Verified == INSTANCE Verification WITH
    MaxFaults <- Faults, alert <- verAlert, asked <- verAsked,
    odd <- verOdd, faults <- verFaults

Reminded == INSTANCE Reminders WITH
    MaxFaults <- Faults, left <- remLeft, job <- remJob, told <- remTold,
    since <- remSince, faults <- remFaults, odd <- remOdd

Digested == INSTANCE Digest WITH
    MaxFaults <- Faults, now <- digNow, stored <- digStored,
    late <- digLate, job <- digJob, copies <- digCopies,
    faults <- digFaults, odd <- digOdd

Purged == INSTANCE Retention WITH
    Mail <- KeptMail, MaxFaults <- Faults, alert <- retAlert,
    mail <- retMail, clicks <- retClicks, faults <- retFaults
-----------------------------------------------------------------------------
(* What the constants are, where a proof needs to know.                   *)

(* A tenant's mailboxes come in order, and so do the tenants an envelope  *)
(* names; mails are told apart by id and content.                         *)
ASSUME Wiring ==
    /\ Boxes \in [Tenant -> Seq(Box)] /\ Envelope \in [Mail -> Seq(Tenant)]
    /\ Polled \subseteq Box /\ None \notin Mail
    /\ \A m, n \in Mail : Id[m] = Id[n] /\ Content[m] = Content[n] => m = n

(* People sign up from some of the domains.                               *)
ASSUME DomainsBounds ==
    Home # {} /\ Home \subseteq Domain /\ MaxFlips \in Nat /\ Faults \in Nat

(* The credentials move from the local key to a provider's.               *)
ASSUME CustodyMove ==
    Family["old"] = "local" /\ Family["new"] # "local" /\ MaxPasswords \in Nat \ {0}

ASSUME AccountingBounds ==
    /\ MaxConsents \in Nat /\ MaxTokens \in Nat
    /\ "none" \notin Provider /\ "bills" \in Loop

ASSUME LookalikesBounds ==
    /\ Owner \in [Domain -> Tenant] /\ Imitates \subseteq Candidate \X Domain
    /\ QueueSize \in Nat

ASSUME GraphBounds == Worker \notin Api
ASSUME VerificationBounds ==
    PerDay \in Nat /\ Ttl \in Nat /\ MaxTexts \in Nat /\ MaxDays \in Nat

(* The last day of access is one of the marks.                            *)
ASSUME RemindersBounds ==
    Marks \subseteq Nat /\ 0 \in Marks /\ Length \in Nat /\ MaxPeriods \in Nat \ {0}

ASSUME DigestBounds == Period \in Nat \ {0} /\ MaxTime \in Nat
ASSUME RetentionBounds == MaxDay \in Nat /\ TokenDays \in Nat /\ AlertDays \in Nat
-----------------------------------------------------------------------------
(* The values of a run.                                                   *)
MCBoxes == "t1" :> <<"b1", "b2">> @@ "t2" :> <<"b3">>
MCId == "m1" :> 1 @@ "m2" :> 1
MCContent == "m1" :> 1 @@ "m2" :> 2
MCNamed == "m1" :> {"b2"} @@ "m2" :> {"b2"}
MCLands == "m1" :> {"b2"} @@ "m2" :> {"b2", "b3"}
MCEnvelope == "m1" :> <<"t1", "t2">> @@ "m2" :> <<"t1">>
MCFamily == [old |-> "local", new |-> "x25519"]
MCOwner == "d1" :> "t1" @@ "d2" :> "t2"
MCImitates == {"c1"} \X {"d1", "d2"}

domainVars ==
    <<strict, tenants, domainRows, ledger, trials, dns, public, cache,
      checks, missing, domainOld, spent>>
custodyVars ==
    <<good, custodyCred, needs, api, worker, custodyJob, moved, saves, runs,
      rejects, custodyLate>>
accVars ==
    <<conn, live, issued, stale, accAlert, done, notes, failed, accJob,
      accConsents, accClicks, expiries, accFaults, accOdd>>
lookVars ==
    <<claimed, lookGone, lookKnown, reloading, up, mx, queue, lookJob,
      lookRows, lookTold, owed, certs, lookMoves, lookFaults>>
graphVars ==
    <<proven, memory, row, account, graphWork, reports, graphAsked, kept,
      mulekept, graphOdd, graphFaults>>
verVars ==
    <<today, verAlert, texts, verAsked, sending, sent, answering, accepted,
      marked, shut, acts, verOdd, verFaults>>
remVars ==
    <<access, remLeft, mark, period, remJob, ran, remTold, twice, remSince,
      changes, remFaults, remOdd>>
digVars ==
    <<digNow, last, made, digStored, digLate, digJob, built, digCopies,
      digFaults, digOdd>>
retVars ==
    <<day, retAlert, token, retMail, body, subject, kids, retClicks, trail,
      run, kidsMade, clicksMade, retFaults>>
tenantsVars ==
    <<part, vars, domainVars, custodyVars, accVars, lookVars, graphVars,
      verVars, remVars, digVars, retVars>>

TenantsInit ==
    /\ part \in {"forwarded", "domains", "custody", "accounting",
                 "lookalikes", "graph", "verification", "reminders",
                 "digest", "alerts", "links"}
    /\ Init
    /\ Domains!Init
    /\ Custody!Init
    /\ Accounting!Init
    /\ Lookalikes!Init
    /\ Graph!Init
    /\ Verified!Init
    /\ Reminded!Init
    /\ Digested!Init
    /\ Purged!Init
    /\ part # "domains" => strict
    /\ part # "graph" => proven = {}

(* Retention, with nothing but alerts or with nothing but links.          *)
RetentionPart ==
    /\ part \in {"alerts", "links"} /\ Purged!Next
    /\ part = "alerts" =>
          /\ token' = token /\ retMail' = retMail /\ trail' = trail
          /\ retClicks' = retClicks
    /\ part = "links" => retAlert' = retAlert

TenantsNext ==
    \/ /\ part = "forwarded" /\ Next
       /\ UNCHANGED <<part, domainVars, custodyVars, accVars, lookVars,
                       graphVars, verVars, remVars, digVars, retVars>>
    \/ /\ part = "domains" /\ Domains!Next
       /\ UNCHANGED <<part, vars, custodyVars, accVars, lookVars, graphVars,
                       verVars, remVars, digVars, retVars>>
    \/ /\ part = "custody" /\ Custody!Next
       /\ UNCHANGED <<part, vars, domainVars, accVars, lookVars, graphVars,
                       verVars, remVars, digVars, retVars>>
    \/ /\ part = "accounting" /\ Accounting!Next
       /\ UNCHANGED <<part, vars, domainVars, custodyVars, lookVars,
                       graphVars, verVars, remVars, digVars, retVars>>
    \/ /\ part = "lookalikes" /\ Lookalikes!Next
       /\ UNCHANGED <<part, vars, domainVars, custodyVars, accVars,
                       graphVars, verVars, remVars, digVars, retVars>>
    \/ /\ part = "graph" /\ Graph!Next
       /\ UNCHANGED <<part, vars, domainVars, custodyVars, accVars,
                       lookVars, verVars, remVars, digVars, retVars>>
    \/ /\ part = "verification" /\ Verified!Next
       /\ UNCHANGED <<part, vars, domainVars, custodyVars, accVars,
                       lookVars, graphVars, remVars, digVars, retVars>>
    \/ /\ part = "reminders" /\ Reminded!Next
       /\ UNCHANGED <<part, vars, domainVars, custodyVars, accVars,
                       lookVars, graphVars, verVars, digVars, retVars>>
    \/ /\ part = "digest" /\ Digested!Next
       /\ UNCHANGED <<part, vars, domainVars, custodyVars, accVars,
                       lookVars, graphVars, verVars, remVars, retVars>>
    \/ /\ RetentionPart
       /\ UNCHANGED <<part, vars, domainVars, custodyVars, accVars,
                       lookVars, graphVars, verVars, remVars, digVars>>

TenantsSpec == TenantsInit /\ [][TenantsNext]_tenantsVars
-----------------------------------------------------------------------------
(* A domain has one trial, and whoever signs up from a proven domain joins*)
(* the company that holds it.                                             *)
DomainsAreHeld ==
    Domains!TypeOK /\ Domains!OneTrialPerDomain /\ Domains!ColleaguesJoinHolder

(* What the service needs to reach a customer's systems stays usable:     *)
(* sealed credentials open in the worker while keys are moved, and an     *)
(* accounting connection does not die of its own refreshes.               *)
SecretsStayUsable ==
    /\ Custody!TypeOK /\ Custody!StoreIsReadable
    /\ Accounting!TypeOK /\ Accounting!ConnectionLives

(* Each thing is told once, and none is left out: a note on a supplier's  *)
(* bills, a lookalike that gained a mail server, the warnings before access*)
(* ends, and what belongs to a month's digest.                            *)
ToldOnce ==
    /\ Accounting!NotedOnce
    /\ Lookalikes!TypeOK /\ Lookalikes!ToldOnceArmed
    /\ Reminded!TypeOK /\ Reminded!ToldOnce /\ Reminded!EndWasCountedDown
    /\ Reminded!RenewalIsCalm
    /\ Digested!TypeOK /\ Digested!ToldInOneMonth /\ Digested!NothingFallsBetween

(* What customers and suppliers confirmed is kept and counted as they said*)
(* it: reports of the shared graph, answers to a verification text, and the*)
(* evidence of an alert until its time is over.                           *)
ConfirmationsCount ==
    /\ Graph!TypeOK /\ Graph!TwoCustomersAgree /\ Graph!CountIsReporters /\ Graph!ReportsKept
    /\ Verified!TypeOK /\ Verified!OneAnswer /\ Verified!DenialCounts
    /\ Purged!TypeOK /\ Purged!KeptForItsTime

(* What may not happen early or twice: a domain is lost only when its     *)
(* record is gone, a second run of the key tool changes nothing, a month  *)
(* has one digest, a link works until its time is over, a dismissed alert *)
(* is not turned into fraud by an answer, and a late answer is refused.   *)
ActsInTime ==
    [][/\ Domains!RevokedOnlyWhenGoneStep
       /\ Custody!SecondRunIsIdleStep
       /\ Digested!OneBuildAMonthStep
       /\ Purged!LinksWorkStep
       /\ Verified!DismissalStandsStep /\ Verified!LateIsRefusedStep]_tenantsVars

=============================================================================

------------------------------ MODULE MCLive ------------------------------
(* TLC instances of what must come about for each customer: mail of a      *)
(* notified mailbox is analysed, losses of access are noticed and made     *)
(* good, matches and signups are handled, and what is past its time is     *)
(* deleted. They share no state: one of them is chosen at the start, and   *)
(* only that one moves. Smaller than those of MCTenants, because a liveness*)
(* check costs far more than an invariant.                                 *)
EXTENDS Naturals, FiniteSets, Sequences, TLC

Family == [old |-> "local", new |-> "x25519"]
Owner == "d1" :> "t1" @@ "d2" :> "t2"

VARIABLES
    part,       \* the system that moves, chosen at the start
    \* of OAuthSync
    kind, place, copies, stored, notifiedTold, stamped, wanted, flag,
    stamps, pushes, announced, notifiedKnown, tries, notifiedJob, clicked,
    notifiedFaults, crashes, notifiedOdd,
    \* of OAuthToken
    honoured, consentCred, fresh, reconnect, mails, links, used,
    consentConsents, calling, consentWork, revokes, consentOdd, sub, named,
    left, passed, deaf, drops, consentFaults,
    \* of DomainControl
    strict, tenants, domainRows, ledger, trials, dns, public, cache, checks,
    missing, domainOld, spent,
    \* of Custody
    good, custodyCred, needs, api, worker, custodyJob, moved, saves, runs,
    rejects, late,
    \* of Accounting
    conn, live, issued, stale, accAlert, done, notes, failed, accJob,
    accConsents, accClicks, expiries, accFaults, accOdd,
    \* of Lookalikes
    claimed, gone, lookKnown, reloading, up, mx, queue, lookJob, lookRows,
    lookTold, owed, certs, moves, lookFaults,
    \* of Retention
    day, retAlert, token, mail, body, subject, kids, retClicks, trail, run,
    kidsMade, clicksMade, retFaults,
    \* of SharedGraph
    proven, memory, row, account, graphWork, reports, asked, kept, mulekept,
    graphOdd, graphFaults

Notified == INSTANCE OAuthSync WITH
    Mail <- {"m1"}, Severity <- {"clean", "critical"}, Gmail <- FALSE,
    Attempts <- 2, MaxStamps <- 2, MaxFaults <- 1, MaxCrashes <- 1,
    MaxClicks <- 1, told <- notifiedTold, known <- notifiedKnown,
    job <- notifiedJob, faults <- notifiedFaults, odd <- notifiedOdd

Consent == INSTANCE OAuthToken WITH
    Life <- 2, CheckEvery <- 1, MaxLinks <- 2, MaxRevokes <- 1, MaxDrops <- 1,
    MaxFaults <- 0, cred <- consentCred, consents <- consentConsents,
    work <- consentWork, odd <- consentOdd, faults <- consentFaults

Domains == INSTANCE DomainControl WITH
    Tenant <- {"t1"}, Domain <- {"d1"}, Home <- {"d1"}, MaxFlips <- 2,
    MaxFaults <- 1, rows <- domainRows, old <- domainOld

Custody == INSTANCE Custody WITH
    Box <- {"b1", "b2"}, Family <- Family, MaxPasswords <- 2, MaxSaves <- 1,
    MaxRuns <- 2, MaxRejects <- 1, cred <- custodyCred, job <- custodyJob

Accounting == INSTANCE Accounting WITH
    Provider <- {"xero"}, Idempotent <- {}, Loop <- {"cadence", "bills"},
    Alert <- {"a1"}, MaxConsents <- 1, MaxTokens <- 3, MaxExpiries <- 1,
    MaxClicks <- 0, MaxFaults <- 1, alert <- accAlert, job <- accJob,
    consents <- accConsents, clicks <- accClicks, faults <- accFaults,
    odd <- accOdd

Lookalikes == INSTANCE Lookalikes WITH
    Domain <- {"d1", "d2"}, Tenant <- {"t1", "t2"}, Owner <- Owner,
    Candidate <- {"c1"}, Imitates <- {"c1"} \X {"d1", "d2"},
    QueueSize <- 2, MaxCerts <- 2, MaxMoves <- 2, MaxFaults <- 1,
    known <- lookKnown, job <- lookJob, rows <- lookRows,
    told <- lookTold, faults <- lookFaults

Retention == INSTANCE Retention WITH
    BodyDays <- 1, ClickDays <- 1, TokenDays <- 2, TrailDays <- 2,
    AlertDays <- 2, Batch <- 1, MaxDay <- 3, MaxFaults <- 1,
    Alert <- {"a1"}, Token <- {"k1"}, Mail <- {}, MaxKids <- 1,
    MaxClicks <- 1, MaxSeen <- 1, alert <- retAlert, clicks <- retClicks,
    faults <- retFaults

Graph == INSTANCE SharedGraph WITH
    Tenant <- {"t1", "t2"}, Api <- {"p1", "p2"}, Worker <- "worker",
    Verdicts <- {"fraudulent", "legitimate"}, MaxReports <- 2,
    MaxFaults <- 1, work <- graphWork, odd <- graphOdd,
    faults <- graphFaults

notifiedVars ==
    <<kind, place, copies, stored, notifiedTold, stamped, wanted, flag,
      stamps, pushes, announced, notifiedKnown, tries, notifiedJob, clicked,
      notifiedFaults, crashes, notifiedOdd>>
consentVars ==
    <<honoured, consentCred, fresh, reconnect, mails, links, used,
      consentConsents, calling, consentWork, revokes, consentOdd, sub,
      named, left, passed, deaf, drops, consentFaults>>
domainVars ==
    <<strict, tenants, domainRows, ledger, trials, dns, public, cache,
      checks, missing, domainOld, spent>>
custodyVars ==
    <<good, custodyCred, needs, api, worker, custodyJob, moved, saves, runs,
      rejects, late>>
accVars ==
    <<conn, live, issued, stale, accAlert, done, notes, failed, accJob,
      accConsents, accClicks, expiries, accFaults, accOdd>>
lookVars ==
    <<claimed, gone, lookKnown, reloading, up, mx, queue, lookJob, lookRows,
      lookTold, owed, certs, moves, lookFaults>>
retVars ==
    <<day, retAlert, token, mail, body, subject, kids, retClicks, trail,
      run, kidsMade, clicksMade, retFaults>>
graphVars ==
    <<proven, memory, row, account, graphWork, reports, asked, kept,
      mulekept, graphOdd, graphFaults>>
vars == <<part, notifiedVars, consentVars, domainVars, custodyVars, accVars,
         lookVars, retVars, graphVars>>

Init ==
    /\ part \in {"notified", "consent", "domains", "custody", "accounting",
                 "lookalikes", "retention", "graph"}
    /\ Notified!Init
    /\ Consent!Init
    /\ Domains!Init
    /\ Custody!Init
    /\ Accounting!Init
    /\ Lookalikes!Init
    /\ Retention!Init
    /\ Graph!Init
    /\ part # "domains" => strict
    /\ part # "graph" => proven = {}

Next ==
    \/ /\ part = "notified" /\ Notified!Next
       /\ UNCHANGED <<part, consentVars, domainVars, custodyVars, accVars,
                            lookVars, retVars, graphVars>>
    \/ /\ part = "consent" /\ Consent!Next
       /\ UNCHANGED <<part, notifiedVars, domainVars, custodyVars, accVars,
                            lookVars, retVars, graphVars>>
    \/ /\ part = "domains" /\ Domains!Next
       /\ UNCHANGED <<part, notifiedVars, consentVars, custodyVars, accVars,
                            lookVars, retVars, graphVars>>
    \/ /\ part = "custody" /\ Custody!Next
       /\ UNCHANGED <<part, notifiedVars, consentVars, domainVars, accVars,
                            lookVars, retVars, graphVars>>
    \/ /\ part = "accounting" /\ Accounting!Next
       /\ UNCHANGED <<part, notifiedVars, consentVars, domainVars,
                            custodyVars, lookVars, retVars, graphVars>>
    \/ /\ part = "lookalikes" /\ Lookalikes!Next
       /\ UNCHANGED <<part, notifiedVars, consentVars, domainVars,
                            custodyVars, accVars, retVars, graphVars>>
    \/ /\ part = "retention" /\ Retention!Next
       /\ UNCHANGED <<part, notifiedVars, consentVars, domainVars,
                            custodyVars, accVars, lookVars, graphVars>>
    \/ /\ part = "graph" /\ Graph!Next
       /\ UNCHANGED <<part, notifiedVars, consentVars, domainVars,
                            custodyVars, accVars, lookVars, retVars>>

Fairness ==
    /\ WF_notifiedVars(part = "notified" /\ Notified!Step)
    /\ WF_notifiedVars(part = "notified" /\ Notified!Poll)
    /\ WF_consentVars(part = "consent" /\ Consent!Age)
    /\ WF_consentVars(part = "consent" /\ Consent!StartRefresh("refresh"))
    /\ \A j \in Consent!Loop : WF_consentVars(part = "consent" /\ Consent!Finish(j))
    /\ WF_domainVars(part = "domains" /\ Domains!SweepLookup)
    /\ \A p \in Domains!Pair : WF_domainVars(part = "domains" /\ Domains!CacheExpires(p))
    /\ WF_domainVars(part = "domains" /\ Domains!Propagate)
    /\ WF_domainVars(part = "domains" /\ Domains!MarkVerified)
    /\ \A k \in {"sweep", "access"} : WF_domainVars(part = "domains" /\ Domains!Revoke(k))
    /\ \A m \in {"b1", "b2"} : WF_custodyVars(part = "custody" /\ Custody!Poll(m))
    /\ WF_accVars(part = "accounting" /\ Accounting!BillsStep)
    /\ WF_lookVars(part = "lookalikes" /\ Lookalikes!Reload)
    /\ WF_lookVars(part = "lookalikes" /\ Lookalikes!Drain)
    /\ WF_retVars(part = "retention" /\ Retention!Purge)
    /\ WF_graphVars(part = "graph" /\ Graph!Hydrate("worker"))

Spec == Init /\ [][Next]_vars /\ Fairness
-----------------------------------------------------------------------------
(* Whatever is lost, failed or restarted, what waits is handled: mail of a *)
(* notified mailbox is analysed, an open alert reaches the supplier's      *)
(* bills, a lookalike that was queued is recorded, a signup's domain comes *)
(* to be watched, what customers confirmed reaches the worker, and what is *)
(* past its time is deleted.                                               *)
EverythingIsHandled ==
    /\ part = "notified" => Notified!EveryMailAnalysed
    /\ part = "accounting" => Accounting!AlertIsHandled
    /\ part = "lookalikes" => Lookalikes!EveryMatchIsRecorded /\ Lookalikes!SignupsAreWatched
    /\ part = "graph" => Graph!WorkerLearns
    /\ part = "retention" => Retention!ExpiredIsPurged

(* A loss is noticed and its end as well: a mailbox whose consent or       *)
(* password no longer works is flagged, one that works again is cleared,   *)
(* and a company that takes its record down for good is no longer trusted. *)
LossesAreNoticed ==
    /\ part = "consent" => Consent!DarkIsFlagged /\ Consent!ReadableIsCleared
    /\ part = "custody" => Custody!DarkIsFlagged /\ Custody!ReadableIsCleared
    /\ part = "domains" => Domains!GoneIsNoticed
=============================================================================

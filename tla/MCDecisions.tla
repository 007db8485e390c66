--------------------------- MODULE MCDecisions ---------------------------
(* How mail is read besides the IMAP poll, and what is decided about it:   *)
(* the notified mailbox of an OAuth provider, its subscription and         *)
(* consent; one event with every combination of facts the detections tell  *)
(* apart, three mails of one supplier analysed by two overlapping jobs, the *)
(* links people click and the attachments they open; and the browser       *)
(* sensor that watches who reads (what one device watches, and two devices *)
(* of one mailbox). They share no state: one of them is chosen at the      *)
(* start, and only that one moves. The analyses are Analysis itself, the   *)
(* others instances beside it.                                             *)
EXTENDS Analysis, Sequences

CONSTANTS
    Lone,       \* the job that handles an event of any kind
    Few,        \* the mails of the supplier
    \* of Links
    Link, Warning, File, Risky, ListTtl, CleanTtl, MaxFiles, MaxTime,
    LookupFaults,
    \* of OAuthSync
    NotifiedMail, Gmail, Attempts, MaxStamps, PushFaults, MaxCrashes,
    NotifiedClicks,
    \* of OAuthToken
    Life, CheckEvery, MaxLinks, MaxRevokes, MaxDrops, ConsentFaults,
    \* of Sensor
    Device, Code, Net, SensorMail, Stale, Window, SensorTime, MaxBeats,
    MaxArms, SensorFaults,
    OneOfThem,  \* the device, code and network where there is but one
    FewArms     \* bound: changes of the switch where there are more

VARIABLES
    part,       \* the system that moves, chosen at the start
    \* of Links
    now, listed, flagged, confirmed, found, domains, verdicts, files,
    delivered, last, served, caught, linksFaults,
    \* of OAuthSync
    kind, place, notifiedCopies, notifiedStored, notifiedTold, stamped,
    wanted, flag, notifiedStamps, pushes, announced, notifiedKnown,
    notifiedTries, notifiedJob, clicked, notifiedFaults, crashes,
    notifiedOdd,
    \* of OAuthToken
    honoured, consentCred, fresh, reconnect, mails, links, used,
    consentConsents, calling, consentWork, revokes, consentOdd, consentSub,
    named, consentLeft, passed, deaf, drops, consentFaults,
    \* of Sensor
    sensorNow, codes, paired, revoked, open, beating, beats, vouched,
    sensorMail, reader, while, armed, arms, snap, look, sensorTold, alerts,
    excused, sensorLate, sensorOdd, sensorFaults

Remembered == INSTANCE Links WITH
    MaxFaults <- LookupFaults, faults <- linksFaults

Notified == INSTANCE OAuthSync WITH
    Mail <- NotifiedMail, Severity <- {"clean", "high", "critical"},
    MaxFaults <- PushFaults, MaxClicks <- NotifiedClicks,
    copies <- notifiedCopies, stored <- notifiedStored,
    told <- notifiedTold, stamps <- notifiedStamps,
    known <- notifiedKnown, tries <- notifiedTries, job <- notifiedJob,
    faults <- notifiedFaults, odd <- notifiedOdd

Consent == INSTANCE OAuthToken WITH
    MaxFaults <- ConsentFaults, cred <- consentCred,
    consents <- consentConsents, work <- consentWork, odd <- consentOdd,
    sub <- consentSub, left <- consentLeft, faults <- consentFaults

Watch == INSTANCE Sensor WITH
    Mail <- SensorMail, MaxTime <- SensorTime, MaxFaults <- SensorFaults,
    now <- sensorNow, mail <- sensorMail, told <- sensorTold,
    late <- sensorLate, odd <- sensorOdd, faults <- sensorFaults
-----------------------------------------------------------------------------
(* What the constants are, where a proof needs to know.                    *)

(* What the store knows of a sender is not said by the mail; every mailbox *)
(* has a source that reads inbound mail.                                   *)
OfTheStore == {"met", "known", "longKnown", "phone", "baseline", "account", "changed"}
ASSUME AnalysisBounds ==
    /\ IsFiniteSet(Job) /\ Nobody \notin Job /\ Lone \subseteq Job /\ Few \subseteq Event
    /\ Cap \in Nat /\ MaxEvents \in Nat /\ MaxFaults \in Nat
    /\ \A h \in History : /\ h = [count |-> h.count, banks |-> h.banks, phone |-> h.phone]
                          /\ h.count \in 0..10 /\ h.phone \in BOOLEAN /\ NoAccount \notin h.banks
    /\ \A e \in Event : e.kind = "mail" => e.facts \cap OfTheStore = {}
    /\ Plans \subseteq {"guard", "solo", "essential", "complete"}
    /\ \A s \in Sources : \E x \in s : "inbound" \in Can(x)

ASSUME LinksBounds ==
    /\ "none" \notin Link \cup File /\ Risky \subseteq File
    /\ ListTtl \in Nat /\ CleanTtl \in Nat /\ MaxTime \in Nat /\ MaxFiles \in Nat \ {0}

(* "none" stands for no message.                                           *)
ASSUME NotifiedBounds == "none" \notin NotifiedMail /\ MaxStamps \in Nat

(* A subscription is checked within its lifetime.                          *)
ASSUME ConsentBounds ==
    Life \in Nat \ {0} /\ CheckEvery \in 1..Life /\ MaxLinks \in Nat
-----------------------------------------------------------------------------
(* The values of a run.                                                    *)
Mails(facts, accounts) ==
    {[kind |-> "mail", facts |-> f, account |-> a] :
        f \in {f \in SUBSET facts : ~({"cousin", "homoglyph"} \subseteq f)}, a \in accounts}
AboutMoney == {"external", "payment", "attached", "urgent", "rerouted", "vouched",
               "feedSender", "newSigner", "cousin"}
AboutLinks == {"external", "payment", "softLink", "bareCode", "image", "malware",
               "login", "thread", "newReply"}
AboutSignIn == {"signIn", "previous", "abroad", "far", "fast", "vpn", "proxy", "hosting",
                "newDevice"}
MCEvents ==
    Mails(AboutMoney, {"none", "real", "fake"}) \cup Mails(AboutLinks, {"none"})
      \cup {[kind |-> "identity", facts |-> f, account |-> "none"] : f \in SUBSET AboutSignIn}
Past(count, banks, phone) == [count |-> count, banks |-> banks, phone |-> phone]
MCHistories == {Past(0, {}, FALSE), Past(1, {}, TRUE), Past(6, {"real"}, FALSE), Past(10, {"real"}, TRUE)}
MCFew ==
    {[kind |-> "mail", facts |-> {"external", "payment"} \cup f, account |-> a] :
        f \in {{}, {"urgent"}, {"cousin"}}, a \in {"real", "fake"}}
      \cup {[kind |-> "mail", facts |-> {"external"}, account |-> a] : a \in {"real", "fake"}}

MCSources == {{"imap", "sensor"}}
Stranger == Past(0, {}, FALSE)

linksVars ==
    <<now, listed, flagged, confirmed, found, domains, verdicts, files,
      delivered, last, served, caught, linksFaults>>
notifiedVars ==
    <<kind, place, notifiedCopies, notifiedStored, notifiedTold, stamped,
      wanted, flag, notifiedStamps, pushes, announced, notifiedKnown,
      notifiedTries, notifiedJob, clicked, notifiedFaults, crashes,
      notifiedOdd>>
consentVars ==
    <<honoured, consentCred, fresh, reconnect, mails, links, used,
      consentConsents, calling, consentWork, revokes, consentOdd,
      consentSub, named, consentLeft, passed, deaf, drops, consentFaults>>
sensorVars ==
    <<sensorNow, codes, paired, revoked, open, beating, beats, vouched,
      sensorMail, reader, while, armed, arms, snap, look, sensorTold,
      alerts, excused, sensorLate, sensorOdd, sensorFaults>>
decisionsVars ==
    <<part, vars, linksVars, notifiedVars, consentVars, sensorVars>>

DecisionsInit ==
    /\ part \in {"event", "supplier", "clicks", "files", "notified",
                 "consent", "watch", "devices"}
    /\ Init /\ Remembered!Init
    /\ Notified!Init /\ Consent!Init /\ Watch!Init
    /\ part # "event" => cp = Stranger /\ plan = "complete"

(* One event, whatever it says, and no failure.                            *)
OneEvent ==
    /\ part = "event" /\ faults' = faults
    /\ \E j \in Lone : (arrived = 0 /\ \E e \in Event : Read(j, e)) \/ Goes(j)

(* Few mails, side by side.                                                *)
SupplierMail ==
    /\ part = "supplier"
    /\ \E j \in Job : (\E e \in Few : Read(j, e)) \/ Goes(j)

Clicks ==
    /\ part = "clicks" /\ found' = found
    /\ Remembered!Turn \/ \E l \in Link : Remembered!OnLink(l)

Attachments ==
    /\ part = "files" /\ UNCHANGED <<listed, flagged, confirmed>>
    /\ Remembered!Turn \/ \E f \in File : Remembered!Analyse(f)

(* One device on any network and a switch thrown often, or more devices on *)
(* one network.                                                            *)
OneDevice ==
    /\ part = "watch" /\ Watch!Next
    /\ codes' \subseteq OneOfThem /\ \A p \in paired' : p[2] \in OneOfThem

SomeDevices ==
    /\ part = "devices" /\ Watch!Next
    /\ \A b \in beating' : b.net \in OneOfThem
    /\ arms' <= FewArms /\ sensorFaults' = sensorFaults

DecisionsNext ==
    \/ /\ OneEvent \/ SupplierMail
       /\ UNCHANGED <<part, linksVars, notifiedVars, consentVars, sensorVars>>
    \/ /\ Clicks \/ Attachments
       /\ UNCHANGED <<part, vars, notifiedVars, consentVars, sensorVars>>
    \/ /\ part = "notified" /\ Notified!Next
       /\ UNCHANGED <<part, vars, linksVars, consentVars, sensorVars>>
    \/ /\ part = "consent" /\ Consent!Next
       /\ UNCHANGED <<part, vars, linksVars, notifiedVars, sensorVars>>
    \/ /\ OneDevice \/ SomeDevices
       /\ UNCHANGED <<part, vars, linksVars, notifiedVars, consentVars>>

DecisionsSpec == DecisionsInit /\ [][DecisionsNext]_decisionsVars
-----------------------------------------------------------------------------
(* A notified mailbox loses no message: one is told of before it is        *)
(* touched, a CRITICAL one is out of the inbox once it is done with, and   *)
(* what was announced is not forgotten. A consent link is used once, people*)
(* are told once of a mailbox that went dark, and a subscription the       *)
(* provider dropped is noticed.                                            *)
NotifiedMailIsKept ==
    /\ Notified!TypeOK /\ Notified!AnnouncedNotForgotten /\ Notified!NothingLost
    /\ Notified!ToldBeforeTouched /\ Notified!CriticalEnforced /\ Notified!OneCopy
    /\ Consent!TypeOK /\ Consent!LinkUsedOnce /\ Consent!LossToldOnce
    /\ Consent!DeafIsNoticed

(* A change of a known supplier's account, and a first request for money in*)
(* disguise or under pressure, is Critical with a call, whatever else the  *)
(* mail says and whatever the judge answers; a sign-in from another country*)
(* is reported as long as the distance can be trusted; and one more finding*)
(* never calms an alert.                                                   *)
FraudIsReported ==
    TypeOK /\ ChangedAccountIsCritical /\ FirstStrikeIsCritical /\ MoreNeverCalms /\ MoveIsReported

(* In whatever order overlapping analyses finish, a first strike is not    *)
(* learned as the supplier's account, one mail teaches the baseline, and   *)
(* the month's calls of the judge stay within the cap.                     *)
LearningIsSound ==
    (plan # "guard" => StrikeTeachesNothing) /\ OneBaseline /\ SpendIsCapped

(* A link on a blocklist or confirmed as fraud does not open, unless its   *)
(* lookup went unanswered; a file found malicious is not served as anything*)
(* else, and stays caught.                                                 *)
CaughtIsBlocked ==
    /\ Remembered!TypeOK /\ Remembered!ListedIsBlocked /\ Remembered!ConfirmedIsBlocked
    /\ Remembered!FoundIsServed /\ Remembered!CaughtStaysCaught

(* Every alert of the sensor is a read no device vouched for, each is told *)
(* once, and a removed device no longer makes the mailbox look attended.   *)
SensorIsTruthful ==
    /\ Watch!TypeOK /\ Watch!RemovedIsAbsent
    /\ Watch!AlertsAreReads /\ Watch!ToldOnce

(* The sensor misses no read that no device vouched for, and who was last  *)
(* heard from longer ago than the stale time does not count as there.      *)
AbsenceIsWatched ==
    [][Watch!NothingMissedStep /\ Watch!AbsenceIsSeenStep]_decisionsVars

=============================================================================

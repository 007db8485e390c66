----------------------------- MODULE Retention -----------------------------
(***************************************************************************)
(* The purge that enforces the retention schedule.  One run deletes bodies,*)
(* telemetry, link tokens with their clicks and old findings, then expired *)
(* alerts in batches, each with everything that refers to it; the first    *)
(* commit comes with the first batch.  Rows keep being inserted meanwhile, *)
(* and the database refuses to delete a row that another still refers to.  *)
(***************************************************************************)
EXTENDS Integers, FiniteSets

CONSTANTS
    Alert, Token, Mail,                 \* rows that may come to exist
    BodyDays, ClickDays, TokenDays,     \* the schedule; one of TrailDays
    TrailDays, AlertDays,               \*   covers identity and audit events
    Batch,                              \* alerts per round
    MaxDay,                             \* bound: the last day
    MaxKids,                            \* bound: rows that refer to alerts
    MaxClicks,                          \* bound: clicks
    MaxSeen,                            \* bound: days with a session or an audit event
    MaxFaults                           \* bound: crashes

VARIABLES
    day,
    alert, token, mail, \* the day each row was made, or None
    body,               \* mails with a stored body (and its subject)
    subject,            \* mails with a subject
    kids,               \* rows that refer to an alert: <<kind, alert>>
    clicks,             \* clicks on a link: <<token, day>>
    trail,              \* days of identity and audit events
    run,                \* the purge: where it is, its day, what it is about to commit
    kidsMade, clicksMade, faults

vars == <<day, alert, token, mail, body, subject, kids, clicks, trail, run,
          kidsMade, clicksMade, faults>>

None == -1
Kind == {"delivery", "finding", "verification", "verdict"}
Nothing == [body |-> {}, clicks |-> {}, token |-> {}, trail |-> {}, kids |-> {}, alert |-> {}]
Idle == [at |-> "idle", day |-> None, gone |-> Nothing]

Init ==
    /\ day = 0
    /\ alert = [a \in Alert |-> None] /\ token = [t \in Token |-> None]
    /\ mail = [m \in Mail |-> None] /\ body = {} /\ subject = {}
    /\ kids = {} /\ clicks = {} /\ trail = {}
    /\ run = Idle
    /\ kidsMade = 0 /\ clicksMade = 0 /\ faults = 0

-----------------------------------------------------------------------------
(* The rest of the system: rows are made, links are clicked, days pass.    *)
Rest == <<kidsMade, clicksMade, faults, run>>

RaiseAlert(a) ==
    /\ alert[a] = None
    /\ alert' = [alert EXCEPT ![a] = day]
    /\ kids' = kids \cup {<<"finding", a>>}
    /\ UNCHANGED <<day, token, mail, body, subject, clicks, trail, Rest>>

Refer(kind, a) ==
    /\ alert[a] # None /\ <<kind, a>> \notin kids /\ kidsMade < MaxKids
    /\ kidsMade' = kidsMade + 1
    /\ kids' = kids \cup {<<kind, a>>}
    /\ UNCHANGED <<day, alert, token, mail, body, subject, clicks, trail,
                   clicksMade, faults, run>>

(* Ingestion stores the subject; it gives no message a body key.           *)
Receive(m) ==
    /\ mail[m] = None
    /\ mail' = [mail EXCEPT ![m] = day]
    /\ subject' = subject \cup {m}
    /\ UNCHANGED <<day, alert, token, body, kids, clicks, trail, Rest>>

(* A session, an attested read or an audit event.                          *)
Observe ==
    /\ day \notin trail /\ Cardinality(trail) < MaxSeen
    /\ trail' = trail \cup {day}
    /\ UNCHANGED <<day, alert, token, mail, body, subject, kids, clicks, Rest>>

Rewrite(t) ==
    /\ token[t] = None
    /\ token' = [token EXCEPT ![t] = day]
    /\ UNCHANGED <<day, alert, mail, body, subject, kids, clicks, trail, Rest>>

Follow(t) ==
    /\ token[t] # None /\ clicksMade < MaxClicks
    /\ clicksMade' = clicksMade + 1
    /\ clicks' = clicks \cup {<<t, day>>}
    /\ UNCHANGED <<day, alert, token, mail, body, subject, kids, trail,
                   kidsMade, faults, run>>

NextDay ==
    /\ day < MaxDay
    /\ day' = day + 1
    /\ UNCHANGED <<alert, token, mail, body, subject, kids, clicks, trail, Rest>>

-----------------------------------------------------------------------------
(* The purge.                                                              *)

(* Older than its class allows, on the day the run began.                  *)
Expired(made, days, today) == made # None /\ made < today - days

Remaining(x, gone) == {y \in x : y \notin gone}

(* Bodies, telemetry and tokens, in one open transaction.  A click goes by *)
(* its own age or with its token; findings have the alerts' lifetime.      *)
DoomedTokensOfClicks(today) == {t \in Token : Expired(token[t], ClickDays, today)}
DoomedTokens(today) == {t \in Token : Expired(token[t], TokenDays, today)}
ClicksToGo(today) == {c \in clicks : Expired(c[2], ClickDays, today) \/ c[1] \in DoomedTokens(today)}
FindingsToGo(today) ==
    {k \in kids : k[1] = "finding" /\ Expired(alert[k[2]], AlertDays, today)}
Begin ==
    /\ run.at = "idle"
    /\ run' = [at |-> "batch", day |-> day,
               gone |-> [Nothing EXCEPT
                  !.body = {m \in body : Expired(mail[m], BodyDays, day)},
                  !.clicks = ClicksToGo(day),
                  !.token = DoomedTokens(day),
                  !.trail = {d \in trail : Expired(d, TrailDays, day)},
                  !.kids = FindingsToGo(day)]]
    /\ UNCHANGED <<day, alert, token, mail, body, subject, kids, clicks, trail,
                   kidsMade, clicksMade, faults>>

(* The next batch of expired alerts; everything that refers to one goes    *)
(* first.  With none left the run commits what it has and ends.            *)
ExpiredAlerts == {a \in Alert : Expired(alert[a], AlertDays, run.day)}
Children(batch) == {k \in kids : k[2] \in batch}
PickBatch ==
    /\ run.at = "batch" /\ ExpiredAlerts # {}
    /\ \E batch \in SUBSET ExpiredAlerts :
        /\ batch # {} /\ Cardinality(batch) <= Batch
        /\ Cardinality(batch) = Batch \/ batch = ExpiredAlerts
        /\ run' = [run EXCEPT !.at = "commit", !.gone.alert = batch,
                              !.gone.kids = @ \cup Children(batch)]
    /\ UNCHANGED <<day, alert, token, mail, body, subject, kids, clicks, trail,
                   kidsMade, clicksMade, faults>>
NoBatch ==
    /\ run.at = "batch" /\ ExpiredAlerts = {}
    /\ run' = [run EXCEPT !.at = "last"]
    /\ UNCHANGED <<day, alert, token, mail, body, subject, kids, clicks, trail,
                   kidsMade, clicksMade, faults>>

(* What still refers to a row that is about to go makes its delete fail,   *)
(* and everything since the last commit is rolled back.                    *)
Referred ==
    \/ \E k \in Remaining(kids, run.gone.kids) : k[2] \in run.gone.alert
    \/ \E c \in Remaining(clicks, run.gone.clicks) : c[1] \in run.gone.token

(* A body takes the subject with it.                                       *)
Commit ==
    /\ run.at \in {"commit", "last"} /\ ~Referred
    /\ alert' = [a \in Alert |-> IF a \in run.gone.alert THEN None ELSE alert[a]]
    /\ token' = [t \in Token |-> IF t \in run.gone.token THEN None ELSE token[t]]
    /\ body' = body \ run.gone.body /\ subject' = subject \ run.gone.body
    /\ kids' = kids \ run.gone.kids /\ clicks' = clicks \ run.gone.clicks
    /\ trail' = trail \ run.gone.trail
    /\ run' = IF run.at = "last" THEN Idle
              ELSE [run EXCEPT !.at = "batch", !.gone = Nothing]
    /\ UNCHANGED <<day, mail, kidsMade, clicksMade, faults>>

(* The scheduler logs the failure and runs the job again on its interval.  *)
RollBack ==
    /\ run.at \in {"commit", "last"} /\ Referred
    /\ run' = Idle
    /\ UNCHANGED <<day, alert, token, mail, body, subject, kids, clicks, trail,
                   kidsMade, clicksMade, faults>>

Crash ==
    /\ run # Idle /\ faults < MaxFaults
    /\ faults' = faults + 1
    /\ run' = Idle
    /\ UNCHANGED <<day, alert, token, mail, body, subject, kids, clicks, trail,
                   kidsMade, clicksMade>>

Purge == Begin \/ PickBatch \/ NoBatch \/ Commit \/ RollBack
Next ==
    \/ Purge \/ Crash \/ NextDay \/ Observe
    \/ \E a \in Alert : RaiseAlert(a) \/ \E k \in Kind : Refer(k, a)
    \/ \E m \in Mail : Receive(m)
    \/ \E t \in Token : Rewrite(t) \/ Follow(t)

Fairness == WF_vars(Purge)
Spec == Init /\ [][Next]_vars /\ Fairness

-----------------------------------------------------------------------------
(* Types; and what the database enforces: no row refers to one that is not *)
(* there.                                                                  *)
TypeOK ==
    /\ day \in 0 .. MaxDay
    /\ alert \in [Alert -> -1 .. day] /\ token \in [Token -> -1 .. day]
    /\ \A k \in kids : k \in Kind \X Alert /\ alert[k[2]] # None
    /\ \A c \in clicks : token[c[1]] # None
    /\ body \subseteq subject /\ run.at \in {"idle", "batch", "commit", "last"}

(* Nothing goes before its time: an alert the schedule still keeps has its *)
(* evidence, and a rewritten link works for as long as its class says.     *)
KeptForItsTime ==
    \A a \in Alert : alert[a] # None /\ ~Expired(alert[a], AlertDays, day)
                        => <<"finding", a>> \in kids
LinksWorkStep ==
    \A t \in Token : token[t] # None /\ token'[t] = None
                         => Expired(token[t], TokenDays, day)
LinksWork == [][LinksWorkStep]_vars

(* Every alert and every link past its time is deleted in the end, with    *)
(* the telemetry and whatever refers to them, however inserts interleave.  *)
ExpiredIsPurged ==
    /\ \A a \in Alert : Expired(alert[a], AlertDays, day) ~> alert[a] = None
    /\ \A t \in Token : Expired(token[t], TokenDays, day) ~> token[t] = None
    /\ (\E d \in trail : Expired(d, TrailDays, day)) ~>
           ~(\E d \in trail : Expired(d, TrailDays, day))

(* "drop the body pointer + subject": no subject outlives the body's days  *)
(* once a run that began after them has ended.                             *)
SubjectsExpire ==
    [][run.at = "last" /\ run'.at = "idle" /\ ~Referred =>
        \A m \in subject' : ~Expired(mail[m], BodyDays, run.day)]_vars
=============================================================================

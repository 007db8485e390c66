----------------------------- MODULE Accounting -----------------------------
(***************************************************************************)
(* The connection to a customer's accounting systems: consent, the rolling *)
(* refresh token, the supplier sync with its three triggers, and the note  *)
(* left on a supplier's unpaid bills when an alert says its bank details   *)
(* are being changed.  Three worker loops and the API touch one row; every *)
(* call to the provider is awaited between reading and committing it.      *)
(***************************************************************************)
EXTENDS Naturals, FiniteSets

CONSTANTS
    Provider,       \* accounting systems the tenant may connect
    Idempotent,     \* those whose client looks for its own note first
    Loop,           \* the worker's loops: "requested", "cadence", "bills"
    Alert,          \* bank-change alerts that may be raised
    MaxConsents,    \* bound: consents given
    MaxTokens,      \* bound: refresh tokens issued for one provider
    MaxExpiries,    \* bound: access tokens that run out
    MaxClicks,      \* bound: "Sync now" pressed, settings and disconnects
    MaxFaults       \* bound: failed calls and crashes

VARIABLES
    conn,       \* the row of a connection, or NoConn
    live,       \* refresh tokens the provider still honours
    issued,     \* the newest refresh token issued
    stale,      \* providers whose access token is about to run out
    alert,      \* alerts: not raised, open, dismissed or too old
    done,       \* alerts with the audit event that marks them
    notes,      \* notes on each provider's bills for each alert (up to 2)
    failed,     \* the attempts whose last try failed
    job,        \* each loop: what it is doing, and with what
    consents, clicks, expiries, faults,
    odd         \* "crash", "overlap": what has happened to a connection

vars == <<conn, live, issued, stale, alert, done, notes, failed, job,
          consents, clicks, expiries, faults, odd>>

NoConn == [id |-> 0, token |-> 0, asked |-> FALSE, error |-> FALSE,
           known |-> FALSE, flag |-> FALSE]
Row == [id : 0 .. MaxConsents, token : 0 .. MaxTokens, asked : BOOLEAN, error : BOOLEAN,
        known : BOOLEAN, flag : BOOLEAN]
NoAlert == "none"
Rest == [at |-> "rest", todo |-> {}, p |-> "none", a |-> NoAlert, token |-> 0,
         id |-> 0]

Init ==
    /\ conn = [p \in Provider |-> NoConn]
    /\ live = [p \in Provider |-> {}] /\ issued = [p \in Provider |-> 0]
    /\ stale = {}
    /\ alert = [a \in Alert |-> "none"] /\ done = {}
    /\ notes = [x \in Provider \X Alert |-> 0] /\ failed = {}
    /\ job = [l \in Loop |-> Rest]
    /\ consents = 0 /\ clicks = 0 /\ expiries = 0 /\ faults = 0 /\ odd = {}

-----------------------------------------------------------------------------
(* The API.                                                                *)

On(p) == conn[p].id # 0
Busy(p) == \E l \in Loop : job[l].p = p /\ job[l].at # "rest"

(* The consent comes back with a code, which is exchanged for tokens; a    *)
(* connection that exists keeps its settings and its suppliers.            *)
Connected(p, t) ==
    [id |-> IF On(p) THEN conn[p].id ELSE consents + 1, token |-> t, asked |-> TRUE,
     error |-> FALSE, known |-> conn[p].known, flag |-> On(p) => conn[p].flag]
Consent(p) ==
    /\ consents < MaxConsents /\ issued[p] < MaxTokens
    /\ consents' = consents + 1
    /\ issued' = [issued EXCEPT ![p] = @ + 1]
    /\ live' = [live EXCEPT ![p] = @ \cup {issued[p] + 1}]
    /\ conn' = [conn EXCEPT ![p] = Connected(p, issued[p] + 1)]
    /\ stale' = stale \ {p}
    /\ odd' = odd \cup {"overlap" : x \in {y \in {p} : Busy(y)}}
    /\ UNCHANGED <<alert, done, notes, failed, job, clicks, expiries, faults>>

Click(p, row) ==
    /\ On(p) /\ clicks < MaxClicks
    /\ clicks' = clicks + 1
    /\ conn' = [conn EXCEPT ![p] = row]
    /\ odd' = odd \cup {"overlap" : x \in {y \in {p} : Busy(y)}}
    /\ failed' = {x \in failed : x[1] # p \/ row.id # 0}
    /\ UNCHANGED <<live, issued, stale, alert, done, notes, job, consents, expiries, faults>>
SyncNow(p) == Click(p, [conn[p] EXCEPT !.asked = TRUE])
SetFlagging(p, on) == Click(p, [conn[p] EXCEPT !.flag = on])
Disconnect(p) == Click(p, NoConn)

-----------------------------------------------------------------------------
(* The worker's loops.                                                     *)

Step(l, s) == job' = [job EXCEPT ![l] = s]
Fault(kind) ==
    /\ faults < MaxFaults /\ faults' = faults + 1
    /\ odd' = odd \cup (IF kind = "crash" THEN {"crash"} ELSE {})

(* The connections to sync: asked for, or due on the cadence as well.      *)
Due(l) == {p \in Provider : On(p) /\ (l = "requested" => conn[p].asked)}
StartSync(l) ==
    /\ l # "bills" /\ job[l].at = "rest"
    /\ \E todo \in SUBSET Due(l) :
        /\ todo # {} /\ {p \in Due(l) : conn[p].asked} \subseteq todo
        /\ Step(l, [Rest EXCEPT !.at = "list", !.todo = {<<p, NoAlert>> : p \in todo}])
    /\ UNCHANGED <<conn, live, issued, stale, alert, done, notes, failed,
                   consents, clicks, expiries, faults, odd>>

(* The alerts to act on: recent, not dismissed, not marked, joined with    *)
(* every connection that has bill flagging on.                             *)
Unmarked(a) == a \notin done
Open == {a \in Alert : alert[a] = "open" /\ Unmarked(a)}
StartFlagging ==
    /\ "bills" \in Loop /\ job["bills"].at = "rest"
    /\ LET todo == {x \in Provider \X Open : On(x[1]) /\ conn[x[1]].flag}
       IN  /\ todo # {}
           /\ Step("bills", [Rest EXCEPT !.at = "list", !.todo = todo])
    /\ UNCHANGED <<conn, live, issued, stale, alert, done, notes, failed,
                   consents, clicks, expiries, faults, odd>>

(* The next one is read again in a session of its own; one that has gone   *)
(* is passed over.  Bills of a supplier no sync has seen are not looked    *)
(* for: the alert is marked at once.                                       *)
Matched(l, p) == l # "bills" \/ conn[p].known
Take(l) ==
    /\ job[l].at = "list"
    /\ \E x \in job[l].todo :
        LET rest == job[l].todo \ {x}
            p == x[1]
        IN  Step(l, IF On(p)
                    THEN [at |-> IF Matched(l, p) THEN "token" ELSE "mark", todo |-> rest,
                          p |-> p, a |-> x[2], token |-> conn[p].token,
                          id |-> conn[p].id]
                    ELSE [Rest EXCEPT !.at = "list", !.todo = rest])
    /\ UNCHANGED <<conn, live, issued, stale, alert, done, notes, failed,
                   consents, clicks, expiries, faults, odd>>

EndList(l) ==
    /\ job[l].at = "list" /\ job[l].todo = {}
    /\ Step(l, Rest)
    /\ UNCHANGED <<conn, live, issued, stale, alert, done, notes, failed,
                   consents, clicks, expiries, faults, odd>>

Holds(l) == conn[job[l].p].id = job[l].id      \* the row it read is still there
Next1(l) == [Rest EXCEPT !.at = "list", !.todo = job[l].todo]
To(l, at) == [job[l] EXCEPT !.at = at]

(* An access token that is not about to run out is used as it is.          *)
UseToken(l) ==
    /\ job[l].at = "token"
    /\ job[l].p \notin stale
    /\ Step(l, To(l, "call"))
    /\ UNCHANGED <<conn, live, issued, stale, alert, done, notes, failed,
                   consents, clicks, expiries, faults, odd>>

(* Otherwise the stored refresh token is spent for the next one, ...       *)
Refresh(l) ==
    LET p == job[l].p
    IN  /\ job[l].at = "token" /\ p \in stale
        /\ job[l].token \in live[p] /\ issued[p] < MaxTokens
        /\ live' = [live EXCEPT ![p] = (@ \ {job[l].token}) \cup {issued[p] + 1}]
        /\ issued' = [issued EXCEPT ![p] = @ + 1]
        /\ Step(l, [To(l, "store") EXCEPT !.token = issued[p] + 1])
        /\ UNCHANGED <<conn, stale, alert, done, notes, failed, consents, clicks, expiries,
                       faults, odd>>

(* ... which both providers rotate, so it is stored in a commit of its own.*)
RotatedKeep(l, row) == row
Rotated(l, row) == [row EXCEPT !.token = job[l].token]
StoreToken(l) ==
    LET p == job[l].p
    IN  /\ job[l].at = "store" /\ Holds(l)
        /\ conn' = [conn EXCEPT ![p] = Rotated(l, @)]
        /\ stale' = stale \ {p}
        /\ Step(l, To(l, "call"))
        /\ UNCHANGED <<live, issued, alert, done, notes, failed, consents,
                       clicks, expiries, faults, odd>>

(* What a failure anywhere in the calls leaves: a sync writes the error on *)
(* the connection and takes the request as answered, the bills loop goes   *)
(* on without marking the alert.  A sync whose row has gone ends the cycle.*)
Errored(l, row) ==
    IF l = "bills" \/ ~Holds(l) THEN row ELSE [row EXCEPT !.error = TRUE, !.asked = FALSE]
After(l) == IF l = "bills" \/ Holds(l) THEN Next1(l) ELSE Rest
AfterError(l) == After(l)
Fails(l) ==
    /\ conn' = [conn EXCEPT ![job[l].p] = Errored(l, @)]
    /\ failed' = IF l = "bills" /\ Holds(l) THEN failed \cup {<<job[l].p, job[l].a>>} ELSE failed
    /\ Step(l, AfterError(l))

(* A refresh with a token another loop has spent meanwhile is refused, and *)
(* the commit of a connection that was deleted finds no row.               *)
Refused(l) ==
    /\ \/ /\ job[l].at = "token" /\ job[l].p \in stale
          /\ job[l].token \notin live[job[l].p]
       \/ job[l].at = "store" /\ ~Holds(l)
    /\ Fails(l)
    /\ UNCHANGED <<live, issued, stale, alert, done, notes, consents, clicks, expiries, faults, odd>>

CallFails(l) ==
    /\ job[l].at = "call" /\ Fault("call") /\ Fails(l)
    /\ \/ notes' = notes
       \/ \* some bills have their note already
          /\ l = "bills" /\ notes[<<job[l].p, job[l].a>>] < 2
          /\ ~(job[l].p \in Idempotent /\ notes[<<job[l].p, job[l].a>>] = 1)
          /\ notes' = [notes EXCEPT ![<<job[l].p, job[l].a>>] = @ + 1]
    /\ UNCHANGED <<live, issued, stale, alert, done, consents, clicks, expiries>>

(* The supplier list is read and written into the ledger.                  *)
FinishSync(l) ==
    LET p == job[l].p
    IN  /\ l # "bills" /\ job[l].at = "call"
        /\ conn' = [conn EXCEPT ![p] =
                       IF Holds(l)
                       THEN [@ EXCEPT !.known = TRUE, !.error = FALSE, !.asked = FALSE]
                       ELSE @]
        /\ Step(l, After(l))
        /\ UNCHANGED <<live, issued, stale, alert, done, notes, failed,
                       consents, clicks, expiries, faults, odd>>

(* The unpaid bills are noted.  Only one of the clients looks whether its  *)
(* note is there.                                                          *)
Noted(p, n) == IF p \in Idempotent \/ n = 2 THEN IF n = 2 THEN 2 ELSE 1 ELSE n + 1
NoteBills ==
    LET x == <<job["bills"].p, job["bills"].a>>
    IN  /\ job["bills"].at = "call"
        /\ notes' = [notes EXCEPT ![x] = Noted(x[1], @)]
        /\ failed' = failed \ {x}
        /\ Step("bills", To("bills", "mark"))
        /\ UNCHANGED <<conn, live, issued, stale, alert, done, consents, clicks, expiries,
                       faults, odd>>

(* The audit event is the mark that this alert has been dealt with.        *)
Mark ==
    /\ job["bills"].at = "mark"
    /\ done' = done \cup {job["bills"].a}
    /\ Step("bills", Next1("bills"))
    /\ UNCHANGED <<conn, live, issued, stale, alert, notes, failed, consents,
                   clicks, expiries, faults, odd>>

Crash ==
    /\ \E l \in Loop : job[l].at # "rest"
    /\ Fault("crash")
    /\ job' = [l \in Loop |-> Rest]
    /\ UNCHANGED <<conn, live, issued, stale, alert, done, notes, failed, consents, clicks, expiries>>

-----------------------------------------------------------------------------
(* Time and the analysis of mail.                                          *)
Expire(p) ==
    /\ On(p) /\ p \notin stale /\ expiries < MaxExpiries
    /\ stale' = stale \cup {p}
    /\ expiries' = expiries + 1
    /\ UNCHANGED <<conn, live, issued, alert, done, notes, failed, job,
                   consents, clicks, faults, odd>>

SetAlert(a, from, to) ==
    /\ alert[a] = from
    /\ alert' = [alert EXCEPT ![a] = to]
    /\ UNCHANGED <<conn, live, issued, stale, done, notes, failed, job,
                   consents, clicks, expiries, faults, odd>>

LoopStep(l) == \/ StartSync(l) \/ Take(l) \/ EndList(l) \/ UseToken(l) \/ Refresh(l)
               \/ StoreToken(l) \/ Refused(l) \/ CallFails(l) \/ FinishSync(l)

Next ==
    \/ \E p \in Provider : \/ Consent(p) \/ SyncNow(p) \/ Disconnect(p) \/ Expire(p)
                           \/ \E on \in BOOLEAN : SetFlagging(p, on)
    \/ \E l \in Loop : LoopStep(l)
    \/ StartFlagging \/ NoteBills \/ Mark \/ Crash
    \/ \E a \in Alert : \/ SetAlert(a, "none", "open")
                        \/ SetAlert(a, "open", "dismissed") \/ SetAlert(a, "open", "old")

BillsStep == StartFlagging \/ LoopStep("bills") \/ NoteBills \/ Mark
Fairness == WF_vars(BillsStep)
Spec == Init /\ [][Next]_vars /\ Fairness

-----------------------------------------------------------------------------
(* Types; a loop that works on a connection holds a token that was issued. *)
TypeOK ==
    /\ conn \in [Provider -> Row]
    /\ \A p \in Provider : /\ On(p) = (conn[p].token > 0)
                           /\ ~On(p) => conn[p] = NoConn
                           /\ live[p] \subseteq 1 .. issued[p]
    /\ stale \subseteq Provider
    /\ done \subseteq {a \in Alert : alert[a] # "none"}
    /\ notes \in [Provider \X Alert -> 0 .. 2]
    /\ \A l \in Loop : job[l].at \in {"rest", "list"} <=> job[l].p = "none"

(* A connection does not die of its own refreshes: the stored token is the *)
(* one the provider honours unless the process died between the two, a     *)
(* refresh is just being stored, or the customer acted on the connection   *)
(* in the middle of one.                                                   *)
ConnectionLives ==
    \A p \in Provider :
        On(p) => \/ conn[p].token \in live[p] \/ odd # {}
                      \/ \E l \in Loop : job[l].at = "store" /\ job[l].p = p

(* The note is written once on a supplier's bills, and a second time only  *)
(* after a failure, in a system whose client does not look for it.         *)
NotedOnce ==
    \A x \in Provider \X Alert :
        notes[x] = 2 => x[1] \notin Idempotent /\ faults > 0

(* "continue  # retried next cycle; not marked done": an alert whose bills *)
(* could not be noted is not marked.                                       *)
FailureIsRetried ==
    \A x \in failed : On(x[1]) => x[2] \notin done

(* Every open alert comes to be marked while a connection has bill         *)
(* flagging on.                                                            *)
AlertIsHandled ==
    \A a \in Alert :
        alert[a] = "open" ~> \/ a \in done \/ alert[a] # "open"
                             \/ \A p \in Provider : ~On(p) \/ ~conn[p].flag
                                                    \/ conn[p].token \notin live[p]
=============================================================================

-------------------------------- MODULE Sensor --------------------------------
(***************************************************************************)
(* "Someone else opened your mail" for one mailbox: the devices paired with *)
(* it (api/sensor.py), their heartbeats and attested reads                 *)
(* (api/channels.py), and the look of each poll at what was read since the *)
(* last one (workers/imap_fetch.py, workers/oauth_fetch.py), judged by     *)
(* evaluate_read and C11 (platform/sensor.py, detections/identity.py).     *)
(***************************************************************************)
EXTENDS Naturals, FiniteSets

CONSTANTS
    Device, Mail, Code,
    Net,            \* networks a device reports from
    Stale,          \* SESSION_STALE_SECONDS, in ticks
    Window,         \* ATTESTATION_WINDOW_SECONDS, in ticks
    MaxTime,        \* bound: the clock
    MaxBeats,       \* bound: heartbeats
    MaxArms,        \* bound: changes of the switch
    MaxFaults       \* bound: polls that fail

VARIABLES
    now,
    codes,      \* pairing codes made and not used
    paired,     \* enrolments: <<code, device>>
    revoked,    \* devices removed
    open,       \* sessions not ended: [dev, net, seen]
    beating,    \* heartbeats past their token check: [dev, net, at]
    beats,
    vouched,    \* AttestedRead: [ref, at]
    mail,       \* "unread", "read" or "gone"
    reader,     \* who made the read: a device, "other", or "none"
    while,      \* the switch when it was made
    armed,      \* Mailbox.silent_access_armed
    arms,
    snap,       \* MailboxCredential.imap_unseen_uids: {} or {the unread set}
    look,       \* the poll's look under way: [was, unread, left, fresh]
    told,       \* people told, by message
    alerts,     \* alerts of committed polls
    excused,    \* reads judged and found covered by a device or a report
    late,       \* heartbeats that ended after their device was removed (history)
    odd,        \* what overlapped or failed (history)
    faults

devices == <<codes, paired, revoked, open, beating, beats, vouched, late>>
inbox == <<mail, reader, while>>
watch == <<snap, look, told, alerts, excused>>
vars == <<now, devices, inbox, armed, arms, watch, odd, faults>>

Enrolled == {p[2] : p \in paired} \ revoked
Idle == [was |-> {}, unread |-> {}, left |-> {}, alerts |-> {}, on |-> FALSE]

Init ==
    /\ now = 0 /\ codes = {} /\ paired = {} /\ revoked = {} /\ open = {} /\ beating = {}
    /\ beats = 0 /\ vouched = {} /\ late = {}
    /\ mail = [m \in Mail |-> "unread"] /\ reader = [m \in Mail |-> "none"]
    /\ while = [m \in Mail |-> TRUE]
    /\ armed = FALSE /\ arms = 0 /\ snap = {} /\ look = Idle
    /\ told = [m \in Mail |-> 0] /\ alerts = {} /\ excused = {} /\ odd = {} /\ faults = 0

Tick == /\ now < MaxTime /\ now' = now + 1
        /\ UNCHANGED <<devices, inbox, armed, arms, watch, odd, faults>>
-----------------------------------------------------------------------------
(* Pairing: a code is claimed by an atomic update, once.                   *)
CreatePairing(c) ==
    /\ c \notin codes /\ \A p \in paired : p[1] # c
    /\ codes' = codes \cup {c}
    /\ UNCHANGED <<now, paired, revoked, open, beating, beats, vouched, late, inbox, armed,
                   arms, watch, odd, faults>>

Claimed(c) == codes \ {c}

Enroll(c, d) ==
    /\ c \in codes /\ \A p \in paired : p[2] # d
    /\ codes' = Claimed(c) /\ paired' = paired \cup {<<c, d>>}
    /\ UNCHANGED <<now, revoked, open, beating, beats, vouched, late, inbox, armed, arms,
                   watch, odd, faults>>

(* revoke_device: its open sessions end with it.                           *)
Remaining(d) == {s \in open : s.dev # d}

RevokeDevice(d) ==
    /\ d \in Enrolled
    /\ revoked' = revoked \cup {d} /\ open' = Remaining(d)
    /\ late' = IF \E b \in beating : b.dev = d THEN late \cup {d} ELSE late
    /\ UNCHANGED <<now, codes, paired, beating, beats, vouched, inbox, armed, arms, watch, odd,
                   faults>>

(* sensor_heartbeat: the token is checked first; the location is looked up *)
(* and a sign-in analysed before the session is written.                   *)
Live(s) == now - s.seen <= Stale

BeatStart(d, n) ==
    /\ d \in Enrolled /\ beats < MaxBeats /\ \A b \in beating : b.dev # d
    /\ beats' = beats + 1
    /\ beating' = beating \cup {[dev |-> d, net |-> n, at |-> now,
                                 seen |-> {s \in open : s.dev = d}]}
    /\ UNCHANGED <<now, codes, paired, revoked, open, vouched, late, inbox, armed, arms, watch,
                   odd, faults>>

(* A live session on the same network goes on; any other ends, and the     *)
(* beat opens a new one: a sign-in.                                        *)
Continues(b, s) == b.at - s.seen <= Stale /\ s.net = b.net

BeatEnd(b) ==
    /\ b \in beating /\ beating' = beating \ {b}
    /\ open' = LET mine == {s \in b.seen : Continues(b, s)}
               IN  (open \ b.seen) \cup
                   IF mine = {} THEN {[dev |-> b.dev, net |-> b.net, seen |-> b.at]}
                   ELSE {[s EXCEPT !.seen = b.at] : s \in mine \cap open}
    /\ UNCHANGED <<now, codes, paired, revoked, beats, vouched, late, inbox, armed, arms, watch,
                   odd, faults>>
-----------------------------------------------------------------------------
(* The mailbox. An owner's client names the message it opened, or only     *)
(* says that it is being read ("*"); a phone without a sensor says nothing.*)
ReadMail(m, who) ==
    /\ mail[m] = "unread" /\ mail' = [mail EXCEPT ![m] = "read"]
    /\ reader' = [reader EXCEPT ![m] = who] /\ while' = [while EXCEPT ![m] = armed]

OpenMail(d, m) ==
    /\ d \in Enrolled /\ ReadMail(m, "owner")
    /\ \E ref \in {m, "*"} : vouched' = vouched \cup {[ref |-> ref, at |-> now]}
    /\ UNCHANGED <<now, codes, paired, revoked, open, beating, beats, late, armed, arms, watch,
                   odd, faults>>

OtherReads(m) ==
    /\ ReadMail(m, "other")
    /\ UNCHANGED <<now, devices, armed, arms, watch, odd, faults>>

Remove(m) ==
    /\ mail[m] = "unread" /\ mail' = [mail EXCEPT ![m] = "gone"]
    /\ UNCHANGED <<now, devices, reader, while, armed, arms, watch, odd, faults>>

(* update_mailbox: the switch; the remembered set is forgotten with it.    *)
Kept == snap
Forgotten == {}

Arm(on) ==
    /\ armed # on /\ arms < MaxArms /\ armed' = on /\ arms' = arms + 1
    /\ snap' = Forgotten
    /\ odd' = IF look.on THEN odd \cup {"switched"} ELSE odd
    /\ UNCHANGED <<now, devices, inbox, look, told, alerts, excused, faults>>
-----------------------------------------------------------------------------
(* The poll's look: off or without a device, the set is dropped; else what *)
(* left it and is still there was read.                                    *)
Unread == {m \in Mail : mail[m] = "unread"}

ReadSince(was) == {m \in was : mail[m] = "read"}

Look ==
    /\ ~look.on
    /\ IF armed /\ Enrolled # {}
       THEN /\ look' = [was |-> snap, unread |-> Unread, alerts |-> {}, on |-> TRUE,
                        left |-> UNION {ReadSince(was) : was \in snap}]
            /\ UNCHANGED snap
       ELSE snap' = {} /\ UNCHANGED look
    /\ UNCHANGED <<now, devices, inbox, armed, arms, told, alerts, excused, odd, faults>>

(* evaluate_read, then the delivery of its alert.                          *)
Attested(m) == \E v \in vouched : v.ref \in {m, "*"} /\ now - v.at <= Window

Present == \E s \in open : Live(s)

Judge(m) ==
    /\ m \in look.left
    /\ IF Attested(m) \/ Present
       THEN excused' = excused \cup {m} /\ UNCHANGED told
       ELSE told' = [told EXCEPT ![m] = @ + 1] /\ UNCHANGED excused
    /\ look' = [look EXCEPT !.left = @ \ {m},
                            !.alerts = IF Attested(m) \/ Present THEN @ ELSE @ \cup {m}]
    /\ UNCHANGED <<now, devices, inbox, armed, arms, snap, alerts, odd, faults>>

(* The poll commits at its end: the alerts and the new set together. A set *)
(* equal to the one that was loaded is not written.                        *)
Remembered == IF look.was = {look.unread} THEN snap ELSE {look.unread}

CommitPoll ==
    /\ look.on /\ look.left = {} /\ look' = Idle
    /\ snap' = Remembered /\ alerts' = alerts \cup look.alerts
    /\ UNCHANGED <<now, devices, inbox, armed, arms, told, excused, odd, faults>>

(* The server does not answer, or the poll fails later on, or the process  *)
(* dies: nothing is committed.                                             *)
FailedForgets == {look.unread}
FailedKeeps == snap

PollFails ==
    /\ look.on /\ faults < MaxFaults /\ faults' = faults + 1
    /\ look' = Idle /\ snap' = FailedKeeps /\ odd' = odd \cup {"failed"}
    /\ UNCHANGED <<now, devices, inbox, armed, arms, told, alerts, excused>>
-----------------------------------------------------------------------------
Next ==
    \/ Tick \/ Look \/ CommitPoll \/ PollFails
    \/ \E c \in Code : CreatePairing(c) \/ \E d \in Device : Enroll(c, d)
    \/ \E d \in Device : RevokeDevice(d) \/ \E n \in Net : BeatStart(d, n)
    \/ \E b \in beating : BeatEnd(b)
    \/ \E m \in Mail : OtherReads(m) \/ Remove(m) \/ Judge(m) \/ \E d \in Device : OpenMail(d, m)
    \/ \E on \in BOOLEAN : Arm(on)

Spec == Init /\ [][Next]_vars
-----------------------------------------------------------------------------
(* Properties                                                              *)

(* Every variable keeps its shape, a device has one open session, and one  *)
(* pairing code never enrols two devices.                                  *)
TypeOK ==
    /\ snap \subseteq SUBSET Mail /\ Cardinality(snap) <= 1
    /\ alerts \subseteq Mail /\ excused \subseteq Mail
    /\ \A p, q \in paired : p[1] = q[1] => p = q
    /\ \A s, t \in open : s.dev = t.dev => s = t

(* A removed device is no longer anybody's presence: it has no open session *)
(* that would keep the mailbox looking attended, unless a heartbeat of it  *)
(* was under way when it was removed.                                      *)
RemovedIsAbsent == \A s \in open : s.dev \in revoked => s.dev \in late

(* What is reported was read, by somebody no device vouched for, while the *)
(* detection was on: a deletion is not a read, and switching on reports    *)
(* nothing of the time before. A switch thrown during a look is excepted.  *)
AlertsAreReads ==
    "switched" \notin odd =>
        \A m \in alerts : mail[m] = "read" /\ while[m]

(* Each read is told once, when no poll fails after telling it.            *)
ToldOnce == odd = {} => \A m \in Mail : told[m] <= 1

(* A read nobody vouched for is not missed: once the set that holds the    *)
(* message is remembered and the switch stays on, the message is reported, *)
(* or was found covered, or still waits in the set or in a look.           *)
NothingMissedStep ==
    \A m \in Mail :
      (armed /\ armed' /\ Enrolled # {} /\ snap # {} /\ m \in UNION snap
         /\ mail[m] = "read" /\ m \notin UNION snap')
        => m \in alerts' \cup excused'
NothingMissed == [][NothingMissedStep]_vars

(* Who is there counts only while it is heard from: a read found longer    *)
(* than the stale time after the last heartbeat and the last report is     *)
(* never excused.                                                          *)
AbsenceIsSeenStep ==
    \A m \in excused' \ excused :
      \/ \E s \in open : now - s.seen <= Stale
      \/ \E v \in vouched : now - v.at <= Window
AbsenceIsSeen == [][AbsenceIsSeenStep]_vars
=============================================================================

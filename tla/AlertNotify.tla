---------------------------- MODULE AlertNotify ----------------------------
(***************************************************************************)
(* Raising CRITICAL alerts, telling people about them and escalating the   *)
(* ones nobody acknowledges (platform/alerts.py, notify/dispatch.py,       *)
(* workers/scheduler.py).                                                  *)
(*                                                                         *)
(* A job is a database transaction in progress: what it did is visible to  *)
(* the others only when it commits, but what it sent has been sent.  An    *)
(* alert has one delivery row, for one rung.  Rows a job has updated or    *)
(* claimed stay locked until it commits or rolls back; a job waits for an  *)
(* alert another has updated, and passes over a delivery another holds.    *)
(***************************************************************************)
EXTENDS Naturals

CONSTANTS
    Alert,          \* situations that are worth an alert, each raised once
    Sync,           \* syncs: commit the alert, notify, commit (sync_mailbox)
    Batch,          \* sweeps that commit once at their end (stall_sweep, ct_persist)
    Sweep,          \* the scheduler's escalation_job
    Button,         \* POST /escalations/run
    MaxFaults       \* bound: failed sends, failed jobs and crashes

Cycle == Sweep \cup Button
Job == Sync \cup Batch \cup Cycle

ASSUME NotifyAssumption ==
    /\ MaxFaults \in Nat
    /\ Sync \cap Batch = {} /\ Sync \cap Cycle = {} /\ Batch \cap Cycle = {}
    /\ Sweep \cap Button = {}

Stage == 1..2       \* it_admin after 15 minutes, all_admins after 60

VARIABLES
    state,          \* alerts.state; "none": no such row is committed
    age,            \* the last stage whose minutes have passed
    reached,        \* alerts.escalated_to
    delivery,       \* notification_deliveries.status
    pc,             \* pc[j]: what j does next
    raised,         \* raised[j]: alerts j has inserted, not committed
    steps,          \* steps[j]: escalations due when j looked, not yet made
    marked,         \* marked[j]: escalations j has written, not committed
    claimed,        \* claimed[j]: delivery rows j has locked and not tried
    tried,          \* tried[j]: deliveries j has tried, not committed
    told,           \* told[a]: times the rung carried a's notification
    noticed,        \* noticed[a][s]: times a's stage s was mailed; 2: more than once
    faults,
    odd             \* <<what, a>>: what has happened to alert a (history)

database == <<state, age, reached, delivery>>
work == <<pc, raised, steps, marked, claimed, tried>>
vars == <<database, work, told, noticed, faults, odd>>

Step == [alert : Alert, to : Stage]
Try == [alert : Alert, status : {"sent", "failed"}]

(* Two cycles had an escalation of the alert in hand at the same time; what*)
(* was sent of it was not recorded, for its job was rolled back; it was    *)
(* raised by a job that was rolled back.                                   *)
Odd == {"beside", "undone", "unraised"}

TypeOK ==
    /\ state \in [Alert -> {"none", "open", "answered"}]
    /\ age \in [Alert -> 0..2]
    /\ reached \in [Alert -> 0..2]
    /\ delivery \in [Alert -> {"none", "pending", "sent", "failed"}]
    /\ pc \in [Job -> {"idle", "claim", "send", "escalate", "commit"}]
    /\ raised \in [Job -> SUBSET Alert]
    /\ steps \in [Job -> SUBSET Step] /\ marked \in [Job -> SUBSET Step]
    /\ claimed \in [Job -> SUBSET Alert] /\ tried \in [Job -> SUBSET Try]
    /\ told \in [Alert -> Nat] /\ noticed \in [Alert -> [Stage -> 0..2]]
    /\ faults \in 0..MaxFaults
    /\ odd \subseteq Odd \X Alert

Init ==
    /\ state = [a \in Alert |-> "none"] /\ age = [a \in Alert |-> 0]
    /\ reached = [a \in Alert |-> 0] /\ delivery = [a \in Alert |-> "none"]
    /\ pc = [j \in Job |-> "idle"] /\ raised = [j \in Job |-> {}]
    /\ steps = [j \in Job |-> {}] /\ marked = [j \in Job |-> {}]
    /\ claimed = [j \in Job |-> {}] /\ tried = [j \in Job |-> {}]
    /\ told = [a \in Alert |-> 0]
    /\ noticed = [a \in Alert |-> [s \in Stage |-> 0]]
    /\ faults = 0 /\ odd = {}

GoTo(j, place) == pc' = [pc EXCEPT ![j] = place]
Fault == faults < MaxFaults /\ faults' = faults + 1

(* Rows other transactions have locked.                                    *)
AlertLocked(a) == \E k \in Job : \E s \in marked[k] : s.alert = a
Busy(a) == \E k \in Job : a \in claimed[k] \/ \E t \in tried[k] : t.alert = a
InFlight(a) == \E k \in Job : a \in raised[k]

(* The alerts of a set of steps or tries.                                  *)
About(set) == {x.alert : x \in set}
Hand(j) == steps[j] \cup marked[j]

-----------------------------------------------------------------------------
(* A sync commits the alert with its pending delivery, then delivers it.   *)
SyncRaise(j, a) ==
    /\ pc[j] = "idle" /\ j \in Sync
    /\ state[a] = "none" /\ ~InFlight(a)
    /\ state' = [state EXCEPT ![a] = "open"]
    /\ delivery' = [delivery EXCEPT ![a] = "pending"]
    /\ raised' = [raised EXCEPT ![j] = {a}]
    /\ GoTo(j, "claim")
    /\ UNCHANGED <<age, reached, steps, marked, claimed, tried, told, noticed, faults, odd>>

(* A sweep inserts the alert and delivers it in the same transaction, and  *)
(* may go on to the next one.                                              *)
BatchRaise(j, a) ==
    /\ j \in Batch
    /\ pc[j] = "idle" \/ (pc[j] = "send" /\ claimed[j] = {})
    /\ state[a] = "none" /\ ~InFlight(a)
    /\ raised' = [raised EXCEPT ![j] = @ \cup {a}]
    /\ claimed' = [claimed EXCEPT ![j] = {a}]
    /\ GoTo(j, "send")
    /\ UNCHANGED <<database, steps, marked, tried, told, noticed, faults, odd>>

-----------------------------------------------------------------------------
(* due_escalations: open, old enough, and not at that stage yet.           *)
DueFirstOnly(a) ==
    IF state[a] = "open" /\ age[a] >= 1 /\ reached[a] = 0
      THEN {[alert |-> a, to |-> 1]} ELSE {}

(* Mutant: a stage below the one reached is taken for one still to make.   *)
DueOtherStage(a) ==
    IF state[a] # "open" THEN {}
    ELSE IF age[a] = 2 /\ reached[a] # 2 THEN {[alert |-> a, to |-> 2]}
    ELSE IF age[a] >= 1 /\ reached[a] # 1 THEN {[alert |-> a, to |-> 1]}
    ELSE {}

Due(a) ==
    IF state[a] # "open" THEN {}
    ELSE IF age[a] = 2 /\ reached[a] # 2 THEN {[alert |-> a, to |-> 2]}
    ELSE IF age[a] >= 1 /\ reached[a] = 0 THEN {[alert |-> a, to |-> 1]}
    ELSE {}

Begin(j) ==
    LET due == UNION {Due(a) : a \in Alert} IN
    /\ pc[j] = "idle" /\ j \in Cycle
    /\ GoTo(j, "escalate")
    /\ steps' = [steps EXCEPT ![j] = due]
    /\ odd' = odd \cup ({"beside"} \X (About(due) \cap UNION {About(Hand(k)) : k \in Job}))
    /\ UNCHANGED <<database, raised, marked, claimed, tried, told, noticed, faults>>

(* mark_escalated writes the row and locks it; then the admins are mailed, *)
(* and a mail that is refused is not tried again.                          *)
Escalate(j, s) ==
    /\ pc[j] = "escalate" /\ s \in steps[j]
    /\ ~AlertLocked(s.alert)
    /\ steps' = [steps EXCEPT ![j] = @ \ {s}]
    /\ marked' = [marked EXCEPT ![j] = @ \cup {s}]
    /\ \/ noticed' = [noticed EXCEPT ![s.alert][s.to] = IF @ = 0 THEN 1 ELSE 2] /\ UNCHANGED faults
       \/ UNCHANGED noticed /\ Fault
    /\ UNCHANGED <<database, pc, raised, claimed, tried, told, odd>>

(* All steps made: the scheduler's job also sends what is still pending.   *)
EndCycleWithoutDrain(j) ==
    /\ pc[j] = "escalate" /\ steps[j] = {}
    /\ GoTo(j, "commit")
    /\ UNCHANGED <<database, raised, steps, marked, claimed, tried, told, noticed, faults, odd>>

EndCycle(j) ==
    /\ pc[j] = "escalate" /\ steps[j] = {}
    /\ GoTo(j, IF j \in Sweep THEN "claim" ELSE "commit")
    /\ UNCHANGED <<database, raised, steps, marked, claimed, tried, told, noticed, faults, odd>>

-----------------------------------------------------------------------------
(* deliver_pending: SELECT ... FOR UPDATE SKIP LOCKED.                     *)
ClaimUnlocked(j) ==
    LET mine == IF j \in Sync THEN raised[j] ELSE Alert IN
    /\ pc[j] = "claim"
    /\ claimed' = [claimed EXCEPT ![j] = {a \in mine : delivery[a] = "pending"}]
    /\ GoTo(j, "send")
    /\ UNCHANGED <<database, raised, steps, marked, tried, told, noticed, faults, odd>>

Claim(j) ==
    LET mine == IF j \in Sync THEN raised[j] ELSE Alert IN
    /\ pc[j] = "claim"
    /\ claimed' = [claimed EXCEPT ![j] = {a \in mine : delivery[a] = "pending" /\ ~Busy(a)}]
    /\ GoTo(j, "send")
    /\ UNCHANGED <<database, raised, steps, marked, tried, told, noticed, faults, odd>>

(* One attempt on a row: carried, or refused and never tried again.        *)
Send(j, a) ==
    /\ pc[j] = "send" /\ a \in claimed[j]
    /\ claimed' = [claimed EXCEPT ![j] = @ \ {a}]
    /\ \/ /\ told' = [told EXCEPT ![a] = @ + 1]
          /\ tried' = [tried EXCEPT ![j] = @ \cup {[alert |-> a, status |-> "sent"]}]
          /\ UNCHANGED faults
       \/ /\ Fault
          /\ tried' = [tried EXCEPT ![j] = @ \cup {[alert |-> a, status |-> "failed"]}]
          /\ UNCHANGED told
    /\ UNCHANGED <<database, pc, raised, steps, marked, noticed, odd>>

Clear(j) ==
    /\ GoTo(j, "idle")
    /\ raised' = [raised EXCEPT ![j] = {}]
    /\ steps' = [steps EXCEPT ![j] = {}] /\ marked' = [marked EXCEPT ![j] = {}]
    /\ claimed' = [claimed EXCEPT ![j] = {}] /\ tried' = [tried EXCEPT ![j] = {}]

(* What the transaction wrote becomes visible and its locks are released.  *)
Delivered(j, a) ==
    IF \E t \in tried[j] : t.alert = a
      THEN (CHOOSE t \in tried[j] : t.alert = a).status
      ELSE delivery[a]

Reached(j, a) ==
    IF \E s \in marked[j] : s.alert = a
      THEN (CHOOSE s \in marked[j] : s.alert = a).to
      ELSE reached[a]

Commit(j) ==
    /\ pc[j] = "commit" \/ (pc[j] = "send" /\ claimed[j] = {})
    /\ delivery' = [a \in Alert |-> Delivered(j, a)]
    /\ reached' = [a \in Alert |-> Reached(j, a)]
    /\ state' = [a \in Alert |-> IF j \in Batch /\ a \in raised[j] THEN "open" ELSE state[a]]
    /\ Clear(j)
    /\ UNCHANGED <<age, told, noticed, faults, odd>>

(* Everything since the last commit is undone; what was sent stays sent.   *)
Undo(j) ==
    /\ Clear(j)
    /\ odd' = odd \cup ({"undone"} \X About(tried[j] \cup marked[j]))
                  \cup (IF j \in Batch THEN {"unraised"} \X raised[j] ELSE {})
    /\ UNCHANGED <<database, told, noticed>>

(* A later statement of the job failed, or its process died.               *)
Rollback(j) == pc[j] # "idle" /\ Fault /\ Undo(j)

(* Cycles that wait for each other's alerts, each having updated its own in*)
(* another order: the database rolls one of them back.                     *)
WaitsFor(j, k) == pc[j] = "escalate" /\ About(steps[j]) \cap About(marked[k]) # {}

DeadlockVictim(j) ==
    /\ \E D \in SUBSET Cycle : j \in D /\ \A k \in D : \E m \in D \ {k} : WaitsFor(k, m)
    /\ Undo(j)
    /\ UNCHANGED faults

-----------------------------------------------------------------------------
(* People, and the clock.                                                  *)

(* acknowledge and resolve, a dismissal included: the clock stops.         *)
Answer(a) ==
    /\ state[a] # "none" /\ ~AlertLocked(a)
    /\ state' = [state EXCEPT ![a] = "answered"]
    /\ UNCHANGED <<age, reached, delivery, work, told, noticed, faults, odd>>

Ageing(a) ==
    /\ state[a] # "none" /\ age[a] < 2
    /\ age' = [age EXCEPT ![a] = @ + 1]
    /\ UNCHANGED <<state, reached, delivery, work, told, noticed, faults, odd>>

(* What a job that is under way does next.                                 *)
Going(j) ==
    \/ EndCycle(j) \/ Claim(j) \/ Commit(j) \/ DeadlockVictim(j)
    \/ \E s \in steps[j] : Escalate(j, s)
    \/ \E a \in claimed[j] : Send(j, a)

Next ==
    \/ \E j \in Job : Begin(j) \/ Going(j) \/ Rollback(j)
    \/ \E j \in Job, a \in Alert : SyncRaise(j, a) \/ BatchRaise(j, a)
    \/ \E a \in Alert : Answer(a) \/ Ageing(a)

Spec == Init /\ [][Next]_vars

(* Transactions in progress go on and the scheduler keeps starting its job;*)
(* nobody is required to press the button or to look at an alert, and      *)
(* nothing has to be raised.                                               *)
FairSpec ==
    /\ Spec
    /\ \A j \in Job : WF_vars(Going(j))
    /\ \A j \in Sweep : WF_vars(Begin(j))

-----------------------------------------------------------------------------
(* The claim makes concurrent drains safe: the sync that raised an alert   *)
(* and the scheduler's sweep between them send its notification once       *)
(* (dispatch.py:121-128), unless the job that sent it was rolled back.     *)
ToldOnce == \A a \in Alert : <<"undone", a>> \notin odd => told[a] <= 1

(* A notification is never lost by the bookkeeping: a row that says "sent" *)
(* was carried, and an alert nobody was told of is not filed as "sent".    *)
SentWasTold == \A a \in Alert : delivery[a] = "sent" => told[a] > 0

(* What people are told of exists. Only the sweeps that commit once at     *)
(* their end tell before: of an alert they have still to commit, or of one *)
(* that was rolled back with them.                                         *)
ToldAlertExists ==
    \A a \in Alert :
        told[a] > 0 /\ state[a] = "none" /\ <<"unraised", a>> \notin odd
        => \E j \in Batch : a \in raised[j]

(* Each escalation stage of an alert is mailed once (alerts.py:353), unless*)
(* two cycles had the alert in hand at once, or the one that mailed it was *)
(* rolled back.                                                            *)
EachStageOnce ==
    \A a \in Alert : odd \cap ({"beside", "undone"} \X {a}) = {} =>
        \A s \in Stage : noticed[a][s] <= 1

(* People are told of alerts that exist, once, and each stage of the       *)
(* escalation is mailed once, each with the disorder it does not survive   *)
(* named alert by alert; what is filed as sent was sent.                   *)
AlertsAreTold ==
    TypeOK /\ ToldOnce /\ SentWasTold /\ ToldAlertExists /\ EachStageOnce

(* escalated_to only moves up: a stage that was made is not taken back,    *)
(* unless two cycles had the alert in hand at once: the one that looked    *)
(* first then writes the stage it found due over the other's.              *)
EscalationNeverRegresses ==
    [][\A a \in Alert : <<"beside", a>> \notin odd => reached'[a] >= reached[a]]_vars

(* Every delivery is attempted, even if the job that raised the alert dies *)
(* before it gets to it: the scheduler's sweep picks it up.                *)
EveryDeliveryAttempted ==
    \A a \in Alert : delivery[a] = "pending" ~> delivery[a] # "pending"

(* A CRITICAL alert nobody reacts to is in the end with all admins for     *)
(* good, also when a late cycle took the stage back.                       *)
IgnoredCriticalEscalates ==
    \A a \in Alert : <>[](state[a] = "open" /\ age[a] = 2 => reached[a] = 2)

-----------------------------------------------------------------------------
(* alerts.py:353: each stage fires exactly once. Nothing fails here.       *)
StageFiresOnce ==
    \A a \in Alert : <<"undone", a>> \notin odd =>
        \A s \in Stage : noticed[a][s] <= 1
=============================================================================

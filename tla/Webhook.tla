------------------------------ MODULE Webhook ------------------------------
(***************************************************************************)
(* The durable queue behind a customer's SIEM webhooks                     *)
(* (workers/webhook_delivery.py, the schedule in governance/export.py, the *)
(* endpoint operations in api/governance.py).                              *)
(*                                                                         *)
(* A drain is one transaction: it reads what is due, posts the deliveries  *)
(* one by one and stores all the outcomes in a single commit at the end.   *)
(* Time is kept per delivery: the delay that was scheduled, and whether it *)
(* has passed.                                                             *)
(***************************************************************************)
EXTENDS Naturals, FiniteSets, Sequences

CONSTANTS
    Delivery,       \* events to be delivered
    Endpoint,       \* registered receivers
    target,         \* target[d]: the endpoint d is queued for
    Drain,          \* drains that can be in progress at once
    Delays,         \* RETRY_SCHEDULE, indexed from 0
    BATCH,          \* deliveries one drain attempts at most
    MaxFaults,      \* bound: failed transactions and crashes
    MaxChanges      \* bound: changes a customer makes to an endpoint

Attempts == Cardinality(DOMAIN Delays)

ASSUME WebhookAssumption ==
    /\ target \in [Delivery -> Endpoint]
    /\ Attempts \in Nat \ {0} /\ Delays \in [0..(Attempts - 1) -> Nat]
    /\ BATCH \in Nat \ {0} /\ MaxFaults \in Nat /\ MaxChanges \in Nat

(* The delays before the second to the last attempt, in their order.       *)
Schedule == [n \in 1..(Attempts - 1) |-> Delays[n]]

VARIABLES
    endpoint,       \* "active", "paused", or "gone"
    status,         \* status[d]; "none": not queued, "lost": deleted with its endpoint
    attempt,        \* attempt[d]
    due,            \* next_attempt_at[d] has passed
    backoff,        \* backoff[d]: the delays d has been given, in their order
    pc,             \* pc[j]: "idle", or the drain is "busy"
    batch,          \* batch[j]: deliveries read as due, not attempted yet
    before,         \* before[j]: attempt[d] as j read it
    seen,           \* seen[j]: endpoints j has in its session, loaded as active
    outcome,        \* outcome[j][d]: what j will store of d; "none": not attempted
    accepted,       \* accepted[d]: 2xx answers of the receiver
    unsafe,         \* deliveries given up because the address must not be called
    faults, changes

rows == <<endpoint, status, attempt, due, backoff>>
local == <<pc, batch, before, seen, outcome>>
vars == <<rows, local, accepted, unsafe, faults, changes>>

Status == {"none", "pending", "delivered", "failed", "cancelled", "lost"}
Outcome == {"none", "delivered", "retry", "failed", "cancelled", "unsafe"}
EndpointState == {"active", "paused", "gone"}

TypeOK ==
    /\ endpoint \in [Endpoint -> EndpointState]
    /\ status \in [Delivery -> Status]
    /\ attempt \in [Delivery -> 0..Attempts]
    /\ due \in [Delivery -> BOOLEAN] /\ backoff \in [Delivery -> Seq(Nat)]
    /\ pc \in [Drain -> {"idle", "busy"}]
    /\ batch \in [Drain -> SUBSET Delivery]
    /\ before \in [Drain -> [Delivery -> 0..Attempts]]
    /\ seen \in [Drain -> SUBSET Endpoint]
    /\ outcome \in [Drain -> [Delivery -> Outcome]]
    /\ accepted \in [Delivery -> Nat] /\ unsafe \subseteq Delivery
    /\ faults \in 0..MaxFaults /\ changes \in 0..MaxChanges

NoOutcome == [d \in Delivery |-> "none"]

Init ==
    /\ endpoint = [e \in Endpoint |-> "active"]
    /\ status = [d \in Delivery |-> "none"] /\ attempt = [d \in Delivery |-> 0]
    /\ due = [d \in Delivery |-> FALSE] /\ backoff = [d \in Delivery |-> <<>>]
    /\ pc = [j \in Drain |-> "idle"] /\ batch = [j \in Drain |-> {}]
    /\ before = [j \in Drain |-> [d \in Delivery |-> 0]]
    /\ seen = [j \in Drain |-> {}]
    /\ outcome = [j \in Drain |-> NoOutcome]
    /\ accepted = [d \in Delivery |-> 0] /\ unsafe = {}
    /\ faults = 0 /\ changes = 0

-----------------------------------------------------------------------------
(* enqueue: a pending row, due at once, for an active endpoint.            *)
Enqueue(d) ==
    /\ status[d] = "none"
    /\ endpoint[target[d]] = "active"
    /\ status' = [status EXCEPT ![d] = "pending"]
    /\ due' = [due EXCEPT ![d] = TRUE]
    /\ UNCHANGED <<endpoint, attempt, backoff, local, accepted, unsafe, faults, changes>>

(* next_attempt_at passes.                                                 *)
BecomesDue(d) ==
    /\ status[d] = "pending" /\ ~due[d]
    /\ due' = [due EXCEPT ![d] = TRUE]
    /\ UNCHANGED <<endpoint, status, attempt, backoff, local, accepted, unsafe,
                   faults, changes>>

(* drain reads what is pending and due, at most BATCH of it.               *)
ReadyAnyStatus == {d \in Delivery : status[d] \notin {"none", "lost"} /\ due[d]}

ReadyFirstOnly == {d \in Delivery : status[d] = "pending" /\ due[d] /\ attempt[d] = 0}

Ready == {d \in Delivery : status[d] = "pending" /\ due[d]}

Begin(j) ==
    /\ pc[j] = "idle"
    /\ pc' = [pc EXCEPT ![j] = "busy"]
    /\ \E some \in SUBSET Ready :
         /\ some # {} /\ Cardinality(some) <= BATCH
         /\ Cardinality(some) = BATCH \/ some = Ready
         /\ batch' = [batch EXCEPT ![j] = some]
    /\ before' = [before EXCEPT ![j] = attempt]
    /\ UNCHANGED <<rows, seen, outcome, accepted, unsafe, faults, changes>>

(* next_retry_delay of the count after this attempt.                       *)
AfterFailure(n) == IF n + 1 < Attempts THEN "retry" ELSE "failed"

Store(j, d, o) == outcome' = [outcome EXCEPT ![j][d] = o]

(* The endpoint was removed or disabled: the delivery is cancelled.        *)
AttemptCancelled(j, d) ==
    /\ pc[j] = "busy" /\ d \in batch[j]
    /\ endpoint[target[d]] # "active"
    /\ Store(j, d, "cancelled")
    /\ batch' = [batch EXCEPT ![j] = @ \ {d}]
    /\ UNCHANGED <<rows, pc, before, seen, accepted, unsafe, faults, changes>>

(* One post: a 2xx, another answer or none at all, or an address that must *)
(* not be called.  An endpoint the session already holds is not read again *)
(* while it has changes to write, so a change may go unnoticed.            *)
Attempt(j, d) ==
    /\ pc[j] = "busy" /\ d \in batch[j]
    /\ endpoint[target[d]] = "active" \/ target[d] \in seen[j]
    /\ batch' = [batch EXCEPT ![j] = @ \ {d}]
    /\ seen' = [seen EXCEPT ![j] = @ \cup {target[d]}]
    /\ \/ /\ Store(j, d, "delivered")
          /\ accepted' = [accepted EXCEPT ![d] = @ + 1]
       \/ Store(j, d, AfterFailure(before[j][d])) /\ UNCHANGED accepted
       \/ Store(j, d, "unsafe") /\ UNCHANGED accepted
    /\ UNCHANGED <<rows, pc, before, unsafe, faults, changes>>

-----------------------------------------------------------------------------
Stop(j) ==
    /\ pc' = [pc EXCEPT ![j] = "idle"]
    /\ batch' = [batch EXCEPT ![j] = {}]
    /\ before' = [before EXCEPT ![j] = [d \in Delivery |-> 0]]
    /\ seen' = [seen EXCEPT ![j] = {}]
    /\ outcome' = [outcome EXCEPT ![j] = NoOutcome]

Attempted(j) == {d \in Delivery : outcome[j][d] # "none"}

StoredStatusOfOne(j, d) ==
    IF Attempted(j) = {d} /\ outcome[j][d] # "retry" THEN outcome[j][d] ELSE status[d]

StoredStatus(j, d) ==
    CASE outcome[j][d] \in {"none", "retry"} -> status[d]
      [] outcome[j][d] = "unsafe"            -> "failed"
      [] OTHER                               -> outcome[j][d]

StoredDelay(j, d) == Delays[before[j][d] + 1]

(* All rows are still there: the single commit at the end stores the lot.  *)
Commit(j) ==
    /\ pc[j] = "busy" /\ batch[j] = {}
    /\ \A d \in Attempted(j) : status[d] # "lost"
    /\ status' = [d \in Delivery |-> StoredStatus(j, d)]
    /\ attempt' = [d \in Delivery |->
                     IF d \in Attempted(j) THEN before[j][d] + 1 ELSE attempt[d]]
    /\ due' = [d \in Delivery |-> IF outcome[j][d] = "retry" THEN FALSE ELSE due[d]]
    /\ backoff' = [d \in Delivery |->
                     IF outcome[j][d] = "retry" THEN Append(backoff[d], StoredDelay(j, d))
                     ELSE backoff[d]]
    /\ unsafe' = unsafe \cup {d \in Delivery : outcome[j][d] = "unsafe"}
    /\ Stop(j)
    /\ UNCHANGED <<endpoint, accepted, faults, changes>>

(* A row it attempted was deleted meanwhile: the update matches no row, and*)
(* the whole transaction is undone.                                        *)
CommitFails(j) ==
    /\ pc[j] = "busy" /\ batch[j] = {}
    /\ \E d \in Attempted(j) : status[d] = "lost"
    /\ Stop(j)
    /\ UNCHANGED <<rows, accepted, unsafe, faults, changes>>

(* The process dies, or the database refuses.                              *)
Crash(j) ==
    /\ pc[j] = "busy"
    /\ faults < MaxFaults
    /\ faults' = faults + 1
    /\ Stop(j)
    /\ UNCHANGED <<rows, accepted, unsafe, changes>>

(* PATCH and DELETE /export/webhooks/{id}; deletion cascades to its rows.  *)
Change(e, to) ==
    /\ endpoint[e] \notin {"gone", to}
    /\ changes < MaxChanges
    /\ changes' = changes + 1
    /\ endpoint' = [endpoint EXCEPT ![e] = to]
    /\ status' = [d \in Delivery |->
                    IF to = "gone" /\ target[d] = e /\ status[d] # "none"
                      THEN "lost" ELSE status[d]]
    /\ UNCHANGED <<attempt, due, backoff, local, accepted, unsafe, faults>>

DrainStep(j) ==
    \/ Begin(j) \/ Commit(j) \/ CommitFails(j)
    \/ \E d \in batch[j] : AttemptCancelled(j, d) \/ Attempt(j, d)

Next ==
    \/ \E d \in Delivery : Enqueue(d) \/ BecomesDue(d)
    \/ \E j \in Drain : DrainStep(j) \/ Crash(j)
    \/ \E e \in Endpoint, to \in EndpointState : Change(e, to)

Spec == Init /\ [][Next]_vars

(* The scheduler runs the drain again and again, and delays pass.          *)
FairSpec ==
    /\ Spec
    /\ \A j \in Drain : WF_vars(DrainStep(j))
    /\ \A d \in Delivery : WF_vars(BecomesDue(d))

-----------------------------------------------------------------------------
(* What is filed as delivered was taken by the receiver.                   *)
DeliveredWasAccepted ==
    \A d \in Delivery : status[d] = "delivered" => accepted[d] > 0

(* Without a crash or a deleted endpoint nothing is delivered twice: the   *)
(* drains of one scheduler hand a row over only with its outcome stored.   *)
DeliveredOnce ==
    faults = 0 /\ (\A e \in Endpoint : endpoint[e] # "gone")
        => \A d \in Delivery : accepted[d] <= 1

(* A delivery that has ended is not taken up again.                        *)
EndedStaysEndedStep ==
    \A d \in Delivery :
      status[d] \in {"delivered", "failed", "cancelled"} =>
          status'[d] \in {status[d], "lost"}
EndedStaysEnded == [][EndedStaysEndedStep]_vars

(* A delivery is given up only after the whole schedule: every delay was   *)
(* waited for and every attempt made, unless the address must not be called.*)
FailedAfterSchedule ==
    \A d \in Delivery \ unsafe :
        status[d] = "failed" =>
            attempt[d] = Attempts /\ backoff[d] = Schedule

(* What is recorded of a delivery is what happened to it: accepted once    *)
(* delivered, delivered once, and given up only after the whole schedule.  *)
DeliveriesAreKept ==
    TypeOK /\ DeliveredWasAccepted /\ DeliveredOnce /\ FailedAfterSchedule

(* Every queued delivery ends: it is delivered, given up, cancelled, or    *)
(* deleted with its endpoint.                                              *)
EveryDeliveryEnds ==
    \A d \in Delivery : status[d] = "pending" ~> status[d] # "pending"

-----------------------------------------------------------------------------
(* webhook_delivery.py:13-14: each attempt either succeeds or schedules    *)
(* the next one: once the drains are over, what was accepted is filed so.  *)
AttemptsAreRecorded ==
    faults = 0 /\ (\A j \in Drain : pc[j] = "idle") =>
        \A d \in Delivery : accepted[d] > 0 => status[d] \in {"delivered", "lost"}

=============================================================================

--------------------------- MODULE WebhookProofs ---------------------------
(***************************************************************************)
(* For any deliveries, endpoints, schedule and batch size: what is filed   *)
(* of a delivery is what happened to it, and what has ended stays ended.   *)
(* The drains are those of one scheduler, one after the other.             *)
(***************************************************************************)
EXTENDS Webhook, TLAPS

(* Deliveries the drain j still has to attempt, or has attempted.          *)
AtHand(j) == batch[j] \cup Attempted(j)

(* The transaction of a drain: empty while idle, each delivery attempted   *)
(* once, and every row at hand as it was read unless it was deleted.       *)
DrainInv(j) ==
    /\ pc[j] = "idle" => batch[j] = {} /\ Attempted(j) = {}
    /\ \A d \in batch[j] : outcome[j][d] = "none"
    /\ \A d \in AtHand(j) :
         /\ status[d] \in {"pending", "lost"}
         /\ status[d] = "pending" => before[j][d] = attempt[d]

(* An outcome that is about to be stored fits what was read and answered.  *)
OutcomeInv(j, d) ==
    /\ outcome[j][d] = "delivered" => accepted[d] > 0
    /\ outcome[j][d] = "retry" => before[j][d] + 1 < Attempts
    /\ outcome[j][d] = "failed" => before[j][d] + 1 >= Attempts

(* The first n delays of the schedule.                                     *)
Given(n) == [k \in 1..n |-> Delays[k]]

(* How far a delivery is in its schedule.                                  *)
ScheduleInv(d) ==
    /\ status[d] = "none" => attempt[d] = 0 /\ backoff[d] = Given(0)
    /\ status[d] = "pending" =>
         attempt[d] < Attempts /\ backoff[d] = Given(attempt[d])
    /\ status[d] = "failed" /\ d \notin unsafe =>
         attempt[d] = Attempts /\ backoff[d] = Schedule

(* Rows are deleted with their endpoint only.                              *)
LostInv == \A d \in Delivery : status[d] = "lost" => endpoint[target[d]] = "gone"

(* No crash, and no endpoint deleted.                                      *)
Quiet == faults = 0 /\ \A e \in Endpoint : endpoint[e] # "gone"

(* An answer that was taken is filed, or in the drain that will file it.   *)
TakenInv ==
    Quiet => \A d \in Delivery :
      /\ accepted[d] <= 1
      /\ accepted[d] > 0 =>
           status[d] = "delivered" \/ \E j \in Drain : outcome[j][d] = "delivered"

IInv ==
    /\ TypeOK
    /\ \A j \in Drain : DrainInv(j)
    /\ \A j \in Drain, d \in Delivery : OutcomeInv(j, d)
    /\ \A d \in Delivery : ScheduleInv(d)
    /\ LostInv
    /\ DeliveredWasAccepted
    /\ TakenInv

(* The scheduler awaits one drain before it starts the next.               *)
OneAtATime == \A j, k \in Drain : j = k

USE WebhookAssumption DEF WebhookAssumption

(* No delay has been given before the first attempt.                       *)
LEMMA NoneGiven == <<>> = Given(0)
  BY DEF Given

(* The delays given grow by the next one of the schedule.                  *)
LEMMA GivenGrows ==
  ASSUME NEW n \in Nat, n + 1 < Attempts
  PROVE  Append(Given(n), Delays[n + 1]) = Given(n + 1)
  BY DEF Given

(* The empty queue satisfies the invariant.                                *)
LEMMA InitIInv == Init => IInv
<1> SUFFICES ASSUME Init PROVE IInv
  OBVIOUS
<1>1. TypeOK
  BY DEF Init, TypeOK, EndpointState, Status, Outcome, NoOutcome
<1>2. \A j \in Drain : DrainInv(j)
  BY DEF Init, DrainInv, AtHand, Attempted, NoOutcome
<1>3. \A j \in Drain, d \in Delivery : OutcomeInv(j, d)
  BY DEF Init, OutcomeInv, NoOutcome
<1>4. \A d \in Delivery : ScheduleInv(d)
  BY NoneGiven DEF Init, ScheduleInv
<1>5. LostInv /\ DeliveredWasAccepted /\ TakenInv
  BY DEF Init, LostInv, DeliveredWasAccepted, TakenInv
<1> QED
  BY <1>1, <1>2, <1>3, <1>4, <1>5 DEF IInv

(* The invariant contains everything the queue promises of its states.     *)
LEMMA IInvImplies == IInv => DeliveriesAreKept
<1>1. TakenInv => DeliveredOnce
  BY DEF TakenInv, DeliveredOnce, Quiet
<1>2. (\A d \in Delivery : ScheduleInv(d)) => FailedAfterSchedule
  BY DEF ScheduleInv, FailedAfterSchedule
<1> QED
  BY <1>1, <1>2 DEF IInv, DeliveriesAreKept

(* A state in which only due has changed.                                  *)
LEMMA DueStep ==
  ASSUME IInv, NEW d \in Delivery, BecomesDue(d)
  PROVE  IInv'
<1>1. TypeOK'
  BY DEF IInv, TypeOK, BecomesDue, local
<1> QED
  BY <1>1 DEF IInv, BecomesDue, local, DrainInv, AtHand, Attempted, OutcomeInv,
       ScheduleInv, LostInv, DeliveredWasAccepted, TakenInv, Quiet

(* A new row starts at the beginning of its schedule.                      *)
LEMMA EnqueueStep ==
  ASSUME IInv, NEW d \in Delivery, Enqueue(d)
  PROVE  IInv'
<1>1. TypeOK'
  BY DEF IInv, TypeOK, Enqueue, local, Status
<1>2. \A j \in Drain : DrainInv(j)'
  BY DEF IInv, TypeOK, Enqueue, local, DrainInv, AtHand, Attempted
<1>3. \A j \in Drain, x \in Delivery : OutcomeInv(j, x)'
  BY DEF IInv, Enqueue, local, OutcomeInv
<1>4. \A x \in Delivery : ScheduleInv(x)'
  BY DEF IInv, TypeOK, Enqueue, ScheduleInv
<1>5. LostInv' /\ DeliveredWasAccepted'
  BY DEF IInv, TypeOK, Enqueue, LostInv, DeliveredWasAccepted
<1>6. TakenInv'
  BY DEF IInv, TypeOK, Enqueue, local, TakenInv, Quiet
<1> QED
  BY <1>1, <1>2, <1>3, <1>4, <1>5, <1>6 DEF IInv

(* What a drain reads is pending, so that it takes up nothing that ended.  *)
LEMMA BeginStep ==
  ASSUME IInv, OneAtATime, NEW j \in Drain, Begin(j)
  PROVE  IInv'
<1> USE DEF rows
<1>1. TypeOK'
  BY DEF IInv, TypeOK, Begin, Ready
<1>2. \A k \in Drain : DrainInv(k)'
  BY DEF IInv, TypeOK, Begin, Ready, OneAtATime, DrainInv, AtHand, Attempted
<1>3. \A k \in Drain, d \in Delivery : OutcomeInv(k, d)'
  BY DEF IInv, TypeOK, Begin, OneAtATime, OutcomeInv, DrainInv, Attempted
<1>4. \A d \in Delivery : ScheduleInv(d)'
  BY DEF IInv, Begin, ScheduleInv
<1>5. LostInv' /\ DeliveredWasAccepted' /\ TakenInv'
  BY DEF IInv, Begin, LostInv, DeliveredWasAccepted, TakenInv, Quiet
<1> QED
  BY <1>1, <1>2, <1>3, <1>4, <1>5 DEF IInv

(* A cancellation is noted once, for a delivery that was still to do.      *)
LEMMA CancelStep ==
  ASSUME IInv, OneAtATime, NEW j \in Drain, NEW d \in batch[j], AttemptCancelled(j, d)
  PROVE  IInv'
<1> USE DEF rows
<1>1. TypeOK'
  BY DEF IInv, TypeOK, AttemptCancelled, Store, Outcome
<1>2. \A k \in Drain : DrainInv(k)'
  BY DEF IInv, TypeOK, AttemptCancelled, Store, OneAtATime, DrainInv, AtHand, Attempted
<1>3. \A k \in Drain, x \in Delivery : OutcomeInv(k, x)'
  BY DEF IInv, TypeOK, AttemptCancelled, Store, OneAtATime, OutcomeInv
<1>4. \A x \in Delivery : ScheduleInv(x)'
  BY DEF IInv, AttemptCancelled, ScheduleInv
<1>5. LostInv' /\ DeliveredWasAccepted'
  BY DEF IInv, AttemptCancelled, LostInv, DeliveredWasAccepted
<1>6. \A k \in Drain, x \in Delivery :
        outcome[k][x] = "delivered" => outcome'[k][x] = "delivered"
  BY DEF IInv, TypeOK, AttemptCancelled, Store, OneAtATime, DrainInv
<1>7. TakenInv'
  BY <1>6 DEF IInv, AttemptCancelled, TakenInv, Quiet
<1> QED
  BY <1>1, <1>2, <1>3, <1>4, <1>5, <1>7 DEF IInv

(* A delivery is posted once by a drain, with nothing accepted before.     *)
LEMMA AttemptStep ==
  ASSUME IInv, OneAtATime, NEW j \in Drain, NEW d \in batch[j], Attempt(j, d)
  PROVE  IInv'
<1> USE DEF rows
<1>a. /\ d \in Delivery /\ outcome[j][d] = "none"
      /\ batch' = [batch EXCEPT ![j] = @ \ {d}]
      /\ UNCHANGED <<rows, pc, before, unsafe, faults, changes>>
  BY DEF IInv, TypeOK, Attempt, DrainInv
<1>b. PICK o \in {"delivered", "retry", "failed", "unsafe"} :
        /\ outcome' = [outcome EXCEPT ![j][d] = o]
        /\ accepted' = [accepted EXCEPT ![d] = IF o = "delivered" THEN @ + 1 ELSE @]
        /\ o = "retry" => before[j][d] + 1 < Attempts
        /\ o = "failed" => before[j][d] + 1 >= Attempts
  <2>0. UNCHANGED accepted => accepted' = [accepted EXCEPT ![d] = @]
    BY <1>a DEF IInv, TypeOK
  <2>1. CASE Store(j, d, "delivered") /\ accepted' = [accepted EXCEPT ![d] = @ + 1]
    BY <2>1 DEF Store
  <2>2. CASE Store(j, d, AfterFailure(before[j][d])) /\ UNCHANGED accepted
    <3>1. before[j][d] + 1 \in Nat /\ Attempts \in Nat
      BY <1>a DEF IInv, TypeOK
    <3>2. CASE before[j][d] + 1 < Attempts
      <4>1. AfterFailure(before[j][d]) = "retry"
        BY <3>2 DEF AfterFailure
      <4> QED
        BY <2>0, <2>2, <3>2, <4>1 DEF Store
    <3>3. CASE ~(before[j][d] + 1 < Attempts)
      <4>1. AfterFailure(before[j][d]) = "failed"
        BY <3>3 DEF AfterFailure
      <4> QED
        BY <2>0, <2>2, <3>1, <3>3, <4>1 DEF Store
    <3> QED
      BY <3>2, <3>3
  <2>3. CASE Store(j, d, "unsafe") /\ UNCHANGED accepted
    BY <2>0, <2>3 DEF Store
  <2> QED
    BY <2>1, <2>2, <2>3 DEF Attempt
<1>1. TypeOK'
  <2>1. accepted' \in [Delivery -> Nat]
    BY <1>a, <1>b DEF IInv, TypeOK
  <2>2. outcome' \in [Drain -> [Delivery -> Outcome]]
    BY <1>a, <1>b DEF IInv, TypeOK, Outcome
  <2>3. seen' \in [Drain -> SUBSET Endpoint]
    BY <1>a DEF IInv, TypeOK, Attempt
  <2> QED
    BY <1>a, <2>1, <2>2, <2>3 DEF IInv, TypeOK
<1>2. \A k \in Drain : DrainInv(k)'
  BY <1>a, <1>b DEF IInv, TypeOK, Attempt, OneAtATime, DrainInv, AtHand, Attempted
<1>3. \A k \in Drain, x \in Delivery : OutcomeInv(k, x)'
  BY <1>a, <1>b DEF IInv, TypeOK, OneAtATime, OutcomeInv
<1>4. \A x \in Delivery : ScheduleInv(x)'
  BY <1>a DEF IInv, ScheduleInv
<1>5. LostInv'
  BY <1>a DEF IInv, LostInv
<1>6. DeliveredWasAccepted'
  BY <1>a, <1>b DEF IInv, TypeOK, DeliveredWasAccepted
<1>7. TakenInv'
  <2> SUFFICES ASSUME Quiet, NEW x \in Delivery
               PROVE  /\ accepted'[x] <= 1
                      /\ accepted'[x] > 0 =>
                           status[x] = "delivered"
                             \/ \E k \in Drain : outcome'[k][x] = "delivered"
    BY <1>a DEF TakenInv, Quiet
  <2>1. CASE x = d
    <3>1. accepted[d] = 0
      <4>1. status[d] # "delivered"
        BY <1>a DEF IInv, DrainInv, AtHand
      <4>2. \A k \in Drain : outcome[k][d] # "delivered"
        BY <1>a DEF OneAtATime
      <4>3. ~(accepted[d] > 0)
        BY <1>a, <4>1, <4>2 DEF IInv, TakenInv
      <4>4. accepted[d] \in Nat
        BY <1>a DEF IInv, TypeOK
      <4> QED
        BY <4>3, <4>4
    <3>2. CASE o = "delivered"
      <4>1. accepted'[d] = 1
        BY <1>a, <1>b, <3>1, <3>2 DEF IInv, TypeOK
      <4>2. outcome'[j][d] = "delivered"
        BY <1>a, <1>b, <3>2 DEF IInv, TypeOK
      <4> QED
        BY <2>1, <4>1, <4>2
    <3>3. CASE o # "delivered"
      BY <1>b, <2>1, <3>1, <3>3
    <3> QED
      BY <3>2, <3>3
  <2>2. CASE x # d
    <3>1. accepted'[x] = accepted[x]
      BY <1>a, <1>b, <2>2 DEF IInv, TypeOK
    <3>2. \A k \in Drain : outcome'[k][x] = outcome[k][x]
      BY <1>a, <1>b, <2>2 DEF IInv, TypeOK
    <3> QED
      BY <3>1, <3>2 DEF IInv, TakenInv
  <2> QED
    BY <2>1, <2>2
<1> QED
  BY <1>1, <1>2, <1>3, <1>4, <1>5, <1>6, <1>7 DEF IInv

(* The one commit files every outcome with the count and the delay it needs.*)
LEMMA CommitStep ==
  ASSUME IInv, OneAtATime, NEW j \in Drain, Commit(j)
  PROVE  IInv'
<1>a. \A d \in Attempted(j) :
        /\ status[d] = "pending" /\ before[j][d] = attempt[d]
        /\ attempt[d] \in Nat /\ attempt[d] + 1 <= Attempts
        /\ backoff[d] = Given(attempt[d])
  <2> SUFFICES ASSUME NEW d \in Attempted(j)
               PROVE  /\ status[d] = "pending" /\ before[j][d] = attempt[d]
                      /\ attempt[d] \in Nat /\ attempt[d] + 1 <= Attempts
                      /\ backoff[d] = Given(attempt[d])
    OBVIOUS
  <2>1. d \in Delivery
    BY DEF Attempted
  <2>2. status[d] = "pending" /\ before[j][d] = attempt[d]
    BY DEF IInv, Commit, DrainInv, AtHand
  <2>3. attempt[d] \in Nat /\ Attempts \in Nat
    BY <2>1 DEF IInv, TypeOK
  <2> QED
    BY <2>1, <2>2, <2>3 DEF IInv, ScheduleInv
<1>b. \A d \in Delivery : outcome[j][d] = "retry" =>
        /\ status'[d] = "pending" /\ attempt'[d] = attempt[d] + 1
        /\ attempt'[d] < Attempts
        /\ backoff'[d] = Append(Given(attempt[d]), Delays[attempt[d] + 1])
  BY <1>a DEF IInv, Commit, OutcomeInv, Attempted, StoredStatus, StoredDelay
<1>c. \A d \in Delivery : outcome[j][d] # "retry" => backoff'[d] = backoff[d]
  BY DEF Commit
<1>d. \A d \in Delivery : outcome[j][d] = "none" =>
        /\ status'[d] = status[d] /\ attempt'[d] = attempt[d]
  BY DEF Commit, StoredStatus, Attempted
<1>e. \A d \in Delivery : outcome[j][d] = "failed" =>
        /\ status'[d] = "failed" /\ attempt'[d] = Attempts
        /\ backoff'[d] = Schedule
  <2> SUFFICES ASSUME NEW d \in Delivery, outcome[j][d] = "failed"
               PROVE  /\ status'[d] = "failed" /\ attempt'[d] = Attempts
                      /\ backoff'[d] = Schedule
    OBVIOUS
  <2>1. d \in Attempted(j) /\ before[j][d] + 1 >= Attempts
    BY DEF Attempted, IInv, OutcomeInv
  <2>2. attempt[d] = Attempts - 1
    BY <1>a, <2>1
  <2>3. backoff'[d] = Schedule
    BY <1>a, <1>c, <2>1, <2>2 DEF Given, Schedule
  <2> QED
    BY <1>a, <2>1, <2>2, <2>3 DEF Commit, StoredStatus
<1>f. \A d \in Delivery : outcome[j][d] \in {"delivered", "cancelled"} =>
        status'[d] = outcome[j][d]
  BY DEF Commit, StoredStatus
<1>g. \A d \in Delivery : outcome[j][d] = "unsafe" =>
        status'[d] = "failed" /\ d \in unsafe'
  BY DEF Commit, StoredStatus
<1>h. \A d \in Delivery : outcome[j][d] \in Outcome
  BY DEF IInv, TypeOK
<1>1. TypeOK'
  <2>1. \A d \in Delivery : outcome[j][d] = "retry" =>
          backoff'[d] \in Seq(Nat) /\ Delays[attempt[d] + 1] \in Nat
    <3> SUFFICES ASSUME NEW d \in Delivery, outcome[j][d] = "retry"
                 PROVE  backoff'[d] \in Seq(Nat) /\ Delays[attempt[d] + 1] \in Nat
      OBVIOUS
    <3>1. d \in Attempted(j)
      BY DEF Attempted
    <3>2. attempt[d] + 1 \in Nat /\ attempt[d] + 1 < Attempts
      BY <1>a, <1>b, <3>1
    <3>3. Delays[attempt[d] + 1] \in Nat
      BY <3>2
    <3>4. Given(attempt[d]) \in Seq(Nat)
      BY <1>a, <3>1 DEF IInv, TypeOK
    <3>5. Append(Given(attempt[d]), Delays[attempt[d] + 1]) \in Seq(Nat)
      BY <3>3, <3>4
    <3> QED
      BY <1>b, <3>3, <3>5
  <2>2. backoff' \in [Delivery -> Seq(Nat)]
    <3>1. \A d \in Delivery : backoff'[d] \in Seq(Nat)
      BY <1>c, <2>1 DEF IInv, TypeOK
    <3> QED
      BY <3>1 DEF Commit
  <2>3. attempt' \in [Delivery -> 0..Attempts]
    BY <1>a DEF IInv, TypeOK, Commit
  <2>4. status' \in [Delivery -> Status]
    BY <1>h DEF IInv, TypeOK, Commit, StoredStatus, Status, Outcome
  <2>5. due' \in [Delivery -> BOOLEAN] /\ unsafe' \subseteq Delivery
    BY DEF IInv, TypeOK, Commit
  <2>6. /\ pc' \in [Drain -> {"idle", "busy"}] /\ batch' \in [Drain -> SUBSET Delivery]
        /\ before' \in [Drain -> [Delivery -> 0..Attempts]]
        /\ seen' \in [Drain -> SUBSET Endpoint]
        /\ outcome' \in [Drain -> [Delivery -> Outcome]]
    BY DEF IInv, TypeOK, Commit, Stop, NoOutcome, Outcome
  <2> QED
    BY <2>2, <2>3, <2>4, <2>5, <2>6 DEF IInv, TypeOK, Commit
<1>2. \A k \in Drain : DrainInv(k)'
  BY DEF IInv, TypeOK, Commit, Stop, NoOutcome, OneAtATime, DrainInv, AtHand, Attempted
<1>3. \A k \in Drain, d \in Delivery : OutcomeInv(k, d)'
  BY DEF IInv, TypeOK, Commit, Stop, NoOutcome, OneAtATime, OutcomeInv
<1>4. \A d \in Delivery : ScheduleInv(d)'
  <2> SUFFICES ASSUME NEW d \in Delivery PROVE ScheduleInv(d)'
    OBVIOUS
  <2>1. CASE outcome[j][d] = "none"
    <3>1. d \in unsafe => d \in unsafe'
      BY DEF Commit
    <3> QED
      BY <1>c, <1>d, <2>1, <3>1 DEF IInv, ScheduleInv
  <2>2. CASE outcome[j][d] = "retry"
    <3>1. attempt[d] \in Nat
      BY DEF IInv, TypeOK
    <3>2. backoff'[d] = Given(attempt'[d])
      BY <1>b, <2>2, <3>1, GivenGrows
    <3> QED
      BY <1>b, <2>2, <3>2 DEF ScheduleInv
  <2>3. CASE outcome[j][d] = "failed"
    BY <1>e, <2>3 DEF ScheduleInv
  <2>4. CASE outcome[j][d] \in {"delivered", "cancelled"}
    BY <1>f, <2>4 DEF ScheduleInv
  <2>5. CASE outcome[j][d] = "unsafe"
    BY <1>g, <2>5 DEF ScheduleInv
  <2> QED
    BY <1>h, <2>1, <2>2, <2>3, <2>4, <2>5 DEF Outcome
<1>5. LostInv'
  BY <1>b, <1>d, <1>e, <1>f, <1>g, <1>h DEF IInv, LostInv, Commit, Outcome
<1>6. DeliveredWasAccepted'
  BY <1>b, <1>d, <1>e, <1>f, <1>g, <1>h
     DEF IInv, DeliveredWasAccepted, OutcomeInv, Commit, Outcome
<1>7. TakenInv'
  <2> SUFFICES ASSUME Quiet, NEW d \in Delivery
               PROVE  /\ accepted[d] <= 1
                      /\ accepted[d] > 0 => status'[d] = "delivered"
    BY DEF Commit, TakenInv, Quiet
  <2>1. accepted[d] <= 1
    BY DEF IInv, TakenInv
  <2>2. ASSUME accepted[d] > 0 PROVE status'[d] = "delivered"
    <3>1. CASE status[d] = "delivered"
      BY <1>a, <1>d, <3>1 DEF Attempted
    <3>2. CASE \E k \in Drain : outcome[k][d] = "delivered"
      BY <1>f, <3>2 DEF OneAtATime
    <3> QED
      BY <2>2, <3>1, <3>2 DEF IInv, TakenInv
  <2> QED
    BY <2>1, <2>2
<1> QED
  BY <1>1, <1>2, <1>3, <1>4, <1>5, <1>6, <1>7 DEF IInv

(* An undone transaction leaves every row as it was; what was accepted in  *)
(* it is not filed, because of a deleted endpoint or a fault.              *)
LEMMA UndoneStep ==
  ASSUME IInv, OneAtATime, NEW j \in Drain, CommitFails(j) \/ Crash(j)
  PROVE  IInv'
<1> USE DEF rows
<1>1. /\ UNCHANGED <<rows, accepted, unsafe, changes>> /\ Stop(j)
      /\ faults' \in 0..MaxFaults
  BY DEF CommitFails, Crash, IInv, TypeOK
<1>2. ~Quiet'
  <2>1. CASE CommitFails(j)
    <3>1. PICK d \in Delivery : status[d] = "lost"
      BY <2>1 DEF CommitFails, Attempted
    <3>2. endpoint[target[d]] = "gone" /\ target[d] \in Endpoint
      BY <3>1 DEF IInv, LostInv
    <3> QED
      BY <1>1, <3>2 DEF Quiet
  <2>2. CASE Crash(j)
    BY <2>2 DEF Crash, Quiet, IInv, TypeOK
  <2> QED
    BY <2>1, <2>2
<1>3. TypeOK'
  BY <1>1 DEF IInv, TypeOK, Stop, NoOutcome, Outcome
<1>4. \A k \in Drain : DrainInv(k)'
  BY <1>1 DEF IInv, TypeOK, Stop, NoOutcome, OneAtATime, DrainInv, AtHand, Attempted
<1>5. \A k \in Drain, d \in Delivery : OutcomeInv(k, d)'
  BY <1>1 DEF IInv, TypeOK, Stop, NoOutcome, OneAtATime, OutcomeInv
<1>6. \A d \in Delivery : ScheduleInv(d)'
  BY <1>1 DEF IInv, ScheduleInv
<1>7. LostInv' /\ DeliveredWasAccepted'
  BY <1>1 DEF IInv, LostInv, DeliveredWasAccepted
<1>8. TakenInv'
  BY <1>2 DEF TakenInv
<1> QED
  BY <1>3, <1>4, <1>5, <1>6, <1>7, <1>8 DEF IInv

(* A deleted endpoint takes its rows with it, and never comes back.        *)
LEMMA ChangeStep ==
  ASSUME IInv, NEW e \in Endpoint, NEW to \in EndpointState, Change(e, to)
  PROVE  IInv'
<1> USE DEF local
<1>1. TypeOK'
  BY DEF IInv, TypeOK, Change, Status
<1>2. \A d \in Delivery : status'[d] \in {status[d], "lost"}
  BY DEF IInv, TypeOK, Change
<1>3. \A k \in Drain : DrainInv(k)'
  BY <1>2 DEF IInv, TypeOK, Change, DrainInv, AtHand, Attempted
<1>4. \A k \in Drain, d \in Delivery : OutcomeInv(k, d)'
  BY DEF IInv, Change, OutcomeInv
<1>5. \A d \in Delivery : ScheduleInv(d)'
  BY <1>2 DEF IInv, Change, ScheduleInv
<1>6. LostInv'
  BY DEF IInv, TypeOK, Change, LostInv
<1>7. DeliveredWasAccepted'
  BY <1>2 DEF IInv, Change, DeliveredWasAccepted
<1>8. TakenInv'
  <2> SUFFICES ASSUME Quiet', NEW d \in Delivery
               PROVE  /\ accepted[d] <= 1
                      /\ accepted[d] > 0 =>
                           status'[d] = "delivered"
                             \/ \E k \in Drain : outcome[k][d] = "delivered"
    BY DEF Change, TakenInv
  <2>1. to # "gone"
    BY DEF Quiet, Change, IInv, TypeOK
  <2>2. Quiet
    BY <2>1 DEF Quiet, Change, IInv, TypeOK
  <2>3. status'[d] = status[d]
    BY <2>1 DEF Change
  <2> QED
    BY <2>2, <2>3 DEF IInv, TakenInv
<1> QED
  BY <1>1, <1>3, <1>4, <1>5, <1>6, <1>7, <1>8 DEF IInv

(* Every step preserves the invariant.                                     *)
LEMMA NextIInv == OneAtATime /\ IInv /\ [Next]_vars => IInv'
<1> SUFFICES ASSUME OneAtATime, IInv, [Next]_vars PROVE IInv'
  OBVIOUS
<1>1. ASSUME NEW d \in Delivery, Enqueue(d) \/ BecomesDue(d) PROVE IInv'
  BY <1>1, EnqueueStep, DueStep
<1>2. ASSUME NEW j \in Drain, DrainStep(j) \/ Crash(j) PROVE IInv'
  BY <1>2, BeginStep, CancelStep, AttemptStep, CommitStep, UndoneStep DEF DrainStep
<1>3. ASSUME NEW e \in Endpoint, NEW to \in EndpointState, Change(e, to) PROVE IInv'
  BY <1>3, ChangeStep
<1>4. CASE UNCHANGED vars
  BY <1>4 DEF vars, rows, local, IInv, TypeOK, DrainInv, AtHand, Attempted,
       OutcomeInv, ScheduleInv, LostInv, DeliveredWasAccepted, TakenInv, Quiet
<1> QED
  BY <1>1, <1>2, <1>3, <1>4 DEF Next

(* A step changes the status of a delivery that has ended only to "lost".  *)
LEMMA EndedStep == IInv /\ [Next]_vars => [EndedStaysEndedStep]_vars
<1> SUFFICES ASSUME IInv, Next PROVE EndedStaysEndedStep
  OBVIOUS
<1> USE DEF EndedStaysEndedStep, rows
<1>1. ASSUME NEW d \in Delivery, Enqueue(d) \/ BecomesDue(d) PROVE EndedStaysEndedStep
  BY <1>1 DEF IInv, TypeOK, Enqueue, BecomesDue
<1>2. ASSUME NEW j \in Drain, Commit(j) PROVE EndedStaysEndedStep
  <2> SUFFICES ASSUME NEW d \in Delivery,
                      status[d] \in {"delivered", "failed", "cancelled"}
               PROVE  status'[d] = status[d]
    OBVIOUS
  <2>1. outcome[j][d] = "none"
    BY DEF IInv, DrainInv, AtHand, Attempted
  <2> QED
    BY <1>2, <2>1 DEF Commit, StoredStatus
<1>3. ASSUME NEW j \in Drain,
             \/ Begin(j) \/ CommitFails(j) \/ Crash(j)
             \/ \E d \in batch[j] : AttemptCancelled(j, d) \/ Attempt(j, d)
      PROVE  EndedStaysEndedStep
  BY <1>3 DEF Begin, CommitFails, Crash, AttemptCancelled, Attempt
<1>4. ASSUME NEW e \in Endpoint, NEW to \in EndpointState, Change(e, to)
      PROVE  EndedStaysEndedStep
  BY <1>4 DEF IInv, TypeOK, Change
<1> QED
  BY <1>1, <1>2, <1>3, <1>4 DEF Next, DrainStep

(* With the drains of one scheduler, what is recorded of every delivery is *)
(* what happened to it: accepted once delivered, delivered once unless a   *)
(* crash or a deletion undid a transaction, and given up only after every  *)
(* delay of the schedule, in order, and every attempt.                     *)
THEOREM DeliveriesAreKeptHolds ==
  ASSUME OneAtATime PROVE Spec => []DeliveriesAreKept
<1>1. Init => IInv
  BY InitIInv
<1>2. IInv /\ [Next]_vars => IInv'
  BY NextIInv
<1>3. IInv => DeliveriesAreKept
  BY IInvImplies
<1> QED
  BY <1>1, <1>2, <1>3, PTL DEF Spec

(* No drain takes up again a delivery that was filed as delivered, failed  *)
(* or cancelled.                                                           *)
THEOREM EndedStaysEndedHolds ==
  ASSUME OneAtATime PROVE Spec => EndedStaysEnded
<1>1. Init => IInv
  BY InitIInv
<1>2. IInv /\ [Next]_vars => IInv'
  BY NextIInv
<1>3. IInv /\ [Next]_vars => [EndedStaysEndedStep]_vars
  BY EndedStep
<1> QED
  BY <1>1, <1>2, <1>3, PTL DEF Spec, EndedStaysEnded
=============================================================================

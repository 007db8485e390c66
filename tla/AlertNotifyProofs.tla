------------------------ MODULE AlertNotifyProofs ------------------------
(***************************************************************************)
(* Proofs about raising alerts, telling people of them and escalating      *)
(* them: for any number of alerts, syncs, sweeps and cycles at once and of *)
(* faults.  What an alert does not survive is named alert by alert in odd; *)
(* the invariants below hold of every alert to which it has not happened.  *)
(***************************************************************************)
EXTENDS AlertNotify, TLAPS

(* Job j has a's delivery row locked.                                      *)
Holds(j, a) == a \in claimed[j] \/ \E t \in tried[j] : t.alert = a

-----------------------------------------------------------------------------
(* The inductive invariant.                                                *)

(* Rows are claimed and tried only between the claim and the commit, and   *)
(* only a cycle under way has escalations to make.                         *)
Placed ==
    \A j \in Job :
        /\ pc[j] # "send" => claimed[j] = {} /\ tried[j] = {}
        /\ j \notin Cycle \/ pc[j] = "idle" => steps[j] = {} /\ marked[j] = {}

(* An alert and its delivery row are committed together.                   *)
RowsTogether == \A a \in Alert : state[a] = "none" <=> delivery[a] = "none"

(* A row is locked by one job, and tried once by it.                       *)
HeldByOne ==
    \A j, k \in Job : \A a \in Alert : Holds(j, a) /\ Holds(k, a) => j = k

TriedOnce ==
    \A j \in Job : \A t \in tried[j] :
        /\ t.alert \notin claimed[j]
        /\ \A u \in tried[j] : t.alert = u.alert => t = u

(* A locked row is pending, or it is the holder's own and uncommitted.     *)
HeldIsPending ==
    \A j \in Job : \A a \in Alert :
        Holds(j, a) => delivery[a] = "pending" \/ (j \in Batch /\ a \in raised[j])

(* What a batch has raised is not visible yet, and the batch holds its row.*)
BatchOwns ==
    \A j \in Batch : \A a \in raised[j] : state[a] = "none" /\ Holds(j, a)

(* What is or will be filed as sent was carried.                           *)
SentIsTold ==
    \A j \in Job : \A t \in tried[j] : t.status = "sent" => told[t.alert] > 0

(* What was carried and not rolled back was carried once, and is or will   *)
(* be on record.                                                           *)
ToldIsFiled ==
    \A a \in Alert : <<"undone", a>> \notin odd /\ told[a] # 0 =>
        /\ told[a] = 1
        /\ delivery[a] = "sent" \/ \E j \in Job : [alert |-> a, status |-> "sent"] \in tried[j]

Drained ==
    /\ Placed /\ RowsTogether /\ HeldByOne /\ TriedOnce /\ HeldIsPending /\ BatchOwns
    /\ SentIsTold /\ SentWasTold /\ ToldIsFiled

(* One cycle has an escalation of an alert in hand, and it has one.        *)
Orderly(a) == <<"beside", a>> \notin odd

OneHand ==
    \A j, k \in Job : \A s \in Hand(j) : \A t \in Hand(k) :
        s.alert = t.alert /\ Orderly(s.alert) => j = k /\ s = t

(* It is ahead of the stage the alert has reached.                         *)
Ahead ==
    \A j \in Job : \A s \in Hand(j) : Orderly(s.alert) => s.to > reached[s.alert]

(* A stage that was mailed was mailed once, and is or will be on record.   *)
NoticedIsMade ==
    \A a \in Alert : Orderly(a) /\ <<"undone", a>> \notin odd =>
        \A s \in Stage : noticed[a][s] # 0 =>
            /\ noticed[a][s] = 1
            /\ reached[a] >= s \/ \E j \in Job : [alert |-> a, to |-> s] \in marked[j]

Climbs == OneHand /\ Ahead /\ NoticedIsMade

-----------------------------------------------------------------------------
(* Types.                                                                  *)

LEMMA InitTyped == Init => TypeOK
  BY NotifyAssumption DEF Init, TypeOK, Stage

(* An escalation that is due is one.                                       *)
LEMMA DueIsStep == ASSUME NEW a \in Alert PROVE Due(a) \subseteq Step
  BY DEF Due, Step, Stage

(* What a commit files for a row the job tried, and for one it did not.    *)
LEMMA DeliveredIs ==
    ASSUME NEW j \in Job, NEW a \in Alert
    PROVE  /\ (\A t \in tried[j] : t.alert # a) => Delivered(j, a) = delivery[a]
           /\ (\E t \in tried[j] : t.alert = a)
                => \E t \in tried[j] : t.alert = a /\ Delivered(j, a) = t.status
<1>1. CASE \A t \in tried[j] : t.alert # a
  BY <1>1 DEF Delivered
<1>2. CASE \E t \in tried[j] : t.alert = a
  <2> DEFINE t == CHOOSE t \in tried[j] : t.alert = a
  <2>1. t \in tried[j] /\ t.alert = a
    BY <1>2
  <2>2. Delivered(j, a) = t.status
    BY <1>2 DEF Delivered
  <2> QED BY <1>2, <2>1, <2>2
<1> QED BY <1>1, <1>2

(* And for an escalation the job made, and one it did not.                 *)
LEMMA ReachedIs ==
    ASSUME NEW j \in Job, NEW a \in Alert
    PROVE  /\ (\A s \in marked[j] : s.alert # a) => Reached(j, a) = reached[a]
           /\ (\E s \in marked[j] : s.alert = a)
                => \E s \in marked[j] : s.alert = a /\ Reached(j, a) = s.to
<1>1. CASE \A s \in marked[j] : s.alert # a
  BY <1>1 DEF Reached
<1>2. CASE \E s \in marked[j] : s.alert = a
  <2> DEFINE s == CHOOSE s \in marked[j] : s.alert = a
  <2>1. s \in marked[j] /\ s.alert = a
    BY <1>2
  <2>2. Reached(j, a) = s.to
    BY <1>2 DEF Reached
  <2> QED BY <1>2, <2>1, <2>2
<1> QED BY <1>1, <1>2

(* The rows a commit writes have the types of the table.                   *)
LEMMA CommitTyped ==
    ASSUME TypeOK, NEW j \in Job, NEW a \in Alert
    PROVE  /\ Delivered(j, a) \in {"none", "pending", "sent", "failed"}
           /\ Reached(j, a) \in 0..2
<1>1. tried[j] \subseteq Try /\ marked[j] \subseteq Step
  BY DEF TypeOK
<1>2. delivery[a] \in {"none", "pending", "sent", "failed"} /\ reached[a] \in 0..2
  BY DEF TypeOK
<1>3. Delivered(j, a) \in {"none", "pending", "sent", "failed"}
  BY <1>1, <1>2, DeliveredIs DEF Try
<1>4. Reached(j, a) \in 0..2
  BY <1>1, <1>2, ReachedIs DEF Step, Stage
<1> QED BY <1>3, <1>4

(* A fault is counted within its bound.                                    *)
LEMMA FaultTyped == ASSUME TypeOK, Fault PROVE faults' \in 0..MaxFaults
  BY NotifyAssumption DEF TypeOK, Fault

(* What is recorded of an undone job is of its own alerts.                 *)
LEMMA UndoTyped == ASSUME TypeOK, NEW j \in Job, Undo(j), faults' \in 0..MaxFaults PROVE TypeOK'
<1>1. About(tried[j] \cup marked[j]) \subseteq Alert
  BY DEF TypeOK, About, Try, Step
<1>2. raised[j] \subseteq Alert
  BY DEF TypeOK
<1>3. odd' \subseteq Odd \X Alert
  BY <1>1, <1>2 DEF Undo, TypeOK, Odd
<1> QED BY <1>3 DEF Undo, Clear, GoTo, TypeOK, database

LEMMA StepTyped == TypeOK /\ [Next]_vars => TypeOK'
<1> SUFFICES ASSUME TypeOK, [Next]_vars PROVE TypeOK'
  OBVIOUS
<1>1. ASSUME NEW j \in Job, Begin(j) PROVE TypeOK'
  <2>1. UNION {Due(a) : a \in Alert} \subseteq Step
    BY DueIsStep
  <2> DEFINE due == UNION {Due(a) : a \in Alert}
  <2>2. About(due) \subseteq Alert
    BY <2>1 DEF About, Step
  <2>3. steps' = [steps EXCEPT ![j] = due]
    BY <1>1 DEF Begin
  <2>4. odd' = odd \cup ({"beside"} \X (About(due) \cap UNION {About(Hand(k)) : k \in Job}))
    BY <1>1 DEF Begin
  <2>5. due \subseteq Step
    BY <2>1
  <2> HIDE DEF due
  <2>6. odd' \subseteq Odd \X Alert
    BY <2>2, <2>4 DEF TypeOK, Odd
  <2>7. steps' \in [Job -> SUBSET Step]
    BY <2>3, <2>5 DEF TypeOK
  <2> QED BY <1>1, <2>6, <2>7 DEF Begin, GoTo, TypeOK, database
<1>2. ASSUME NEW j \in Job, EndCycle(j) PROVE TypeOK'
  BY <1>2 DEF EndCycle, GoTo, TypeOK, database
<1>3. ASSUME NEW j \in Job, Claim(j) PROVE TypeOK'
  <2> DEFINE mine == IF j \in Sync THEN raised[j] ELSE Alert
  <2>1. mine \subseteq Alert
    BY DEF TypeOK
  <2>2. {a \in mine : delivery[a] = "pending" /\ ~Busy(a)} \subseteq Alert
    BY <2>1
  <2> HIDE DEF mine
  <2>3. claimed' = [claimed EXCEPT ![j] = {a \in mine : delivery[a] = "pending" /\ ~Busy(a)}]
    BY <1>3 DEF Claim, mine
  <2>4. claimed' \in [Job -> SUBSET Alert]
    BY <2>2, <2>3 DEF TypeOK
  <2> QED BY <1>3, <2>4 DEF Claim, GoTo, TypeOK, database
<1>4. ASSUME NEW j \in Job, Commit(j) PROVE TypeOK'
  <2>1. delivery' \in [Alert -> {"none", "pending", "sent", "failed"}]
    BY <1>4, CommitTyped DEF Commit
  <2>2. reached' \in [Alert -> 0..2]
    BY <1>4, CommitTyped DEF Commit
  <2>3. state' \in [Alert -> {"none", "open", "answered"}]
    BY <1>4 DEF Commit, TypeOK
  <2> QED BY <1>4, <2>1, <2>2, <2>3 DEF Commit, Clear, GoTo, TypeOK
<1>5. ASSUME NEW j \in Job, NEW s \in steps[j], Escalate(j, s) PROVE TypeOK'
  <2>1. s \in Step /\ s.alert \in Alert /\ s.to \in Stage
    BY DEF TypeOK, Step
  <2>2. noticed' \in [Alert -> [Stage -> 0..2]]
    <3>1. noticed \in [Alert -> [Stage -> 0..2]]
      BY DEF TypeOK
    <3>2. \/ UNCHANGED noticed
          \/ noticed' = [noticed EXCEPT ![s.alert][s.to] =
                                          IF noticed[s.alert][s.to] = 0 THEN 1 ELSE 2]
      BY <1>5 DEF Escalate
    <3> QED BY <2>1, <3>1, <3>2
  <2>3. faults' \in 0..MaxFaults
    BY <1>5, FaultTyped DEF Escalate, TypeOK
  <2>4. steps' \in [Job -> SUBSET Step] /\ marked' \in [Job -> SUBSET Step]
    BY <1>5, <2>1 DEF Escalate, TypeOK
  <2> QED BY <1>5, <2>2, <2>3, <2>4 DEF Escalate, TypeOK, database
<1>6. ASSUME NEW j \in Job, NEW a \in claimed[j], Send(j, a) PROVE TypeOK'
  <2>1. a \in Alert
    BY DEF TypeOK
  <2>2. faults' \in 0..MaxFaults
    BY <1>6, FaultTyped DEF Send, TypeOK
  <2>3. told' \in [Alert -> Nat]
    <3>1. told \in [Alert -> Nat] /\ told[a] + 1 \in Nat
      BY <2>1 DEF TypeOK
    <3>2. UNCHANGED told \/ told' = [told EXCEPT ![a] = told[a] + 1]
      BY <1>6 DEF Send
    <3> QED BY <3>1, <3>2
  <2>4. tried' \in [Job -> SUBSET Try]
    BY <1>6, <2>1 DEF Send, TypeOK, Try
  <2>5. claimed' \in [Job -> SUBSET Alert]
    BY <1>6 DEF Send, TypeOK
  <2> QED BY <1>6, <2>2, <2>3, <2>4, <2>5 DEF Send, TypeOK, database
<1>7. ASSUME NEW j \in Job, Rollback(j) PROVE TypeOK'
  BY <1>7, FaultTyped, UndoTyped DEF Rollback
<1>8. ASSUME NEW j \in Job, NEW a \in Alert, SyncRaise(j, a) PROVE TypeOK'
  BY <1>8 DEF SyncRaise, GoTo, TypeOK
<1>9. ASSUME NEW j \in Job, NEW a \in Alert, BatchRaise(j, a) PROVE TypeOK'
  BY <1>9 DEF BatchRaise, GoTo, TypeOK, database
<1>10. ASSUME NEW a \in Alert, Answer(a) PROVE TypeOK'
  BY <1>10 DEF Answer, TypeOK, work
<1>11. ASSUME NEW j \in Job, DeadlockVictim(j) PROVE TypeOK'
  BY <1>11, UndoTyped DEF DeadlockVictim, TypeOK
<1>12. ASSUME NEW a \in Alert, Ageing(a) PROVE TypeOK'
  <2>1. age \in [Alert -> 0..2] /\ age[a] + 1 \in 0..2
    <3>1. age \in [Alert -> 0..2]
      BY DEF TypeOK
    <3>2. age[a] \in 0..2 /\ age[a] < 2
      BY <1>12, <3>1 DEF Ageing
    <3> QED BY <3>1, <3>2
  <2>2. age' = [age EXCEPT ![a] = age[a] + 1]
    BY <1>12 DEF Ageing
  <2>3. age' \in [Alert -> 0..2]
    BY <2>1, <2>2
  <2> QED BY <1>12, <2>3 DEF Ageing, TypeOK, work
<1>13. CASE UNCHANGED vars
  BY <1>13 DEF vars, TypeOK, database, work
<1> QED
  BY <1>1, <1>2, <1>3, <1>4, <1>5, <1>6, <1>7, <1>8, <1>9, <1>10, <1>11, <1>12, <1>13
     DEF Next, Going

-----------------------------------------------------------------------------
(* Deliveries.                                                             *)

LEMMA InitDrained == Init => Drained
  BY DEF Init, Drained, Placed, RowsTogether, HeldByOne, TriedOnce, HeldIsPending, BatchOwns,
         SentIsTold, SentWasTold, ToldIsFiled, Holds, Job

(* A row nobody has committed or raised is nobody's, and nothing of it was *)
(* carried unless it was undone.                                           *)
LEMMA FreshIsFree ==
    ASSUME Drained, NEW a \in Alert, state[a] = "none", ~InFlight(a)
    PROVE  /\ \A k \in Job : ~Holds(k, a)
           /\ delivery[a] = "none"
           /\ <<"undone", a>> \notin odd => told[a] = 0
<1>1. delivery[a] = "none"
  BY DEF Drained, RowsTogether
<1>2. \A k \in Job : ~Holds(k, a)
  BY <1>1 DEF Drained, HeldIsPending, InFlight
<1>3. \A k \in Job : [alert |-> a, status |-> "sent"] \notin tried[k]
  BY <1>2 DEF Holds
<1>4. <<"undone", a>> \notin odd => told[a] = 0
  BY <1>1, <1>3 DEF Drained, ToldIsFiled
<1> QED BY <1>1, <1>2, <1>4

(* A step that touches no delivery keeps the invariant.                    *)
LEMMA QuietDrains ==
    ASSUME TypeOK, Drained, Placed',
           UNCHANGED <<raised, claimed, tried, told, delivery>>,
           odd \subseteq odd',
           \A a \in Alert : state'[a] = "none" <=> state[a] = "none"
    PROVE  Drained'
<1>1. \A k \in Job : \A b \in Alert : Holds(k, b)' <=> Holds(k, b)
  BY DEF Holds
<1>2. Batch \subseteq Job /\ \A k \in Job : raised[k] \subseteq Alert
  BY DEF Job, TypeOK
<1>3. RowsTogether'
  BY DEF Drained, RowsTogether
<1>4. HeldByOne'
  BY <1>1 DEF Drained, HeldByOne
<1>5. TriedOnce'
  BY DEF Drained, TriedOnce
<1>6. HeldIsPending'
  BY <1>1 DEF Drained, HeldIsPending
<1>7. BatchOwns'
  BY <1>1, <1>2 DEF Drained, BatchOwns
<1>8. SentIsTold' /\ SentWasTold'
  BY DEF Drained, SentIsTold, SentWasTold
<1>9. ToldIsFiled'
  BY DEF Drained, ToldIsFiled
<1> QED BY <1>3, <1>4, <1>5, <1>6, <1>7, <1>8, <1>9 DEF Drained

LEMMA SyncRaiseDrains ==
    ASSUME TypeOK, Drained, NEW j \in Job, NEW a \in Alert, SyncRaise(j, a)
    PROVE  Drained'
<1>1. /\ state' = [state EXCEPT ![a] = "open"]
      /\ delivery' = [delivery EXCEPT ![a] = "pending"]
      /\ raised' = [raised EXCEPT ![j] = {a}]
      /\ pc' = [pc EXCEPT ![j] = "claim"]
      /\ UNCHANGED <<steps, marked, claimed, tried, told, odd>>
      /\ pc[j] = "idle" /\ state[a] = "none" /\ ~InFlight(a) /\ j \notin Batch
  BY NotifyAssumption DEF SyncRaise, GoTo
<1>2. \A k \in Job : \A b \in Alert : Holds(k, b)' <=> Holds(k, b)
  BY <1>1 DEF Holds
<1>3. /\ \A k \in Job : ~Holds(k, a)
      /\ delivery[a] = "none"
      /\ <<"undone", a>> \notin odd => told[a] = 0
  BY <1>1, FreshIsFree
<1>4. \A b \in Alert : b # a => state'[b] = state[b] /\ delivery'[b] = delivery[b]
  BY <1>1 DEF TypeOK
<1>5. state'[a] = "open" /\ delivery'[a] = "pending"
  BY <1>1 DEF TypeOK
<1>6. Batch \subseteq Job /\ \A k \in Job : raised[k] \subseteq Alert
  BY DEF Job, TypeOK
<1>7. \A k \in Job : k # j => raised'[k] = raised[k] /\ pc'[k] = pc[k]
  BY <1>1 DEF TypeOK
<1>8. Placed'
  BY <1>1, <1>7 DEF Drained, Placed, TypeOK
<1>9. RowsTogether'
  BY <1>4, <1>5 DEF Drained, RowsTogether
<1>10. HeldByOne' /\ TriedOnce'
  BY <1>1, <1>2 DEF Drained, HeldByOne, TriedOnce
<1>11. HeldIsPending'
  BY <1>1, <1>2, <1>4, <1>5, <1>7 DEF Drained, HeldIsPending
<1>12. BatchOwns'
  <2> SUFFICES ASSUME NEW k \in Batch, NEW b \in raised'[k]
               PROVE  state'[b] = "none" /\ Holds(k, b)'
    BY DEF BatchOwns
  <2>1. k # j /\ k \in Job /\ b \in raised[k] /\ b \in Alert
    BY <1>1, <1>6, <1>7
  <2>2. b # a
    BY <1>1, <2>1 DEF InFlight
  <2> QED BY <1>2, <1>4, <2>1, <2>2 DEF Drained, BatchOwns
<1>13. SentIsTold' /\ SentWasTold'
  BY <1>1, <1>4, <1>5 DEF Drained, SentIsTold, SentWasTold
<1>14. ToldIsFiled'
  BY <1>1, <1>3, <1>4 DEF Drained, ToldIsFiled
<1> QED BY <1>8, <1>9, <1>10, <1>11, <1>12, <1>13, <1>14 DEF Drained

LEMMA BatchRaiseDrains ==
    ASSUME TypeOK, Drained, NEW j \in Job, NEW a \in Alert, BatchRaise(j, a)
    PROVE  Drained'
<1>1. /\ raised' = [raised EXCEPT ![j] = raised[j] \cup {a}]
      /\ claimed' = [claimed EXCEPT ![j] = {a}]
      /\ pc' = [pc EXCEPT ![j] = "send"]
      /\ UNCHANGED <<state, delivery, steps, marked, tried, told, odd>>
      /\ state[a] = "none" /\ ~InFlight(a) /\ j \in Batch
  BY DEF BatchRaise, GoTo, database
<1>2. claimed[j] = {}
  BY DEF BatchRaise, Drained, Placed
<1>3. /\ \A k \in Job : ~Holds(k, a)
      /\ delivery[a] = "none"
  BY <1>1, FreshIsFree
<1>4. /\ claimed'[j] = {a} /\ raised'[j] = raised[j] \cup {a} /\ pc'[j] = "send"
      /\ \A k \in Job : k # j =>
           claimed'[k] = claimed[k] /\ raised'[k] = raised[k] /\ pc'[k] = pc[k]
  BY <1>1 DEF TypeOK
<1>5. \A k \in Job : \A b \in Alert : Holds(k, b)' <=> Holds(k, b) \/ (k = j /\ b = a)
  BY <1>1, <1>2, <1>4 DEF Holds
<1>6. Batch \subseteq Job /\ \A k \in Job : raised[k] \subseteq Alert /\ tried[k] \subseteq Try
  BY DEF Job, TypeOK
<1>7. Placed'
  BY <1>1, <1>4 DEF Drained, Placed
<1>8. RowsTogether'
  BY <1>1 DEF Drained, RowsTogether
<1>9. HeldByOne'
  BY <1>3, <1>5 DEF Drained, HeldByOne
<1>10. TriedOnce'
  BY <1>1, <1>3, <1>4, <1>6 DEF Drained, TriedOnce, Holds, Try
<1>11. HeldIsPending'
  BY <1>1, <1>4, <1>5 DEF Drained, HeldIsPending
<1>12. BatchOwns'
  <2> SUFFICES ASSUME NEW k \in Batch, NEW b \in raised'[k]
               PROVE  state'[b] = "none" /\ Holds(k, b)'
    BY DEF BatchOwns
  <2>1. k \in Job
    BY <1>6
  <2>2. CASE k = j /\ b = a
    BY <1>1, <1>5, <2>1, <2>2
  <2>3. CASE ~(k = j /\ b = a)
    <3>1. b \in raised[k] /\ b \in Alert
      BY <1>4, <1>6, <2>1, <2>3
    <3> QED BY <1>1, <1>5, <2>1, <3>1 DEF Drained, BatchOwns
  <2> QED BY <2>2, <2>3
<1>13. SentIsTold' /\ SentWasTold' /\ ToldIsFiled'
  BY <1>1 DEF Drained, SentIsTold, SentWasTold, ToldIsFiled
<1> QED BY <1>7, <1>8, <1>9, <1>10, <1>11, <1>12, <1>13 DEF Drained

LEMMA ClaimDrains ==
    ASSUME TypeOK, Drained, NEW j \in Job, Claim(j)
    PROVE  Drained'
<1>1. /\ pc' = [pc EXCEPT ![j] = "send"] /\ pc[j] = "claim"
      /\ UNCHANGED <<state, delivery, raised, steps, marked, tried, told, odd>>
  BY DEF Claim, GoTo, database
<1>2. claimed[j] = {} /\ tried[j] = {}
  BY <1>1 DEF Drained, Placed
<1>3. PICK new \in SUBSET Alert :
        /\ claimed' = [claimed EXCEPT ![j] = new]
        /\ \A a \in new : delivery[a] = "pending" /\ ~Busy(a)
  <2> DEFINE mine == IF j \in Sync THEN raised[j] ELSE Alert
  <2>1. mine \subseteq Alert
    BY DEF TypeOK
  <2>2. claimed' = [claimed EXCEPT ![j] = {a \in mine : delivery[a] = "pending" /\ ~Busy(a)}]
    BY DEF Claim
  <2>3. {a \in mine : delivery[a] = "pending" /\ ~Busy(a)} \in SUBSET Alert
    BY <2>1
  <2> HIDE DEF mine
  <2> QED BY <2>2, <2>3
<1>4. /\ claimed'[j] = new /\ pc'[j] = "send"
      /\ \A k \in Job : k # j => claimed'[k] = claimed[k] /\ pc'[k] = pc[k]
  BY <1>1, <1>3 DEF TypeOK
<1>5. \A k \in Job : \A a \in new : ~Holds(k, a)
  BY <1>3 DEF Busy, Holds
<1>6. \A k \in Job : \A b \in Alert : Holds(k, b)' <=> Holds(k, b) \/ (k = j /\ b \in new)
  BY <1>1, <1>2, <1>4 DEF Holds
<1>7. Batch \subseteq Job /\ \A k \in Job : raised[k] \subseteq Alert
  BY DEF Job, TypeOK
<1>8. Placed'
  BY <1>1, <1>4 DEF Drained, Placed
<1>9. RowsTogether'
  BY <1>1 DEF Drained, RowsTogether
<1>10. HeldByOne'
  BY <1>5, <1>6 DEF Drained, HeldByOne
<1>11. TriedOnce'
  BY <1>1, <1>2, <1>4 DEF Drained, TriedOnce
<1>12. HeldIsPending'
  BY <1>1, <1>3, <1>6 DEF Drained, HeldIsPending
<1>13. BatchOwns'
  BY <1>1, <1>6, <1>7 DEF Drained, BatchOwns
<1>14. SentIsTold' /\ SentWasTold' /\ ToldIsFiled'
  BY <1>1 DEF Drained, SentIsTold, SentWasTold, ToldIsFiled
<1> QED BY <1>8, <1>9, <1>10, <1>11, <1>12, <1>13, <1>14 DEF Drained

LEMMA SendDrains ==
    ASSUME TypeOK, Drained, NEW j \in Job, NEW a \in claimed[j], Send(j, a)
    PROVE  Drained'
<1>1. /\ claimed' = [claimed EXCEPT ![j] = claimed[j] \ {a}]
      /\ UNCHANGED <<state, delivery, pc, raised, steps, marked, odd>>
      /\ pc[j] = "send" /\ a \in Alert
  BY DEF Send, database, TypeOK
<1>2. PICK t \in Try :
        /\ t.alert = a
        /\ tried' = [tried EXCEPT ![j] = tried[j] \cup {t}]
        /\ \/ t = [alert |-> a, status |-> "sent"] /\ told' = [told EXCEPT ![a] = told[a] + 1]
           \/ t.status = "failed" /\ told' = told
  <2>1. CASE /\ told' = [told EXCEPT ![a] = told[a] + 1]
             /\ tried' = [tried EXCEPT ![j] = tried[j] \cup {[alert |-> a, status |-> "sent"]}]
    <3>1. [alert |-> a, status |-> "sent"] \in Try
      BY <1>1 DEF Try
    <3> QED BY <2>1, <3>1
  <2>2. CASE /\ told' = told
             /\ tried' = [tried EXCEPT ![j] = tried[j] \cup {[alert |-> a, status |-> "failed"]}]
    <3>1. [alert |-> a, status |-> "failed"] \in Try
      BY <1>1 DEF Try
    <3> QED BY <2>2, <3>1
  <2> QED BY <2>1, <2>2 DEF Send
<1>3. /\ claimed'[j] = claimed[j] \ {a} /\ tried'[j] = tried[j] \cup {t}
      /\ \A k \in Job : k # j => claimed'[k] = claimed[k] /\ tried'[k] = tried[k]
  BY <1>1, <1>2 DEF TypeOK
<1>4. \A k \in Job : \A b \in Alert : Holds(k, b)' <=> Holds(k, b)
  BY <1>2, <1>3 DEF Holds
<1>5. Batch \subseteq Job /\ \A k \in Job : raised[k] \subseteq Alert /\ tried[k] \subseteq Try
  BY DEF Job, TypeOK
<1>6. \A b \in Alert : told[b] \in Nat
  BY DEF TypeOK
<1>7. \A b \in Alert : told[b] > 0 => told'[b] > 0
  <2> SUFFICES ASSUME NEW b \in Alert PROVE told[b] > 0 => told'[b] > 0
    OBVIOUS
  <2>1. told'[b] = told[b] \/ told'[b] = told[b] + 1
    BY <1>1, <1>2 DEF TypeOK
  <2> QED BY <1>6, <2>1
<1>9. delivery[a] # "sent" /\ \A k \in Job : \A u \in tried[k] : u.alert # a
  <2>1. Holds(j, a)
    BY DEF Holds
  <2>2. delivery[a] # "sent"
    BY <1>1, <2>1 DEF Drained, HeldIsPending, BatchOwns, RowsTogether
  <2>3. ASSUME NEW k \in Job, NEW u \in tried[k], u.alert = a PROVE FALSE
    <3>1. k = j
      BY <1>1, <2>1, <2>3 DEF Drained, HeldByOne, Holds
    <3> QED BY <2>3, <3>1 DEF Drained, TriedOnce
  <2> QED BY <2>2, <2>3
<1>10. Placed'
  BY <1>1, <1>3 DEF Drained, Placed
<1>11. RowsTogether'
  BY <1>1 DEF Drained, RowsTogether
<1>12. HeldByOne'
  BY <1>4 DEF Drained, HeldByOne
<1>13. TriedOnce'
  <2> SUFFICES ASSUME NEW k \in Job, NEW u \in tried'[k]
               PROVE  u.alert \notin claimed'[k] /\ \A v \in tried'[k] : u.alert = v.alert => u = v
    BY DEF TriedOnce
  <2>1. CASE k # j
    BY <1>3, <2>1 DEF Drained, TriedOnce
  <2>2. CASE k = j
    BY <1>2, <1>3, <1>9, <2>2 DEF Drained, TriedOnce
  <2> QED BY <2>1, <2>2
<1>14. HeldIsPending' /\ BatchOwns'
  BY <1>1, <1>4, <1>5 DEF Drained, HeldIsPending, BatchOwns
<1>15. SentIsTold'
  <2> SUFFICES ASSUME NEW k \in Job, NEW u \in tried'[k], u.status = "sent"
               PROVE  told'[u.alert] > 0
    BY DEF SentIsTold
  <2>1. CASE u \in tried[k]
    <3>1. told[u.alert] > 0 /\ u.alert \in Alert
      BY <1>5, <2>1 DEF Drained, SentIsTold, Try
    <3> QED BY <1>7, <3>1
  <2>2. CASE u \notin tried[k]
    <3>1. u = t
      BY <1>3, <2>2
    <3>2. told' = [told EXCEPT ![a] = told[a] + 1] /\ u.alert = a
      BY <1>2, <3>1
    <3>3. told'[a] = told[a] + 1
      BY <1>1, <3>2 DEF TypeOK
    <3> QED BY <1>1, <1>6, <3>2, <3>3
  <2> QED BY <2>1, <2>2
<1>16. SentWasTold'
  <2> SUFFICES ASSUME NEW b \in Alert, delivery'[b] = "sent" PROVE told'[b] > 0
    BY DEF SentWasTold
  <2>1. b # a /\ told[b] > 0
    BY <1>1, <1>9 DEF Drained, SentWasTold
  <2>2. told'[b] = told[b]
    BY <1>1, <1>2, <2>1 DEF TypeOK
  <2> QED BY <2>1, <2>2
<1>17. ToldIsFiled'
  <2> SUFFICES ASSUME NEW b \in Alert, <<"undone", b>> \notin odd, told'[b] # 0
               PROVE  /\ told'[b] = 1
                      /\ \/ delivery'[b] = "sent"
                         \/ \E k \in Job : [alert |-> b, status |-> "sent"] \in tried'[k]
    BY <1>1 DEF ToldIsFiled
  <2>3. CASE b = a
    <3>1. told[a] = 0
      <4>1. \A k \in Job : [alert |-> a, status |-> "sent"] \notin tried[k]
        BY <1>9
      <4> QED BY <1>1, <1>9, <2>3, <4>1 DEF Drained, ToldIsFiled
    <3>2. t = [alert |-> a, status |-> "sent"] /\ told' = [told EXCEPT ![a] = told[a] + 1]
      BY <1>2, <2>3, <3>1
    <3>3. told'[a] = 1
      BY <1>1, <3>1, <3>2 DEF TypeOK
    <3> QED BY <1>3, <2>3, <3>2, <3>3
  <2>4. CASE b # a
    <3>1. told'[b] = told[b]
      BY <1>1, <1>2, <2>4 DEF TypeOK
    <3>2. /\ told[b] = 1
          /\ delivery[b] = "sent" \/ \E k \in Job : [alert |-> b, status |-> "sent"] \in tried[k]
      BY <3>1 DEF Drained, ToldIsFiled
    <3>3. \A k \in Job : tried[k] \subseteq tried'[k]
      BY <1>3
    <3> QED BY <1>1, <3>1, <3>2, <3>3
  <2> QED BY <2>3, <2>4
<1> QED BY <1>10, <1>11, <1>12, <1>13, <1>14, <1>15, <1>16, <1>17 DEF Drained

(* What a commit or a rollback leaves of the locks.                        *)
LEMMA ClearReleases ==
    ASSUME TypeOK, NEW j \in Job, Clear(j)
    PROVE  /\ claimed'[j] = {} /\ tried'[j] = {} /\ raised'[j] = {}
           /\ \A k \in Job : k # j => /\ claimed'[k] = claimed[k] /\ tried'[k] = tried[k]
                                       /\ raised'[k] = raised[k] /\ pc'[k] = pc[k]
                                       /\ steps'[k] = steps[k] /\ marked'[k] = marked[k]
           /\ steps'[j] = {} /\ marked'[j] = {}
           /\ \A k \in Job : \A b \in Alert : Holds(k, b)' <=> k # j /\ Holds(k, b)
<1>1. /\ claimed'[j] = {} /\ tried'[j] = {} /\ raised'[j] = {} /\ steps'[j] = {} /\ marked'[j] = {}
      /\ \A k \in Job : k # j => /\ claimed'[k] = claimed[k] /\ tried'[k] = tried[k]
                                  /\ raised'[k] = raised[k] /\ pc'[k] = pc[k]
                                  /\ steps'[k] = steps[k] /\ marked'[k] = marked[k]
  BY DEF TypeOK, Clear, GoTo
<1> QED BY <1>1 DEF Holds

LEMMA UndoDrains ==
    ASSUME TypeOK, Drained, NEW j \in Job, Undo(j)
    PROVE  Drained'
<1>1. /\ Clear(j)
      /\ UNCHANGED <<state, delivery, told>>
      /\ odd \subseteq odd'
      /\ \A t \in tried[j] : <<"undone", t.alert>> \in odd'
  BY DEF Undo, database, About
<1>2. Batch \subseteq Job /\ \A k \in Job : raised[k] \subseteq Alert
  BY DEF Job, TypeOK
<1>3. Placed'
  BY <1>1, ClearReleases DEF Drained, Placed
<1>4. RowsTogether'
  BY <1>1 DEF Drained, RowsTogether
<1>5. HeldByOne'
  BY <1>1, ClearReleases DEF Drained, HeldByOne
<1>6. TriedOnce'
  BY <1>1, ClearReleases DEF Drained, TriedOnce
<1>7. HeldIsPending'
  BY <1>1, ClearReleases DEF Drained, HeldIsPending
<1>8. BatchOwns'
  BY <1>1, <1>2, ClearReleases DEF Drained, BatchOwns
<1>9. SentIsTold' /\ SentWasTold'
  BY <1>1, ClearReleases DEF Drained, SentIsTold, SentWasTold
<1>10. ToldIsFiled'
  <2> SUFFICES ASSUME NEW b \in Alert, <<"undone", b>> \notin odd', told[b] # 0
               PROVE  /\ told[b] = 1
                      /\ \/ delivery[b] = "sent"
                         \/ \E k \in Job : [alert |-> b, status |-> "sent"] \in tried'[k]
    BY <1>1 DEF ToldIsFiled
  <2>1. /\ told[b] = 1
        /\ delivery[b] = "sent" \/ \E k \in Job : [alert |-> b, status |-> "sent"] \in tried[k]
    BY <1>1 DEF Drained, ToldIsFiled
  <2>2. [alert |-> b, status |-> "sent"] \notin tried[j]
    BY <1>1
  <2> QED BY <1>1, <2>1, <2>2, ClearReleases
<1> QED BY <1>3, <1>4, <1>5, <1>6, <1>7, <1>8, <1>9, <1>10 DEF Drained

LEMMA CommitDrains ==
    ASSUME TypeOK, Drained, NEW j \in Job, Commit(j)
    PROVE  Drained'
<1>1. /\ Clear(j) /\ UNCHANGED <<told, odd>>
      /\ delivery' = [a \in Alert |-> Delivered(j, a)]
      /\ state' = [a \in Alert |-> IF j \in Batch /\ a \in raised[j] THEN "open" ELSE state[a]]
  BY DEF Commit
<1>2. claimed[j] = {}
  BY DEF Commit, Drained, Placed
<1>3. Batch \subseteq Job /\ \A k \in Job : raised[k] \subseteq Alert /\ tried[k] \subseteq Try
  BY DEF Job, TypeOK
<1>4. ASSUME NEW b \in Alert, Holds(j, b)
      PROVE  /\ \E t \in tried[j] : t.alert = b /\ delivery'[b] = t.status
             /\ delivery'[b] \in {"sent", "failed"}
             /\ delivery[b] # "sent"
             /\ state'[b] # "none"
  <2>1. PICK t \in tried[j] : t.alert = b /\ Delivered(j, b) = t.status
    BY <1>2, <1>4, DeliveredIs DEF Holds
  <2>2. delivery'[b] = t.status /\ t \in Try
    BY <1>1, <1>3, <2>1
  <2>3. delivery[b] = "pending" \/ (j \in Batch /\ b \in raised[j])
    BY <1>4 DEF Drained, HeldIsPending
  <2>4. delivery[b] # "sent" /\ state'[b] # "none"
    BY <1>1, <2>3 DEF Drained, RowsTogether, BatchOwns
  <2> QED BY <2>1, <2>2, <2>4 DEF Try
<1>5. ASSUME NEW b \in Alert, ~Holds(j, b)
      PROVE  delivery'[b] = delivery[b] /\ state'[b] = state[b]
  <2>1. Delivered(j, b) = delivery[b]
    BY <1>5, DeliveredIs DEF Holds
  <2>2. ~(j \in Batch /\ b \in raised[j])
    BY <1>5 DEF Drained, BatchOwns
  <2> QED BY <1>1, <2>1, <2>2
<1>6. Placed'
  BY <1>1, ClearReleases DEF Drained, Placed
<1>7. RowsTogether'
  BY <1>4, <1>5 DEF Drained, RowsTogether
<1>8. HeldByOne'
  BY <1>1, ClearReleases DEF Drained, HeldByOne
<1>9. TriedOnce'
  BY <1>1, ClearReleases DEF Drained, TriedOnce
<1>10. HeldIsPending'
  <2> SUFFICES ASSUME NEW k \in Job, NEW b \in Alert, Holds(k, b)'
               PROVE  delivery'[b] = "pending" \/ (k \in Batch /\ b \in raised'[k])
    BY DEF HeldIsPending
  <2>1. k # j /\ Holds(k, b) /\ raised'[k] = raised[k]
    BY <1>1, ClearReleases
  <2>2. ~Holds(j, b)
    BY <2>1 DEF Drained, HeldByOne
  <2> QED BY <1>5, <2>1, <2>2 DEF Drained, HeldIsPending
<1>11. BatchOwns'
  <2> SUFFICES ASSUME NEW k \in Batch, NEW b \in raised'[k]
               PROVE  state'[b] = "none" /\ Holds(k, b)'
    BY DEF BatchOwns
  <2>1. k \in Job /\ k # j /\ b \in raised[k] /\ b \in Alert
    BY <1>1, <1>3, ClearReleases
  <2>2. state[b] = "none" /\ Holds(k, b)
    BY <2>1 DEF Drained, BatchOwns
  <2>3. ~Holds(j, b)
    BY <2>1, <2>2 DEF Drained, HeldByOne
  <2> QED BY <1>1, <1>5, <2>1, <2>2, <2>3, ClearReleases
<1>12. SentIsTold'
  BY <1>1, ClearReleases DEF Drained, SentIsTold
<1>13. SentWasTold'
  <2> SUFFICES ASSUME NEW b \in Alert, delivery'[b] = "sent" PROVE told[b] > 0
    BY <1>1 DEF SentWasTold
  <2>1. CASE Holds(j, b)
    BY <1>4, <2>1 DEF Drained, SentIsTold
  <2>2. CASE ~Holds(j, b)
    BY <1>5, <2>2 DEF Drained, SentWasTold
  <2> QED BY <2>1, <2>2
<1>14. ToldIsFiled'
  <2> SUFFICES ASSUME NEW b \in Alert, <<"undone", b>> \notin odd, told[b] # 0
               PROVE  /\ told[b] = 1
                      /\ \/ delivery'[b] = "sent"
                         \/ \E k \in Job : [alert |-> b, status |-> "sent"] \in tried'[k]
    BY <1>1 DEF ToldIsFiled
  <2>1. /\ told[b] = 1
        /\ delivery[b] = "sent" \/ \E k \in Job : [alert |-> b, status |-> "sent"] \in tried[k]
    BY DEF Drained, ToldIsFiled
  <2>2. CASE delivery[b] = "sent"
    BY <1>4, <1>5, <2>1, <2>2
  <2>3. ASSUME NEW k \in Job, [alert |-> b, status |-> "sent"] \in tried[k]
        PROVE  delivery'[b] = "sent" \/ [alert |-> b, status |-> "sent"] \in tried'[k]
    <3>1. CASE k # j
      BY <1>1, <2>3, <3>1, ClearReleases
    <3>2. CASE k = j
      <4>1. Holds(j, b)
        BY <2>3, <3>2 DEF Holds
      <4>2. PICK t \in tried[j] : t.alert = b /\ delivery'[b] = t.status
        BY <1>4, <4>1
      <4>3. t = [alert |-> b, status |-> "sent"]
        BY <2>3, <3>2, <4>2 DEF Drained, TriedOnce
      <4> QED BY <4>2, <4>3
    <3> QED BY <3>1, <3>2
  <2> QED BY <2>1, <2>2, <2>3
<1> QED BY <1>6, <1>7, <1>8, <1>9, <1>10, <1>11, <1>12, <1>13, <1>14 DEF Drained

LEMMA StepDrains == TypeOK /\ Drained /\ [Next]_vars => Drained'
<1> SUFFICES ASSUME TypeOK, Drained, [Next]_vars PROVE Drained'
  OBVIOUS
<1>1. ASSUME NEW j \in Job, Begin(j) PROVE Drained'
  <2>1. Placed'
    BY <1>1 DEF Begin, GoTo, TypeOK, Drained, Placed
  <2>2. odd \subseteq odd'
    BY <1>1 DEF Begin
  <2> QED BY <1>1, <2>1, <2>2, QuietDrains DEF Begin, database
<1>2. ASSUME NEW j \in Job, EndCycle(j) PROVE Drained'
  <2>1. Placed'
    BY <1>2 DEF EndCycle, GoTo, TypeOK, Drained, Placed
  <2> QED BY <1>2, <2>1, QuietDrains DEF EndCycle, database
<1>3. ASSUME NEW j \in Job, NEW s \in steps[j], Escalate(j, s) PROVE Drained'
  <2>1. j \in Cycle
    BY DEF Drained, Placed
  <2>2. Placed'
    BY <1>3, <2>1 DEF Escalate, TypeOK, Drained, Placed
  <2> QED BY <1>3, <2>2, QuietDrains DEF Escalate, database
<1>4. ASSUME NEW a \in Alert, Answer(a) PROVE Drained'
  <2>1. Placed'
    BY <1>4 DEF Answer, work, Drained, Placed
  <2>2. \A b \in Alert : state'[b] = "none" <=> state[b] = "none"
    BY <1>4 DEF Answer, TypeOK
  <2> QED BY <1>4, <2>1, <2>2, QuietDrains DEF Answer, work
<1>5. ASSUME NEW j \in Job, Rollback(j) \/ DeadlockVictim(j) PROVE Drained'
  BY <1>5, UndoDrains DEF Rollback, DeadlockVictim
<1>6. ASSUME NEW a \in Alert, Ageing(a) PROVE Drained'
  <2>1. Placed'
    BY <1>6 DEF Ageing, work, Drained, Placed
  <2> QED BY <1>6, <2>1, QuietDrains DEF Ageing, work
<1>7. CASE UNCHANGED vars
  <2>1. Placed'
    BY <1>7 DEF vars, work, Drained, Placed
  <2> QED BY <1>7, <2>1, QuietDrains DEF vars, database, work
<1> QED
  BY <1>1, <1>2, <1>3, <1>4, <1>5, <1>6, <1>7, SyncRaiseDrains, BatchRaiseDrains, ClaimDrains,
     SendDrains, CommitDrains
     DEF Next, Going

(* A notification is sent once unless the job that sent it is undone, and  *)
(* what is filed as sent was sent: for any jobs at once and any faults.    *)
THEOREM DrainsSendOnce == Spec => [](TypeOK /\ ToldOnce /\ SentWasTold)
<1>1. TypeOK /\ Drained => ToldOnce /\ SentWasTold
  <2> SUFFICES ASSUME TypeOK, Drained PROVE ToldOnce /\ SentWasTold
    OBVIOUS
  <2>1. \A a \in Alert : told[a] \in Nat
    BY DEF TypeOK
  <2>2. \A a \in Alert : <<"undone", a>> \notin odd /\ told[a] # 0 => told[a] = 1
    BY DEF Drained, ToldIsFiled
  <2>3. SentWasTold
    BY DEF Drained
  <2> QED BY <2>1, <2>2, <2>3 DEF ToldOnce
<1> QED BY <1>1, InitTyped, InitDrained, StepTyped, StepDrains, PTL DEF Spec

(* What people are told of is in the database, or of an alert a sweep has  *)
(* still to commit, or of one that was undone with its sweep; a sync and   *)
(* the scheduler's job never tell of anything else, whatever fails.        *)
THEOREM ToldIsCommitted == Spec => []ToldAlertExists
<1>1. Init => ToldAlertExists
  BY DEF Init, ToldAlertExists
<1>2. TypeOK /\ Drained /\ ToldAlertExists /\ [Next]_vars => ToldAlertExists'
  <2> SUFFICES ASSUME TypeOK, Drained, ToldAlertExists, [Next]_vars PROVE ToldAlertExists'
    OBVIOUS
  <2>0. Batch \subseteq Job /\ \A k \in Job : raised[k] \subseteq Alert
    BY DEF Job, TypeOK
  <2>1. ASSUME NEW j \in Job, NEW a \in claimed[j], Send(j, a) PROVE ToldAlertExists'
    <3>1. a \in Alert /\ Holds(j, a)
      BY DEF TypeOK, Holds
    <3>2. state[a] # "none" \/ (j \in Batch /\ a \in raised[j])
      BY <3>1 DEF Drained, HeldIsPending, RowsTogether
    <3>3. /\ UNCHANGED <<state, raised, odd>>
          /\ \A b \in Alert : b # a => told'[b] = told[b]
      BY <2>1, <3>1 DEF Send, database, TypeOK
    <3> QED BY <3>2, <3>3 DEF ToldAlertExists
  <2>2. ASSUME NEW j \in Job, Commit(j) PROVE ToldAlertExists'
    <3>1. /\ Clear(j) /\ UNCHANGED <<told, odd>>
          /\ state' = [a \in Alert |-> IF j \in Batch /\ a \in raised[j] THEN "open" ELSE state[a]]
      BY <2>2 DEF Commit
    <3> SUFFICES ASSUME NEW a \in Alert, told[a] > 0, state'[a] = "none",
                        <<"unraised", a>> \notin odd
                 PROVE  \E k \in Batch : a \in raised'[k]
      BY <3>1 DEF ToldAlertExists
    <3>2. state[a] = "none" /\ ~(j \in Batch /\ a \in raised[j])
      BY <3>1
    <3>3. PICK k \in Batch : a \in raised[k]
      BY <3>2 DEF ToldAlertExists
    <3>4. k # j /\ k \in Job
      BY <2>0, <3>2, <3>3
    <3> QED BY <3>1, <3>3, <3>4, ClearReleases
  <2>3. ASSUME NEW j \in Job, Undo(j) PROVE ToldAlertExists'
    <3>1. /\ Clear(j) /\ UNCHANGED <<told, state>> /\ odd \subseteq odd'
          /\ j \in Batch => {"unraised"} \X raised[j] \subseteq odd'
      BY <2>3 DEF Undo, database
    <3> SUFFICES ASSUME NEW a \in Alert, told[a] > 0, state[a] = "none",
                        <<"unraised", a>> \notin odd'
                 PROVE  \E k \in Batch : a \in raised'[k]
      BY <3>1 DEF ToldAlertExists
    <3>2. PICK k \in Batch : a \in raised[k]
      BY <3>1 DEF ToldAlertExists
    <3>3. k # j /\ k \in Job
      BY <2>0, <3>1, <3>2
    <3> QED BY <3>1, <3>2, <3>3, ClearReleases
  <2>4. ASSUME NEW j \in Job, NEW a \in Alert, SyncRaise(j, a) PROVE ToldAlertExists'
    <3>1. /\ j \notin Batch /\ UNCHANGED <<told, odd>>
          /\ state' = [state EXCEPT ![a] = "open"] /\ raised' = [raised EXCEPT ![j] = {a}]
      BY <2>4, NotifyAssumption DEF SyncRaise
    <3>2. \A k \in Batch : raised'[k] = raised[k]
      BY <2>0, <3>1 DEF TypeOK
    <3>3. \A b \in Alert : state'[b] = "none" => state[b] = "none"
      BY <3>1 DEF TypeOK
    <3> QED BY <3>1, <3>2, <3>3 DEF ToldAlertExists
  <2>5. ASSUME NEW j \in Job, NEW a \in Alert, BatchRaise(j, a) PROVE ToldAlertExists'
    <3>1. UNCHANGED <<told, odd, state>> /\ \A k \in Batch : raised[k] \subseteq raised'[k]
      BY <2>0, <2>5 DEF BatchRaise, database, TypeOK
    <3> QED BY <3>1 DEF ToldAlertExists
  <2>6. ASSUME NEW a \in Alert, Answer(a) PROVE ToldAlertExists'
    BY <2>6 DEF Answer, work, ToldAlertExists, TypeOK
  <2>7. ASSUME UNCHANGED <<state, told, raised>>, odd \subseteq odd' PROVE ToldAlertExists'
    BY <2>7 DEF ToldAlertExists
  <2>8. CASE UNCHANGED vars
    BY <2>7, <2>8 DEF vars, database, work
  <2>9. ASSUME NEW j \in Job, Begin(j) \/ EndCycle(j) \/ Claim(j) PROVE ToldAlertExists'
    BY <2>7, <2>9 DEF Begin, EndCycle, Claim, database
  <2>10. ASSUME NEW j \in Job, NEW s \in steps[j], Escalate(j, s) PROVE ToldAlertExists'
    BY <2>7, <2>10 DEF Escalate, database
  <2>11. ASSUME NEW a \in Alert, Ageing(a) PROVE ToldAlertExists'
    BY <2>7, <2>11 DEF Ageing, work
  <2> QED
    BY <2>1, <2>2, <2>3, <2>4, <2>5, <2>6, <2>8, <2>9, <2>10, <2>11
       DEF Next, Going, Rollback, DeadlockVictim
<1> QED BY <1>1, <1>2, InitTyped, InitDrained, StepTyped, StepDrains, PTL DEF Spec

-----------------------------------------------------------------------------
(* Escalations.                                                            *)

LEMMA InitClimbs == Init => Climbs
  BY DEF Init, Climbs, OneHand, Ahead, NoticedIsMade, Hand

(* A step that touches no escalation keeps the invariant.                  *)
LEMMA QuietClimbs ==
    ASSUME Climbs, UNCHANGED <<steps, marked, reached, noticed, odd>> PROVE Climbs'
  BY DEF Climbs, OneHand, Ahead, NoticedIsMade, Hand, Orderly

(* What is due is the one stage to make next, ahead of what was reached.   *)
LEMMA DueIsAhead ==
    ASSUME TypeOK, NEW a \in Alert, NEW s \in Due(a)
    PROVE  /\ s.alert = a /\ s.to > reached[a]
           /\ \A t \in Due(a) : t = s
<1>1. reached[a] \in 0..2
  BY DEF TypeOK
<1> QED BY <1>1 DEF Due

LEMMA BeginClimbs == ASSUME TypeOK, Drained, Climbs, NEW j \in Job, Begin(j) PROVE Climbs'
<1> DEFINE due == UNION {Due(a) : a \in Alert}
<1>1. /\ steps' = [steps EXCEPT ![j] = due]
      /\ odd' = odd \cup ({"beside"} \X (About(due) \cap UNION {About(Hand(k)) : k \in Job}))
      /\ UNCHANGED <<marked, reached, noticed>> /\ pc[j] = "idle"
  BY DEF Begin, database
<1>2. /\ \A s \in due : s.alert \in Alert /\ s.to > reached[s.alert]
      /\ \A s, t \in due : s.alert = t.alert => s = t
  BY DueIsAhead
<1> HIDE DEF due
<1>3. steps[j] = {} /\ marked[j] = {}
  BY <1>1 DEF Drained, Placed
<1>4. Hand(j)' = due /\ \A k \in Job : k # j => Hand(k)' = Hand(k)
  BY <1>1, <1>3 DEF Hand, TypeOK
<1>5. odd \subseteq odd' /\ \A a \in Alert : Orderly(a)' => Orderly(a)
  BY <1>1 DEF Orderly
<1>6. ASSUME NEW s \in due, NEW k \in Job, NEW t \in Hand(k), s.alert = t.alert
      PROVE  ~Orderly(s.alert)'
  <2>1. s.alert \in About(due) /\ s.alert \in About(Hand(k))
    BY <1>6 DEF About
  <2> QED BY <1>1, <2>1 DEF Orderly
<1>7. OneHand'
  <2> SUFFICES ASSUME NEW k \in Job, NEW m \in Job, NEW s \in Hand(k)', NEW t \in Hand(m)',
                      s.alert = t.alert, Orderly(s.alert)'
               PROVE  k = m /\ s = t
    BY DEF OneHand
  <2>1. CASE k = j /\ m = j
    BY <1>2, <1>4, <2>1
  <2>2. CASE k = j /\ m # j
    BY <1>4, <1>6, <2>2
  <2>3. CASE k # j /\ m = j
    BY <1>4, <1>6, <2>3
  <2>4. CASE k # j /\ m # j
    <3>1. s \in Hand(k) /\ t \in Hand(m)
      BY <1>4, <2>4
    <3>2. s.alert \in Alert
      BY <3>1 DEF Hand, TypeOK, Step
    <3> QED BY <1>5, <3>1, <3>2 DEF Climbs, OneHand
  <2> QED BY <2>1, <2>2, <2>3, <2>4
<1>8. Ahead'
  <2> SUFFICES ASSUME NEW k \in Job, NEW s \in Hand(k)', Orderly(s.alert)'
               PROVE  s.to > reached[s.alert]
    BY <1>1 DEF Ahead
  <2>1. CASE k = j
    BY <1>2, <1>4, <2>1
  <2>2. CASE k # j
    <3>1. s \in Hand(k) /\ s.alert \in Alert
      BY <1>4, <2>2 DEF Hand, TypeOK, Step
    <3> QED BY <1>5, <3>1 DEF Climbs, Ahead
  <2> QED BY <2>1, <2>2
<1>9. NoticedIsMade'
  BY <1>1, <1>5 DEF Climbs, NoticedIsMade
<1> QED BY <1>7, <1>8, <1>9 DEF Climbs

LEMMA EscalateClimbs ==
    ASSUME TypeOK, Climbs, NEW j \in Job, NEW s \in steps[j], Escalate(j, s) PROVE Climbs'
<1>1. /\ steps' = [steps EXCEPT ![j] = steps[j] \ {s}]
      /\ marked' = [marked EXCEPT ![j] = marked[j] \cup {s}]
      /\ reached' = reached /\ odd' = odd /\ ~AlertLocked(s.alert)
      /\ \/ noticed' = [noticed EXCEPT ![s.alert][s.to] =
                                           IF noticed[s.alert][s.to] = 0 THEN 1 ELSE 2]
         \/ noticed' = noticed
  BY DEF Escalate, database
<1>2. s.alert \in Alert /\ s.to \in Stage /\ s = [alert |-> s.alert, to |-> s.to]
  BY DEF TypeOK, Step
<1>3. /\ steps'[j] = steps[j] \ {s} /\ marked'[j] = marked[j] \cup {s}
      /\ \A k \in Job : k # j => steps'[k] = steps[k] /\ marked'[k] = marked[k]
  BY <1>1 DEF TypeOK
<1>4. \A k \in Job : \A t \in marked[k] : t.alert # s.alert
  BY <1>1 DEF AlertLocked
<1>5. \A k \in Job : Hand(k)' = Hand(k)
  BY <1>3 DEF Hand
<1>6. OneHand' /\ Ahead'
  BY <1>1, <1>5 DEF Climbs, OneHand, Ahead, Orderly
<1>7. NoticedIsMade'
  <2> SUFFICES ASSUME NEW a \in Alert, Orderly(a), <<"undone", a>> \notin odd,
                      NEW n \in Stage, noticed'[a][n] # 0
               PROVE  /\ noticed'[a][n] = 1
                      /\ \/ reached[a] >= n
                         \/ \E k \in Job : [alert |-> a, to |-> n] \in marked'[k]
    BY <1>1 DEF NoticedIsMade, Orderly
  <2>1. noticed[a][n] # 0 => /\ noticed[a][n] = 1
                             /\ \/ reached[a] >= n
                                \/ \E k \in Job : [alert |-> a, to |-> n] \in marked[k]
    BY DEF Climbs, NoticedIsMade
  <2>2. CASE a = s.alert /\ n = s.to
    <3>1. reached[a] \in 0..2 /\ s.to > reached[a]
      BY <2>2 DEF Climbs, Ahead, Hand, TypeOK
    <3>2. ~(reached[a] >= n)
      BY <2>2, <3>1 DEF Stage
    <3>3. \A k \in Job : [alert |-> a, to |-> n] \notin marked[k]
      BY <1>4, <2>2
    <3>4. noticed[a][n] = 0
      BY <2>1, <3>2, <3>3
    <3>5. noticed'[a][n] = 1
      BY <1>1, <2>2, <3>4 DEF TypeOK
    <3> QED BY <1>2, <1>3, <2>2, <3>5
  <2>3. CASE ~(a = s.alert /\ n = s.to)
    <3>1. noticed'[a][n] = noticed[a][n]
      BY <1>1, <2>3 DEF TypeOK
    <3>2. \A k \in Job : marked[k] \subseteq marked'[k]
      BY <1>3
    <3> QED BY <2>1, <3>1, <3>2
  <2> QED BY <2>2, <2>3
<1> QED BY <1>6, <1>7 DEF Climbs

LEMMA UndoClimbs == ASSUME TypeOK, Climbs, NEW j \in Job, Undo(j) PROVE Climbs'
<1>1. /\ Clear(j) /\ UNCHANGED <<reached, noticed>>
      /\ odd \subseteq odd' /\ \A s \in marked[j] : <<"undone", s.alert>> \in odd'
  BY DEF Undo, database, About
<1>2. /\ Hand(j)' = {} /\ marked'[j] = {}
      /\ \A k \in Job : k # j => Hand(k)' = Hand(k) /\ marked'[k] = marked[k]
  BY <1>1, ClearReleases DEF Hand
<1>3. OneHand'
  <2> SUFFICES ASSUME NEW k \in Job, NEW m \in Job, NEW s \in Hand(k)', NEW t \in Hand(m)',
                      s.alert = t.alert, Orderly(s.alert)'
               PROVE  k = m /\ s = t
    BY DEF OneHand
  <2>1. s \in Hand(k) /\ t \in Hand(m) /\ <<"beside", s.alert>> \notin odd
    BY <1>1, <1>2 DEF Orderly
  <2> QED BY <2>1 DEF Climbs, OneHand, Orderly
<1>4. Ahead'
  <2> SUFFICES ASSUME NEW k \in Job, NEW s \in Hand(k)', Orderly(s.alert)'
               PROVE  s.to > reached[s.alert]
    BY <1>1 DEF Ahead
  <2>1. s \in Hand(k) /\ <<"beside", s.alert>> \notin odd
    BY <1>1, <1>2 DEF Orderly
  <2> QED BY <2>1 DEF Climbs, Ahead, Orderly
<1>5. NoticedIsMade'
  <2> SUFFICES ASSUME NEW a \in Alert, Orderly(a)', <<"undone", a>> \notin odd',
                      NEW n \in Stage, noticed[a][n] # 0
               PROVE  /\ noticed[a][n] = 1
                      /\ \/ reached[a] >= n
                         \/ \E k \in Job : [alert |-> a, to |-> n] \in marked'[k]
    BY <1>1 DEF NoticedIsMade
  <2>1. Orderly(a) /\ <<"undone", a>> \notin odd
    BY <1>1 DEF Orderly
  <2>2. /\ noticed[a][n] = 1
        /\ reached[a] >= n \/ \E k \in Job : [alert |-> a, to |-> n] \in marked[k]
    BY <2>1 DEF Climbs, NoticedIsMade
  <2>3. [alert |-> a, to |-> n] \notin marked[j]
    BY <1>1
  <2> QED BY <1>2, <2>2, <2>3
<1> QED BY <1>3, <1>4, <1>5 DEF Climbs

(* A commit takes an alert up, or leaves it where it was.                  *)
LEMMA CommitTakesUp ==
    ASSUME TypeOK, Climbs, NEW j \in Job, NEW a \in Alert, Orderly(a), Commit(j)
    PROVE  /\ reached'[a] >= reached[a]
           /\ \A s \in marked[j] : s.alert = a => reached'[a] = s.to
           /\ (\A s \in marked[j] : s.alert # a) => reached'[a] = reached[a]
<1>1. reached'[a] = Reached(j, a)
  BY DEF Commit
<1>2. reached[a] \in 0..2 /\ marked[j] \subseteq Step
  BY DEF TypeOK
<1>3. CASE \E s \in marked[j] : s.alert = a
  <2>1. PICK s \in marked[j] : s.alert = a /\ Reached(j, a) = s.to
    BY <1>3, ReachedIs
  <2>2. s.to > reached[a] /\ s.to \in 1..2
    BY <1>2, <2>1 DEF Climbs, Ahead, Hand, Step, Stage
  <2>3. \A t \in marked[j] : t.alert = a => t = s
    BY <2>1 DEF Climbs, OneHand, Hand
  <2>4. reached'[a] >= reached[a]
    BY <1>1, <1>2, <2>1, <2>2
  <2> QED BY <1>1, <1>3, <2>1, <2>3, <2>4
<1>4. CASE \A s \in marked[j] : s.alert # a
  BY <1>1, <1>2, <1>4, ReachedIs
<1> QED BY <1>3, <1>4

LEMMA CommitClimbs == ASSUME TypeOK, Climbs, NEW j \in Job, Commit(j) PROVE Climbs'
<1>1. Clear(j) /\ UNCHANGED <<noticed, odd>>
  BY DEF Commit
<1>2. /\ Hand(j)' = {} /\ marked'[j] = {}
      /\ \A k \in Job : k # j => Hand(k)' = Hand(k) /\ marked'[k] = marked[k]
  BY <1>1, ClearReleases DEF Hand
<1>3. OneHand'
  <2> SUFFICES ASSUME NEW k \in Job, NEW m \in Job, NEW s \in Hand(k)', NEW t \in Hand(m)',
                      s.alert = t.alert, Orderly(s.alert)'
               PROVE  k = m /\ s = t
    BY DEF OneHand
  <2>1. s \in Hand(k) /\ t \in Hand(m) /\ <<"beside", s.alert>> \notin odd
    BY <1>1, <1>2 DEF Orderly
  <2> QED BY <2>1 DEF Climbs, OneHand, Orderly
<1>4. Ahead'
  <2> SUFFICES ASSUME NEW k \in Job, NEW s \in Hand(k)', Orderly(s.alert)'
               PROVE  s.to > reached'[s.alert]
    BY DEF Ahead
  <2>1. k # j /\ s \in Hand(k) /\ <<"beside", s.alert>> \notin odd
    BY <1>1, <1>2 DEF Orderly
  <2>2. s.alert \in Alert
    BY <2>1 DEF Hand, TypeOK, Step
  <2>3. \A t \in marked[j] : t.alert # s.alert
    BY <2>1 DEF Climbs, OneHand, Hand, Orderly
  <2>4. reached'[s.alert] = reached[s.alert]
    BY <2>1, <2>2, <2>3, CommitTakesUp DEF Orderly
  <2> QED BY <2>1, <2>4 DEF Climbs, Ahead, Orderly
<1>5. NoticedIsMade'
  <2> SUFFICES ASSUME NEW a \in Alert, Orderly(a), <<"undone", a>> \notin odd,
                      NEW n \in Stage, noticed[a][n] # 0
               PROVE  /\ noticed[a][n] = 1
                      /\ \/ reached'[a] >= n
                         \/ \E k \in Job : [alert |-> a, to |-> n] \in marked'[k]
    BY <1>1 DEF NoticedIsMade, Orderly
  <2>1. /\ noticed[a][n] = 1
        /\ reached[a] >= n \/ \E k \in Job : [alert |-> a, to |-> n] \in marked[k]
    BY DEF Climbs, NoticedIsMade
  <2>2. reached[a] \in 0..2 /\ reached'[a] \in 0..2
    BY CommitTyped DEF TypeOK, Commit
  <2>3. CASE reached[a] >= n
    <3>1. reached'[a] >= reached[a]
      BY CommitTakesUp
    <3> QED BY <2>1, <2>2, <2>3, <3>1 DEF Stage
  <2>4. ASSUME NEW k \in Job, [alert |-> a, to |-> n] \in marked[k]
        PROVE  reached'[a] >= n \/ [alert |-> a, to |-> n] \in marked'[k]
    <3>1. CASE k # j
      BY <1>2, <2>4, <3>1
    <3>2. CASE k = j
      <4>1. reached'[a] = n
        BY <2>4, <3>2, CommitTakesUp
      <4> QED BY <4>1 DEF Stage
    <3> QED BY <3>1, <3>2
  <2> QED BY <2>1, <2>3, <2>4
<1> QED BY <1>3, <1>4, <1>5 DEF Climbs

LEMMA StepClimbs == TypeOK /\ Drained /\ Climbs /\ [Next]_vars => Climbs'
<1> SUFFICES ASSUME TypeOK, Drained, Climbs, [Next]_vars PROVE Climbs'
  OBVIOUS
<1>1. ASSUME UNCHANGED <<steps, marked, reached, noticed, odd>> PROVE Climbs'
  BY <1>1, QuietClimbs
<1>2. ASSUME NEW j \in Job, EndCycle(j) \/ Claim(j) PROVE Climbs'
  BY <1>1, <1>2 DEF EndCycle, Claim, database
<1>3. ASSUME NEW j \in Job, NEW a \in claimed[j], Send(j, a) PROVE Climbs'
  BY <1>1, <1>3 DEF Send, database
<1>4. ASSUME NEW j \in Job, NEW a \in Alert, SyncRaise(j, a) \/ BatchRaise(j, a) PROVE Climbs'
  BY <1>1, <1>4 DEF SyncRaise, BatchRaise, database
<1>5. ASSUME NEW a \in Alert, Answer(a) \/ Ageing(a) PROVE Climbs'
  BY <1>1, <1>5 DEF Answer, Ageing, work
<1>6. CASE UNCHANGED vars
  BY <1>1, <1>6 DEF vars, database, work
<1>7. ASSUME NEW j \in Job, Rollback(j) \/ DeadlockVictim(j) PROVE Climbs'
  BY <1>7, UndoClimbs DEF Rollback, DeadlockVictim
<1> QED
  BY <1>2, <1>3, <1>4, <1>5, <1>6, <1>7, BeginClimbs, EscalateClimbs, CommitClimbs
     DEF Next, Going

(* People are told of alerts that exist, once, each stage of an escalation *)
(* is mailed once, and what is filed as sent was sent: whatever runs side  *)
(* by side, each with the disorder of the alert it names and no other.     *)
THEOREM AlertsAreToldHolds == Spec => []AlertsAreTold
<1>1. TypeOK /\ Climbs => EachStageOnce
  <2> SUFFICES ASSUME TypeOK, Climbs, NEW a \in Alert,
                      odd \cap ({"beside", "undone"} \X {a}) = {}, NEW s \in Stage
               PROVE  noticed[a][s] <= 1
    BY DEF EachStageOnce
  <2>1. noticed[a][s] \in 0..2
    BY DEF TypeOK
  <2>2. Orderly(a) /\ <<"undone", a>> \notin odd
    BY DEF Orderly
  <2>3. noticed[a][s] # 0 => noticed[a][s] = 1
    BY <2>2 DEF Climbs, NoticedIsMade
  <2> QED BY <2>1, <2>3
<1>2. Spec => []EachStageOnce
  BY <1>1, InitTyped, InitDrained, InitClimbs, StepTyped, StepDrains, StepClimbs, PTL DEF Spec
<1> QED BY <1>2, DrainsSendOnce, ToldIsCommitted, PTL DEF AlertsAreTold

(* A stage that was made is not taken back, beside any number of sweeps and*)
(* buttons, of an alert that two of them did not have in hand at once.     *)
THEOREM EscalationClimbs == Spec => EscalationNeverRegresses
<1>1. TypeOK /\ Climbs /\ [Next]_vars =>
        [\A a \in Alert : <<"beside", a>> \notin odd => reached'[a] >= reached[a]]_vars
  <2> SUFFICES ASSUME TypeOK, Climbs, Next, NEW a \in Alert, <<"beside", a>> \notin odd
               PROVE  reached'[a] >= reached[a]
    OBVIOUS
  <2>1. reached[a] \in 0..2 /\ Orderly(a)
    BY DEF TypeOK, Orderly
  <2>2. CASE UNCHANGED reached
    BY <2>1, <2>2
  <2>3. ASSUME NEW j \in Job, Commit(j) PROVE reached'[a] >= reached[a]
    BY <2>1, <2>3, CommitTakesUp
  <2> QED
    BY <2>2, <2>3
       DEF Next, Going, Begin, EndCycle, Claim, Escalate, Send, Rollback, DeadlockVictim, Undo,
           SyncRaise, BatchRaise, Answer, Ageing, database, work
<1>2. Spec => [](TypeOK /\ Climbs)
  BY InitTyped, InitDrained, InitClimbs, StepTyped, StepDrains, StepClimbs, PTL DEF Spec
<1> QED BY <1>1, <1>2, PTL DEF Spec, EscalationNeverRegresses
=============================================================================

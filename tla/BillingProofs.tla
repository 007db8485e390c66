--------------------------- MODULE BillingProofs ---------------------------
(***************************************************************************)
(* Proof that the handlers of api/billing.py keep what PaidAccess promises *)
(* (GivenWasBilled), and that a quiet workspace has what it is billed for, *)
(* for any number of workspaces, subscriptions, seats, changes and faults. *)
(***************************************************************************)
EXTENDS Billing, TLAPS, FiniteSetTheorems, SequenceTheorems

(* The bounds are numbers, and only paid plans are put in a checkout.      *)
Sizes == /\ MaxSubs \in Nat /\ MaxSeats \in Nat /\ MaxTenants \in Nat
         /\ Offer \subseteq PaidPlan \X (0..MaxSeats)

-----------------------------------------------------------------------------
(* The inductive invariant                                                 *)

Tenants == 1..MaxTenants
Seats == 0..MaxSeats

(* Some subscription has ended or gone unpaid.                             *)
Lapsed == "recovered" \in odd \/ \E s \in Sub : subs[s].status \in {"unpaid", "ended"}

Opened(s) == s \in Sub /\ subs[s].status # "none"

Kinds == {"updated", "completed", "ended"}
Events == [kind : Kinds, sub : Sub, plan : PaidPlan, seats : Seats, owner : Nat]
Requests == [pc : {"idle", "resolve", "charge", "store", "cancel", "erase"},
             kind : {"none", "plan", "seats", "delete"}, sub : SubOrNone,
             plan : PaidPlan \cup {"guard"}, seats : Seats]
Hooks == [pc : {"idle", "ask", "write"}, sub : SubOrNone, seen : Row]

(* The shape of the variables TypeOK says little of.                       *)
ShapeOK ==
    /\ mail \in Seq(Events) /\ owner \in Requests /\ hook \in Hooks
    /\ tenant.here => tenant.id \in Tenants

(* Checkouts are opened in the order of their numbers.                     *)
OpenedInOrder == \E k \in 0..MaxSubs : \A s \in Sub : Opened(s) <=> s <= k

(* A subscription belongs to a workspace that existed, and Stripe has      *)
(* billed for whatever it still bills on.                                  *)
SubsAreBilled ==
    \A s \in Sub : Opened(s) =>
        /\ subs[s].owner \in Tenants
        /\ Billable(s) => Items(subs[s].owner, subs[s].plan, subs[s].seats) \subseteq billed

(* An event speaks of the subscription's workspace: of what was billed, or *)
(* of an end.                                                              *)
EventIsTrue(e) ==
    /\ Opened(e.sub) /\ subs[e.sub].owner = e.owner
    /\ IF e.kind = "ended" THEN Lapsed
       ELSE Items(e.owner, e.plan, e.seats) \subseteq billed

MailIsTrue == \A i \in 1..Len(mail) : EventIsTrue(mail[i])

(* The recorded subscription is the workspace's own.                       *)
RecordIsOwn ==
    tenant.sub # NoSub => Opened(tenant.sub) /\ subs[tenant.sub].owner = tenant.id

(* The owner's request keeps its workspace; it changes a subscription of   *)
(* that workspace, and stores what Stripe has charged for.                 *)
RequestIsOwn ==
    /\ owner.pc = "idle" => owner = Idle
    /\ owner.pc # "idle" => tenant.here
    /\ owner.pc \in {"resolve", "charge", "store"} =>
          /\ owner.kind \in {"plan", "seats"} /\ owner.plan \in PaidPlan
          /\ Opened(owner.sub) /\ subs[owner.sub].owner = tenant.id
    /\ owner.pc = "store" =>
          IF owner.kind = "plan" THEN <<tenant.id, "plan", owner.plan>> \in billed
          ELSE <<tenant.id, "seats", owner.seats>> \in billed

(* A downgrade follows an end, and what it has read of the workspace's     *)
(* payment still holds.                                                    *)
HookIsCurrent ==
    /\ hook.pc = "idle" => hook = NoHook
    /\ hook.pc # "idle" =>
          /\ Lapsed /\ hook.seen.id <= tenant.id
          /\ ~Disturbed /\ tenant.here /\ tenant.id = hook.seen.id =>
                tenant.paid = hook.seen.paid /\ tenant.sub = hook.seen.sub

(* What a paid workspace has was billed for.                               *)
PaidIsBilled ==
    /\ ~tenant.here => ~tenant.paid /\ tenant.sub = NoSub
    /\ tenant.paid /\ ~Disturbed =>
          /\ tenant.sub # NoSub /\ tenant.plan \in PaidPlan
          /\ Items(tenant.id, tenant.plan, tenant.seats) \subseteq billed

IInv == /\ TypeOK /\ ShapeOK /\ OpenedInOrder /\ SubsAreBilled /\ MailIsTrue
        /\ RecordIsOwn /\ RequestIsOwn /\ HookIsCurrent /\ PaidIsBilled

-----------------------------------------------------------------------------
(* Lemmas on the model's operators                                         *)

(* Removing one event leaves only events that were there.                  *)
LEMMA RemoveKeeps ==
  ASSUME mail \in Seq(Events), NEW i \in 1..Len(mail)
  PROVE  /\ Remove(i) \in Seq(Events)
         /\ \A j \in 1..Len(Remove(i)) : \E k \in 1..Len(mail) : Remove(i)[j] = mail[k]
<1> DEFINE a == SubSeq(mail, 1, i - 1)
           b == SubSeq(mail, i + 1, Len(mail))
<1>0. \A k \in 1..Len(mail) : mail[k] \in Events
  BY ElementOfSeq
<1>1. a \in Seq(Events) /\ Len(a) = i - 1 /\ \A j \in 1..(i - 1) : a[j] = mail[j]
  <2>1. \A j \in 1..(i - 1) : mail[j] \in Events
    BY <1>0
  <2> QED BY <2>1, SubSeqProperties
<1>2. /\ b \in Seq(Events) /\ Len(b) = Len(mail) - i
      /\ \A j \in 1..(Len(mail) - i) : b[j] = mail[i + j]
  <2>1. \A j \in (i + 1)..Len(mail) : mail[j] \in Events
    BY <1>0
  <2>2. /\ b \in Seq(Events)
        /\ Len(b) = IF i + 1 <= Len(mail) THEN Len(mail) - (i + 1) + 1 ELSE 0
        /\ \A j \in 1..(Len(mail) - (i + 1) + 1) : b[j] = mail[(i + 1) + j - 1]
    BY <2>1, SubSeqProperties
  <2> QED BY <2>2
<1> HIDE DEF a, b
<1>3. /\ a \o b \in Seq(Events) /\ Len(a \o b) = Len(mail) - 1
      /\ \A j \in 1..Len(a) + Len(b) :
            (a \o b)[j] = IF j <= Len(a) THEN a[j] ELSE b[j - Len(a)]
  <2>1. /\ a \o b \in Seq(Events) /\ Len(a \o b) = Len(a) + Len(b)
        /\ \A j \in 1..Len(a) + Len(b) :
              (a \o b)[j] = IF j <= Len(a) THEN a[j] ELSE b[j - Len(a)]
    BY <1>1, <1>2, ConcatProperties, Zenon
  <2>2. (i - 1) + (Len(mail) - i) = Len(mail) - 1
    BY LenProperties
  <2> QED BY <2>1, <2>2, <1>1, <1>2
<1>4. ASSUME NEW j \in 1..Len(a \o b) PROVE \E k \in 1..Len(mail) : (a \o b)[j] = mail[k]
  <2>1. CASE j <= i - 1
    <3>1. (a \o b)[j] = mail[j] /\ j \in 1..Len(mail)
      BY <1>1, <1>2, <1>3, <2>1
    <3> QED BY <3>1
  <2>2. CASE j > i - 1
    <3>1. (a \o b)[j] = b[j - (i - 1)] /\ j - (i - 1) \in 1..(Len(mail) - i)
      BY <1>1, <1>2, <1>3, <2>2
    <3>2. (a \o b)[j] = mail[j + 1] /\ j + 1 \in 1..Len(mail)
      BY <1>2, <3>1, <1>3
    <3> QED BY <3>2
  <2> QED BY <2>1, <2>2
<1> QED
  BY <1>3, <1>4 DEF Remove, a, b

(* Every event of mail' was on its way before, or is a new one.            *)
MailFrom(new) ==
    /\ mail' \in Seq(Events)
    /\ \A j \in 1..Len(mail') : \/ \E k \in 1..Len(mail) : mail'[j] = mail[k]
                                \/ mail'[j] \in new

(* Handling an event, in turn or not, brings no other.                     *)
LEMMA DeliveredKeeps ==
  ASSUME mail \in Seq(Events), NEW i, Delivered(i)
  PROVE  /\ MailFrom({}) /\ i \in 1..Len(mail)
         /\ odd \subseteq odd' /\ odd' \subseteq odd \cup {"overtaken", "retried"}
         /\ hook.pc # "idle" => "overtaken" \in odd'
<1>1. i \in 1..Len(mail)
  BY DEF Delivered
<1>2. ASSUME mail' = Remove(i) PROVE MailFrom({})
  BY <1>1, <1>2, RemoveKeeps DEF MailFrom
<1>3. ASSUME mail' = Append(Remove(i), mail[i]) PROVE MailFrom({})
  <2>1. mail[i] \in Events /\ Remove(i) \in Seq(Events)
    BY <1>1, RemoveKeeps, ElementOfSeq
  <2>2. /\ mail' \in Seq(Events) /\ Len(mail') = Len(Remove(i)) + 1
        /\ mail'[Len(Remove(i)) + 1] = mail[i]
        /\ \A j \in 1..Len(Remove(i)) : mail'[j] = Remove(i)[j]
    BY <1>3, <2>1, AppendProperties
  <2>3. ASSUME NEW j \in 1..Len(mail') PROVE \E k \in 1..Len(mail) : mail'[j] = mail[k]
    <3>1. CASE j = Len(Remove(i)) + 1
      BY <1>1, <2>2, <3>1
    <3>2. CASE j # Len(Remove(i)) + 1
      <4>1. j \in 1..Len(Remove(i)) /\ mail'[j] = Remove(i)[j]
        BY <2>1, <2>2, <3>2
      <4> QED BY <4>1, <1>1, RemoveKeeps
    <3> QED BY <3>1, <3>2
  <2> QED BY <2>2, <2>3 DEF MailFrom
<1>4. mail' = Remove(i) \/ mail' = Append(Remove(i), mail[i])
  BY DEF Delivered
<1>5. /\ odd \subseteq odd' /\ odd' \subseteq odd \cup {"overtaken", "retried"}
      /\ hook.pc # "idle" => "overtaken" \in odd'
  BY DEF Delivered
<1> QED
  BY <1>1, <1>2, <1>3, <1>4, <1>5

(* The events sent of subscription s as a step leaves it.                  *)
News(K, s) ==
    {[kind |-> k, sub |-> s, plan |-> subs'[s].plan, seats |-> subs'[s].seats,
      owner |-> subs'[s].owner] : k \in K}

LEMMA SaysKeeps ==
  ASSUME mail \in Seq(Events), NEW s \in Sub, NEW K \in SUBSET Kinds,
         NEW kinds \in Seq(K), Says(kinds, s),
         subs'[s].plan \in PaidPlan, subs'[s].seats \in Seats, subs'[s].owner \in Nat
  PROVE  MailFrom(News(K, s))
<1> DEFINE e(k) == [kind |-> k, sub |-> s, plan |-> subs'[s].plan,
                    seats |-> subs'[s].seats, owner |-> subs'[s].owner]
           b == [i \in 1..Len(kinds) |-> e(kinds[i])]
<1>1. Len(kinds) \in Nat /\ \A i \in 1..Len(kinds) : kinds[i] \in K
  BY ElementOfSeq, LenProperties
<1>2. \A k \in K : e(k) \in Events /\ e(k) \in News(K, s)
  BY DEF Kinds, Events, News
<1>3. b \in Seq(Events) /\ Len(b) = Len(kinds) /\ \A i \in 1..Len(b) : b[i] \in News(K, s)
  <2>1. b \in [1..Len(kinds) -> Events]
    BY <1>1, <1>2
  <2>2. b \in Seq(Events) /\ Len(b) = Len(kinds)
    BY <1>1, <2>1
  <2> QED BY <2>2, <1>1, <1>2
<1>4. mail' = mail \o b
  BY DEF Says
<1> HIDE DEF b
<1>5. /\ mail' \in Seq(Events) /\ Len(mail') = Len(mail) + Len(b)
      /\ \A j \in 1..Len(mail) + Len(b) :
            mail'[j] = IF j <= Len(mail) THEN mail[j] ELSE b[j - Len(mail)]
  BY <1>3, <1>4, ConcatProperties, Zenon
<1>6. ASSUME NEW j \in 1..Len(mail')
      PROVE  (\E k \in 1..Len(mail) : mail'[j] = mail[k]) \/ mail'[j] \in News(K, s)
  <2>1. Len(mail) \in Nat /\ Len(b) \in Nat
    BY <1>3, LenProperties
  <2>2. CASE j <= Len(mail)
    BY <2>1, <2>2, <1>5
  <2>3. CASE j > Len(mail)
    <3>1. mail'[j] = b[j - Len(mail)] /\ j - Len(mail) \in 1..Len(b)
      BY <2>1, <2>3, <1>5
    <3> QED BY <3>1, <1>3
  <2> QED BY <2>1, <2>2, <2>3
<1> QED
  BY <1>5, <1>6 DEF MailFrom

(* One event, or the two of a payment.                                     *)
LEMMA KindSequences ==
  /\ <<"updated">> \in Seq({"updated"}) /\ <<"ended">> \in Seq({"ended"})
  /\ <<"updated", "completed">> \in Seq({"updated", "completed"})
OBVIOUS

(* What Stripe has been told and has taken is never untold.                *)
Forward ==
    /\ billed \subseteq billed' /\ odd \subseteq odd'
    /\ Lapsed => Lapsed'
    /\ \A s \in Sub : Opened(s) => Opened(s)' /\ subs'[s].owner = subs[s].owner

LEMMA MailKept ==
  ASSUME MailIsTrue, Forward, mail \in Seq(Events), NEW new, MailFrom(new),
         \A e \in new : EventIsTrue(e)'
  PROVE  MailIsTrue'
<1>1. ASSUME NEW e, EventIsTrue(e) PROVE EventIsTrue(e)'
  <2>1. Opened(e.sub) /\ e.sub \in Sub /\ subs[e.sub].owner = e.owner
    BY <1>1 DEF EventIsTrue, Opened
  <2>2. Opened(e.sub)' /\ subs'[e.sub].owner = e.owner
    BY <2>1 DEF Forward
  <2>3. IF e.kind = "ended" THEN Lapsed'
        ELSE Items(e.owner, e.plan, e.seats) \subseteq billed'
    BY <1>1 DEF EventIsTrue, Forward
  <2> QED BY <2>2, <2>3 DEF EventIsTrue, Items
<1>2. ASSUME NEW j \in 1..Len(mail'), NEW e, e = mail'[j] PROVE EventIsTrue(e)'
  <2>1. CASE e \in new
    BY <2>1
  <2>2. CASE \E k \in 1..Len(mail) : mail'[j] = mail[k]
    <3>1. PICK k \in 1..Len(mail) : e = mail[k]
      BY <1>2, <2>2
    <3>2. EventIsTrue(e)
      BY <3>1 DEF MailIsTrue
    <3> QED BY <3>2, <1>1
  <2> QED BY <1>2, <2>1, <2>2 DEF MailFrom
<1> QED
  BY <1>2 DEF MailIsTrue, EventIsTrue

-----------------------------------------------------------------------------
(* The initial state                                                       *)

LEMMA InitIInv == Sizes /\ Init => IInv
<1> SUFFICES ASSUME Sizes, Init PROVE IInv
  OBVIOUS
<1>1. NoSub \notin Sub /\ NoSub \in SubOrNone /\ 0 \in Seats /\ 0 \in 0..MaxTenants
  BY DEF Sizes, Sub, NoSub, SubOrNone, Seats
<1>2. NoTenant \in Row
  BY <1>1 DEF NoTenant, Row, PaidPlan, Seats
<1>3. TypeOK
  BY <1>1, <1>2 DEF Init, TypeOK, Unopened, NoHook, Idle, PaidPlan, Seats
<1>4. mail \in Seq(Events) /\ Len(mail) = 0
  BY EmptySeq DEF Init
<1>5. ShapeOK
  BY <1>1, <1>2, <1>4 DEF Init, ShapeOK, Requests, Hooks, NoTenant, Idle, NoHook, PaidPlan
<1>6. OpenedInOrder
  <2>1. \A s \in Sub : ~Opened(s) /\ ~(s <= 0)
    BY DEF Init, Opened, Unopened, Sub, Sizes
  <2>2. 0 \in 0..MaxSubs
    BY DEF Sizes
  <2> QED BY <2>1, <2>2 DEF OpenedInOrder
<1>7. SubsAreBilled
  BY DEF Init, SubsAreBilled, Opened, Unopened
<1>8. MailIsTrue
  BY <1>4 DEF MailIsTrue
<1>9. RecordIsOwn /\ RequestIsOwn /\ HookIsCurrent /\ PaidIsBilled
  BY DEF Init, RecordIsOwn, RequestIsOwn, HookIsCurrent, PaidIsBilled, NoTenant, Idle, NoHook
<1> QED
  BY <1>3, <1>5, <1>6, <1>7, <1>8, <1>9 DEF IInv

-----------------------------------------------------------------------------
(* What happens at Stripe                                                  *)

(* Stripe's record of an opened subscription changes; its workspace stays. *)
Restated(s, st, p, n) ==
    /\ Opened(s) /\ st \in {"active", "unpaid", "ended"} /\ p \in PaidPlan /\ n \in Seats
    /\ subs' = [subs EXCEPT ![s] = [status |-> st, plan |-> p, seats |-> n,
                                    owner |-> subs[s].owner]]
    /\ billed \subseteq billed'
    /\ st # "ended" => Items(subs[s].owner, p, n) \subseteq billed'
    /\ odd \subseteq odd'
    /\ subs[s].status = "unpaid" /\ st = "active" => "recovered" \in odd'
    /\ subs[s].status = "ended" => st = "ended"
    /\ UNCHANGED <<tenant, hook>>

LEMMA StripeSide ==
  ASSUME IInv, NEW s, NEW st, NEW p, NEW n, Restated(s, st, p, n)
  PROVE  /\ Forward /\ OpenedInOrder' /\ SubsAreBilled' /\ RecordIsOwn'
         /\ HookIsCurrent' /\ PaidIsBilled'
         /\ subs' \in [Sub -> [status : {"none", "open", "active", "unpaid", "ended"},
                              plan : PaidPlan, seats : Seats, owner : 0..MaxTenants]]
         /\ subs'[s] = [status |-> st, plan |-> p, seats |-> n, owner |-> subs[s].owner]
         /\ st # "active" => Lapsed'
<1> USE DEF Restated
<1>1. /\ s \in Sub /\ subs[s].status # "none"
      /\ subs \in [Sub -> [status : {"none", "open", "active", "unpaid", "ended"},
                          plan : PaidPlan, seats : Seats, owner : 0..MaxTenants]]
  BY DEF IInv, TypeOK, Opened, Seats
<1>2. subs'[s] = [status |-> st, plan |-> p, seats |-> n, owner |-> subs[s].owner]
  BY <1>1
<1>3. \A r \in Sub : r # s => subs'[r] = subs[r]
  BY <1>1
<1>4. /\ subs[s].owner \in 0..MaxTenants
      /\ subs' \in [Sub -> [status : {"none", "open", "active", "unpaid", "ended"},
                           plan : PaidPlan, seats : Seats, owner : 0..MaxTenants]]
  BY <1>1
<1>5. /\ \A r \in Sub : Opened(r)' <=> Opened(r)
      /\ \A r \in Sub : subs'[r].owner = subs[r].owner
  BY <1>1, <1>2, <1>3 DEF Opened
<1>6. Lapsed => Lapsed'
  <2>1. CASE "recovered" \in odd
    BY <2>1 DEF Lapsed
  <2>2. ASSUME NEW r \in Sub, subs[r].status \in {"unpaid", "ended"} PROVE Lapsed'
    <3>1. CASE r # s
      BY <2>2, <3>1, <1>3 DEF Lapsed
    <3>2. CASE r = s
      BY <2>2, <3>2, <1>1, <1>2 DEF Lapsed
    <3> QED BY <3>1, <3>2
  <2> QED BY <2>1, <2>2 DEF Lapsed
<1>7. st # "active" => Lapsed'
  BY <1>1, <1>2 DEF Lapsed
<1>8. Forward
  BY <1>5, <1>6 DEF Forward
<1>9. OpenedInOrder'
  BY <1>5 DEF IInv, OpenedInOrder
<1>10. SubsAreBilled'
  <2>1. ASSUME NEW r \in Sub, Opened(r)'
        PROVE  /\ subs'[r].owner \in Tenants
               /\ Billable(r)' => Items(subs'[r].owner, subs'[r].plan, subs'[r].seats)
                                     \subseteq billed'
    <3>1. /\ Opened(r) /\ subs[r].owner \in Tenants
          /\ Billable(r) => Items(subs[r].owner, subs[r].plan, subs[r].seats) \subseteq billed
      BY <1>5, <2>1 DEF IInv, SubsAreBilled
    <3>2. CASE r = s
      BY <3>1, <3>2, <1>2 DEF Billable
    <3>3. CASE r # s
      BY <3>1, <3>3, <1>3 DEF Billable
    <3> QED BY <3>2, <3>3
  <2> QED BY <2>1 DEF SubsAreBilled, Items
<1>11. RecordIsOwn'
  BY <1>5 DEF IInv, RecordIsOwn, Opened
<1>12. HookIsCurrent'
  BY <1>6 DEF IInv, HookIsCurrent, Disturbed
<1>13. PaidIsBilled'
  BY DEF IInv, PaidIsBilled, Disturbed, Items
<1> QED
  BY <1>2, <1>4, <1>7, <1>8, <1>9, <1>10, <1>11, <1>12, <1>13

LEMMA NewsIsTrue ==
  ASSUME NEW s \in Sub, NEW K \in SUBSET Kinds, Opened(s)',
         "ended" \in K => Lapsed',
         K # {"ended"} => Items(subs'[s].owner, subs'[s].plan, subs'[s].seats) \subseteq billed'
  PROVE  \A e \in News(K, s) : EventIsTrue(e)'
<1>1. ASSUME NEW k \in K,
             NEW e, e = [kind |-> k, sub |-> s, plan |-> subs'[s].plan,
                         seats |-> subs'[s].seats, owner |-> subs'[s].owner]
      PROVE  EventIsTrue(e)'
  BY <1>1 DEF EventIsTrue, Items
<1> QED
  BY <1>1 DEF News

(* The events that tell of a subscription's new status.                    *)
Told(kinds, st) ==
    \/ kinds \in {<<"updated">>, <<"updated", "completed">>} /\ st # "ended"
    \/ kinds = <<"ended">> /\ st # "active"

(* A change at Stripe, and the events about it.                            *)
LEMMA StripeStep ==
  ASSUME IInv, NEW s, NEW st, NEW p, NEW n, Restated(s, st, p, n),
         NEW kinds, Told(kinds, st), Says(kinds, s),
         UNCHANGED <<ledger, trials>>, owner' \in Requests, RequestIsOwn'
  PROVE  IInv'
<1>0. PICK K \in SUBSET Kinds : /\ kinds \in Seq(K)
                                /\ "ended" \in K => st # "active"
                                /\ K # {"ended"} => st # "ended"
  <2>1. CASE kinds = <<"updated">> /\ st # "ended"
    BY <2>1, KindSequences DEF Kinds
  <2>2. CASE kinds = <<"updated", "completed">> /\ st # "ended"
    BY <2>2, KindSequences DEF Kinds
  <2>3. CASE kinds = <<"ended">> /\ st # "active"
    BY <2>3, KindSequences DEF Kinds
  <2> QED BY <2>1, <2>2, <2>3 DEF Told
<1>1. /\ Forward /\ OpenedInOrder' /\ SubsAreBilled' /\ RecordIsOwn'
      /\ HookIsCurrent' /\ PaidIsBilled'
      /\ subs' \in [Sub -> [status : {"none", "open", "active", "unpaid", "ended"},
                           plan : PaidPlan, seats : Seats, owner : 0..MaxTenants]]
      /\ subs'[s] = [status |-> st, plan |-> p, seats |-> n, owner |-> subs[s].owner]
      /\ st # "active" => Lapsed'
  BY StripeSide
<1>2. s \in Sub /\ st \in {"active", "unpaid", "ended"}
      /\ p \in PaidPlan /\ n \in Seats
      /\ (st # "ended" => Items(subs[s].owner, p, n) \subseteq billed')
      /\ UNCHANGED <<tenant, hook>>
  BY DEF Restated, Opened
<1>3. subs'[s].owner \in 0..MaxTenants /\ subs'[s].owner \in Nat
  <2>1. subs'[s].owner \in 0..MaxTenants
    BY <1>1, <1>2
  <2> QED BY <2>1
<1>4. mail \in Seq(Events) /\ MailIsTrue
  BY DEF IInv, ShapeOK
<1>5. MailFrom(News(K, s))
  BY <1>0, <1>1, <1>2, <1>3, <1>4, SaysKeeps
<1>6. Opened(s)'
  BY <1>1, <1>2 DEF Opened
<1>7. \A e \in News(K, s) : EventIsTrue(e)'
  <2>1. "ended" \in K => Lapsed'
    BY <1>0, <1>1
  <2>2. K # {"ended"} => Items(subs'[s].owner, subs'[s].plan, subs'[s].seats) \subseteq billed'
    BY <1>0, <1>1, <1>2
  <2> QED BY <1>2, <1>6, <2>1, <2>2, NewsIsTrue
<1>8. MailIsTrue'
  BY <1>1, <1>4, <1>5, <1>7, MailKept
<1>9. TypeOK'
  BY <1>1, <1>2 DEF IInv, TypeOK, Seats, Requests
<1>10. ShapeOK'
  BY <1>2, <1>5 DEF IInv, ShapeOK, MailFrom
<1> QED
  BY <1>1, <1>8, <1>9, <1>10 DEF IInv

(* A request in progress is not affected by what happens at Stripe.        *)
LEMMA RequestKept ==
  ASSUME IInv, Forward, UNCHANGED <<owner, tenant>>
  PROVE  owner' \in Requests /\ RequestIsOwn'
<1>1. owner' \in Requests
  BY DEF IInv, ShapeOK
<1>2. Opened(owner.sub) => Opened(owner.sub)' /\ subs'[owner.sub].owner = subs[owner.sub].owner
  BY DEF Forward, Opened
<1>3. billed \subseteq billed'
  BY DEF Forward
<1> QED
  BY <1>1, <1>2, <1>3 DEF IInv, RequestIsOwn, Opened

(* Stripe's own step, while the owner's request waits.                     *)
LEMMA StripeAlone ==
  ASSUME IInv, NEW s, NEW st, NEW p, NEW n, Restated(s, st, p, n),
         NEW kinds, Told(kinds, st), Says(kinds, s),
         UNCHANGED <<ledger, trials, owner>>
  PROVE  IInv'
<1>1. Forward /\ UNCHANGED <<owner, tenant>>
  BY StripeSide DEF Restated
<1>2. owner' \in Requests /\ RequestIsOwn'
  BY <1>1, RequestKept
<1> QED
  BY <1>2, StripeStep

(* A subscription as Stripe has it.                                        *)
LEMMA SubShape ==
  ASSUME IInv, NEW s \in Sub
  PROVE  /\ subs[s].plan \in PaidPlan /\ subs[s].seats \in Seats
         /\ s \in DOMAIN subs
         /\ \A p \in PaidPlan, n \in Seats :
               [subs EXCEPT ![s].plan = p, ![s].seats = n] =
                 [subs EXCEPT ![s] = [status |-> subs[s].status, plan |-> p,
                                      seats |-> n, owner |-> subs[s].owner]]
         /\ \A st \in {"active", "unpaid", "ended"} :
               [subs EXCEPT ![s].status = st] =
                 [subs EXCEPT ![s] = [status |-> st, plan |-> subs[s].plan,
                                      seats |-> subs[s].seats, owner |-> subs[s].owner]]
<1> DEFINE Stored == [status : {"none", "open", "active", "unpaid", "ended"},
                      plan : PaidPlan, seats : Seats, owner : 0..MaxTenants]
<1>1. subs \in [Sub -> Stored]
  BY DEF IInv, TypeOK, Seats
<1>2. subs[s] \in Stored
  BY <1>1
<1>3. ASSUME NEW p \in PaidPlan, NEW n \in Seats
      PROVE  [subs EXCEPT ![s].plan = p, ![s].seats = n] =
             [subs EXCEPT ![s] = [status |-> subs[s].status, plan |-> p,
                                  seats |-> n, owner |-> subs[s].owner]]
  <2>1. [subs[s] EXCEPT !.plan = p] =
           [status |-> subs[s].status, plan |-> p, seats |-> subs[s].seats,
            owner |-> subs[s].owner]
    BY <1>2
  <2> DEFINE f == [subs EXCEPT ![s].plan = p, ![s].seats = n]
             g == [subs EXCEPT ![s] = [status |-> subs[s].status, plan |-> p,
                                       seats |-> n, owner |-> subs[s].owner]]
  <2>2. f = [r \in Sub |-> f[r]] /\ g = [r \in Sub |-> g[r]]
    BY <1>1
  <2>3. ASSUME NEW r \in Sub PROVE f[r] = g[r]
    <3>1. CASE r = s
      <4>1. f[s] = [[subs[s] EXCEPT !.plan = p] EXCEPT !.seats = n]
        BY <1>1
      <4>2. f[s] = [status |-> subs[s].status, plan |-> p, seats |-> n,
                    owner |-> subs[s].owner]
        BY <2>1, <4>1
      <4> QED BY <1>1, <4>2, <3>1
    <3>2. CASE r # s
      BY <1>1, <3>2
    <3> QED BY <3>1, <3>2
  <2> HIDE DEF f, g
  <2>4. f = g
    BY <2>2, <2>3
  <2> QED BY <2>4 DEF f, g
<1>4. ASSUME NEW st \in {"active", "unpaid", "ended"}
      PROVE  [subs EXCEPT ![s].status = st] =
             [subs EXCEPT ![s] = [status |-> st, plan |-> subs[s].plan,
                                  seats |-> subs[s].seats, owner |-> subs[s].owner]]
  <2>1. [subs[s] EXCEPT !.status = st] =
           [status |-> st, plan |-> subs[s].plan, seats |-> subs[s].seats,
            owner |-> subs[s].owner]
    BY <1>2
  <2> QED BY <1>1, <2>1
<1> QED
  BY <1>1, <1>2, <1>3, <1>4

LEMMA PayStep ==
  ASSUME IInv, NEW s \in Sub, Pay(s) PROVE IInv'
<1>1. subs[s].status = "open" /\ subs[s].plan \in PaidPlan /\ subs[s].seats \in Seats
  BY SubShape DEF Pay
<1>2. subs' = [subs EXCEPT ![s] = [status |-> "active", plan |-> subs[s].plan,
                                   seats |-> subs[s].seats, owner |-> subs[s].owner]]
  BY SubShape DEF Pay
<1>3. s \in DOMAIN subs
  BY DEF IInv, TypeOK
<1>4. billed' = billed \cup Items(subs[s].owner, subs[s].plan, subs[s].seats)
  BY <1>2, <1>3 DEF Pay, Bills
<1>5. Restated(s, "active", subs[s].plan, subs[s].seats)
  BY <1>1, <1>2, <1>4 DEF Restated, Opened, Pay
<1>6. Says(<<"updated", "completed">>, s) /\ UNCHANGED <<ledger, trials, owner>>
  BY DEF Pay
<1> QED
  BY <1>5, <1>6, StripeAlone DEF Told

LEMMA EndsStep ==
  ASSUME IInv, NEW s \in Sub, Ends(s) PROVE IInv'
<1>1. Billable(s) /\ subs[s].plan \in PaidPlan /\ subs[s].seats \in Seats
  BY SubShape DEF Ends
<1>2. subs' = [subs EXCEPT ![s] = [status |-> "ended", plan |-> subs[s].plan,
                                   seats |-> subs[s].seats, owner |-> subs[s].owner]]
  BY SubShape DEF Ends
<1>3. Restated(s, "ended", subs[s].plan, subs[s].seats)
  BY <1>1, <1>2 DEF Restated, Opened, Ends, Billable
<1>4. Says(<<"ended">>, s) /\ UNCHANGED <<ledger, trials, owner>>
  BY DEF Ends, Kind
<1> QED
  BY <1>3, <1>4, StripeAlone DEF Told

LEMMA GoesUnpaidStep ==
  ASSUME IInv, NEW s \in Sub, GoesUnpaid(s) PROVE IInv'
<1>1. Live(s) /\ subs[s].plan \in PaidPlan /\ subs[s].seats \in Seats
  BY SubShape DEF GoesUnpaid
<1>2. subs' = [subs EXCEPT ![s] = [status |-> "unpaid", plan |-> subs[s].plan,
                                   seats |-> subs[s].seats, owner |-> subs[s].owner]]
  BY SubShape DEF GoesUnpaid
<1>3. Items(subs[s].owner, subs[s].plan, subs[s].seats) \subseteq billed
  BY <1>1 DEF IInv, SubsAreBilled, Opened, Live, Billable
<1>4. Restated(s, "unpaid", subs[s].plan, subs[s].seats)
  BY <1>1, <1>2, <1>3 DEF Restated, Opened, GoesUnpaid, Live
<1>5. Says(<<"ended">>, s) /\ UNCHANGED <<ledger, trials, owner>>
  BY DEF GoesUnpaid, Kind
<1> QED
  BY <1>4, <1>5, StripeAlone DEF Told

LEMMA RecoversStep ==
  ASSUME IInv, NEW s \in Sub, Recovers(s) PROVE IInv'
<1>1. subs[s].status = "unpaid" /\ subs[s].plan \in PaidPlan /\ subs[s].seats \in Seats
  BY SubShape DEF Recovers
<1>2. subs' = [subs EXCEPT ![s] = [status |-> "active", plan |-> subs[s].plan,
                                   seats |-> subs[s].seats, owner |-> subs[s].owner]]
  BY SubShape DEF Recovers
<1>3. s \in DOMAIN subs
  BY DEF IInv, TypeOK
<1>4. billed' = billed \cup Items(subs[s].owner, subs[s].plan, subs[s].seats)
  BY <1>2, <1>3 DEF Recovers, Bills
<1>5. Restated(s, "active", subs[s].plan, subs[s].seats)
  BY <1>1, <1>2, <1>4 DEF Restated, Opened, Recovers
<1>6. Says(<<"updated">>, s) /\ UNCHANGED <<ledger, trials, owner>>
  BY DEF Recovers
<1> QED
  BY <1>5, <1>6, StripeAlone DEF Told

LEMMA PortalStep ==
  ASSUME IInv, NEW s \in Sub, NEW p \in PaidPlan, NEW n \in Seats, PortalChange(s, p, n)
  PROVE  IInv'
<1>1. Live(s) /\ s \in DOMAIN subs
  BY DEF PortalChange, IInv, TypeOK
<1>2. subs' = [subs EXCEPT ![s] = [status |-> "active", plan |-> p,
                                   seats |-> n, owner |-> subs[s].owner]]
  <2>1. subs' = [subs EXCEPT ![s] = [status |-> subs[s].status, plan |-> p,
                                     seats |-> n, owner |-> subs[s].owner]]
    <3>1. \A q \in PaidPlan, m \in Seats :
             [subs EXCEPT ![s].plan = q, ![s].seats = m] =
               [subs EXCEPT ![s] = [status |-> subs[s].status, plan |-> q,
                                    seats |-> m, owner |-> subs[s].owner]]
      BY SubShape, Zenon
    <3>2. subs' = [subs EXCEPT ![s].plan = p, ![s].seats = n]
      BY DEF PortalChange
    <3> QED BY <3>1, <3>2, Zenon
  <2> QED BY <1>1, <2>1 DEF Live
<1>3. billed' = billed \cup Items(subs[s].owner, p, n)
  BY <1>1, <1>2 DEF PortalChange, Bills
<1>4. Restated(s, "active", p, n)
  BY <1>1, <1>2, <1>3 DEF Restated, Opened, PortalChange, Live
<1>5. Says(<<"updated">>, s) /\ UNCHANGED <<ledger, trials, owner>>
  BY DEF PortalChange
<1> QED
  BY <1>4, <1>5, StripeAlone DEF Told

(* What Stripe has charged for is what the request goes on to store.       *)
LEMMA ChargeStep ==
  ASSUME IInv, Charge PROVE IInv'
<1> DEFINE s == owner.sub
           p == IF owner.kind = "plan" THEN owner.plan ELSE subs[s].plan
           n == IF owner.kind = "seats" THEN owner.seats ELSE subs[s].seats
<1>1. /\ tenant.here /\ owner.kind \in {"plan", "seats"} /\ owner.plan \in PaidPlan
      /\ Opened(s) /\ subs[s].owner = tenant.id
  BY DEF Charge, IInv, RequestIsOwn
<1>2. s \in Sub /\ s \in DOMAIN subs /\ p \in PaidPlan /\ n \in Seats
  BY <1>1, SubShape DEF Opened, IInv, ShapeOK, Requests
<1>3. subs' = [subs EXCEPT ![s].plan = p, ![s].seats = n]
  BY DEF Charge
<1>4. subs' = [subs EXCEPT ![s] = [status |-> subs[s].status, plan |-> p,
                                   seats |-> n, owner |-> subs[s].owner]]
  <2> HIDE DEF s, p, n
  <2>1. \A q \in PaidPlan, m \in Seats :
           [subs EXCEPT ![s].plan = q, ![s].seats = m] =
             [subs EXCEPT ![s] = [status |-> subs[s].status, plan |-> q,
                                  seats |-> m, owner |-> subs[s].owner]]
    BY <1>2, SubShape, Zenon
  <2> QED BY <1>2, <1>3, <2>1, Zenon
<1>5. billed' = billed \cup Items(tenant.id, p, n)
  <2>1. Bills(s)
    BY DEF Charge
  <2> HIDE DEF s, p, n
  <2>2. subs'[s] = [status |-> subs[s].status, plan |-> p, seats |-> n,
                    owner |-> subs[s].owner]
    BY <1>2, <1>4
  <2> QED BY <1>1, <2>1, <2>2 DEF Bills
<1>6. subs[s].status \in {"active", "unpaid"}
  BY DEF Charge, Billable
<1>7. owner' = [owner EXCEPT !.pc = "store"] /\ UNCHANGED <<tenant, ledger, trials, hook, odd>>
      /\ Says(<<"updated">>, s)
  BY DEF Charge
<1>8. Restated(s, subs[s].status, p, n)
  <2> HIDE DEF s, p, n
  <2> QED BY <1>1, <1>2, <1>4, <1>5, <1>6, <1>7 DEF Restated
<1>9. Forward
  BY <1>8, StripeSide
<1>10. /\ owner \in Requests /\ owner' \in Requests /\ owner'.pc = "store"
       /\ owner'.kind = owner.kind /\ owner'.plan = owner.plan /\ owner'.sub = owner.sub
       /\ owner'.seats = owner.seats
  BY <1>7 DEF IInv, ShapeOK, Requests
<1>11. /\ owner.kind = "plan" => <<tenant.id, "plan", owner.plan>> \in billed'
       /\ owner.kind = "seats" => <<tenant.id, "seats", owner.seats>> \in billed'
  BY <1>5 DEF Items
<1>12. subs'[s].status # "none" /\ subs'[s].owner = tenant.id
  <2> HIDE DEF s, p, n
  <2>1. subs'[s] = [status |-> subs[s].status, plan |-> p, seats |-> n,
                    owner |-> subs[s].owner]
    BY <1>8, StripeSide
  <2> QED BY <1>1, <1>6, <2>1
<1>13. RequestIsOwn'
  BY <1>1, <1>7, <1>10, <1>11, <1>12 DEF RequestIsOwn, Opened
<1> HIDE DEF s, p, n
<1> QED
  BY <1>6, <1>7, <1>8, <1>10, <1>13, StripeStep DEF Told

(* Nothing happens at Stripe, and no event is added.                       *)
LEMMA MailUnchanged ==
  ASSUME mail \in Seq(Events), UNCHANGED mail PROVE MailFrom({})
BY DEF MailFrom

LEMMA QuietAtStripe ==
  ASSUME IInv, UNCHANGED <<subs, billed>>, odd \subseteq odd', MailFrom({})
  PROVE  /\ Forward /\ OpenedInOrder' /\ SubsAreBilled' /\ MailIsTrue'
         /\ mail' \in Seq(Events)
         /\ subs' \in [Sub -> [status : {"none", "open", "active", "unpaid", "ended"},
                              plan : PaidPlan, seats : Seats, owner : 0..MaxTenants]]
<1>1. Lapsed => Lapsed'
  BY DEF Lapsed
<1>2. Forward
  BY <1>1 DEF Forward, Opened
<1>3. MailIsTrue'
  BY <1>2, MailKept DEF IInv, ShapeOK
<1>4. OpenedInOrder' /\ SubsAreBilled'
  BY DEF IInv, OpenedInOrder, SubsAreBilled, Opened, Billable, Items
<1>5. subs' \in [Sub -> [status : {"none", "open", "active", "unpaid", "ended"},
                       plan : PaidPlan, seats : Seats, owner : 0..MaxTenants]]
  BY DEF IInv, TypeOK, Seats
<1> QED
  BY <1>2, <1>3, <1>4, <1>5 DEF MailFrom

(* The steps that only touch the request or the downgrade.                 *)
LEMMA TenantKept ==
  ASSUME IInv, UNCHANGED <<tenant, subs, billed, hook>>, odd \subseteq odd'
  PROVE  RecordIsOwn' /\ PaidIsBilled' /\ HookIsCurrent'
<1>1. RecordIsOwn'
  BY DEF IInv, RecordIsOwn, Opened
<1>2. PaidIsBilled'
  BY DEF IInv, PaidIsBilled, Disturbed, Items
<1>3. HookIsCurrent'
  BY DEF IInv, HookIsCurrent, Disturbed, Lapsed
<1> QED
  BY <1>1, <1>2, <1>3

LEMMA RequestOnly ==
  ASSUME IInv, UNCHANGED <<tenant, ledger, trials, subs, mail, hook, billed>>,
         odd \subseteq odd', owner' \in Requests, RequestIsOwn'
  PROVE  IInv'
<1>1. MailFrom({})
  BY MailUnchanged DEF IInv, ShapeOK
<1>2. /\ OpenedInOrder' /\ SubsAreBilled' /\ MailIsTrue' /\ mail' \in Seq(Events)
      /\ subs' \in [Sub -> [status : {"none", "open", "active", "unpaid", "ended"},
                           plan : PaidPlan, seats : Seats, owner : 0..MaxTenants]]
  BY <1>1, QuietAtStripe
<1>3. RecordIsOwn' /\ PaidIsBilled' /\ HookIsCurrent'
  BY TenantKept
<1>4. TypeOK' /\ ShapeOK'
  BY <1>2 DEF IInv, TypeOK, ShapeOK, Seats, Requests
<1> QED
  BY <1>2, <1>3, <1>4 DEF IInv

(* The request is answered, or its process dies.                           *)
LEMMA RequestEnds ==
  ASSUME Sizes, IInv, UNCHANGED <<tenant, ledger, trials, subs, mail, hook, billed>>,
         odd \subseteq odd', owner' = Idle
  PROVE  IInv'
<1>1. 0 \in Seats /\ NoSub \in SubOrNone
  BY DEF Sizes, Seats, SubOrNone
<1>2. owner' \in Requests /\ owner'.pc = "idle"
  BY <1>1 DEF Requests, Idle
<1>3. RequestIsOwn'
  BY <1>2 DEF RequestIsOwn, Idle
<1> QED
  BY <1>2, <1>3, RequestOnly

LEMMA AskChangeStep ==
  ASSUME Sizes, IInv, NEW p \in PaidPlan, NEW n \in Seats, NEW kind \in {"seats", "plan"},
         AskChange(kind, p, n)
  PROVE  IInv'
<1>1. /\ owner' = [pc |-> "resolve", kind |-> kind, sub |-> tenant.sub, plan |-> p, seats |-> n]
      /\ tenant.here /\ tenant.sub # NoSub
      /\ UNCHANGED <<tenant, ledger, trials, subs, mail, hook, billed, odd>>
  BY DEF AskChange
<1>2. owner' \in Requests
  BY <1>1 DEF Requests, IInv, TypeOK, Row
<1>3. Opened(tenant.sub) /\ subs[tenant.sub].owner = tenant.id
  BY <1>1 DEF IInv, RecordIsOwn
<1>4. RequestIsOwn'
  BY <1>1, <1>3 DEF RequestIsOwn, Opened
<1> QED
  BY <1>1, <1>2, <1>4, RequestOnly

LEMMA AskDeleteStep ==
  ASSUME Sizes, IInv, AskDelete PROVE IInv'
<1>1. /\ owner' = [Idle EXCEPT !.pc = "cancel", !.kind = "delete", !.sub = tenant.sub]
      /\ tenant.here /\ odd \subseteq odd'
      /\ UNCHANGED <<tenant, ledger, trials, subs, mail, hook, billed>>
  BY DEF AskDelete
<1>2. tenant.sub \in SubOrNone /\ 0 \in Seats
  BY DEF IInv, TypeOK, Row, Sizes, Seats
<1>3. owner' \in Requests /\ owner'.pc = "cancel"
  BY <1>1, <1>2 DEF Requests, Idle
<1>4. RequestIsOwn'
  BY <1>1, <1>3 DEF RequestIsOwn
<1> QED
  BY <1>1, <1>3, <1>4, RequestOnly

LEMMA CancelStep ==
  ASSUME Sizes, IInv, CancelAtStripe PROVE IInv'
<1> DEFINE s == owner.sub
<1>1. /\ owner.pc = "cancel" /\ owner' = [owner EXCEPT !.pc = "erase"]
      /\ UNCHANGED <<tenant, ledger, trials, hook, billed, odd>>
  BY DEF CancelAtStripe
<1>2. owner' \in Requests /\ owner'.pc = "erase" /\ tenant.here /\ s \in SubOrNone
  BY <1>1 DEF IInv, ShapeOK, Requests, RequestIsOwn
<1>3. RequestIsOwn'
  BY <1>1, <1>2 DEF RequestIsOwn
<1>4. CASE MustCancel
  <2>1. s \in Sub /\ Billable(s)
    BY <1>2, <1>4 DEF MustCancel, SubOrNone
  <2>2. subs' = [subs EXCEPT ![s].status = "ended"] /\ Says(<<"ended">>, s)
    BY <1>4 DEF CancelAtStripe
  <2> HIDE DEF s
  <2>3. subs[s].plan \in PaidPlan /\ subs[s].seats \in Seats
    BY <2>1, SubShape
  <2>4. subs' = [subs EXCEPT ![s] = [status |-> "ended", plan |-> subs[s].plan,
                                     seats |-> subs[s].seats, owner |-> subs[s].owner]]
    <3>1. \A st \in {"active", "unpaid", "ended"} :
             [subs EXCEPT ![s].status = st] =
               [subs EXCEPT ![s] = [status |-> st, plan |-> subs[s].plan,
                                    seats |-> subs[s].seats, owner |-> subs[s].owner]]
      BY <2>1, SubShape, Zenon
    <3> QED BY <3>1, <2>2, Zenon
  <2>5. Restated(s, "ended", subs[s].plan, subs[s].seats)
    BY <1>1, <2>1, <2>3, <2>4 DEF Restated, Opened, Billable
  <2> QED BY <1>1, <1>2, <1>3, <2>2, <2>5, StripeStep DEF Told
<1>5. CASE ~MustCancel
  <2>1. UNCHANGED <<subs, mail>> /\ odd \subseteq odd'
    BY <1>1, <1>5 DEF CancelAtStripe
  <2> QED BY <1>1, <1>2, <1>3, <2>1, RequestOnly
<1> QED
  BY <1>4, <1>5

(* A checkout opens the next subscription.                                 *)
LEMMA CheckoutIsNext ==
  ASSUME Sizes, IInv, NEW s \in Sub, NEW p, NEW n, Checkout(s, p, n)
  PROVE  /\ subs[s].status = "none"
         /\ \E k \in 0..MaxSubs : s = k + 1 /\ \A r \in Sub : Opened(r) <=> r <= k
<1>1. s = 1 + Cardinality({r \in Sub : subs[r].status # "none"})
  BY DEF Checkout
<1>2. PICK k \in 0..MaxSubs : \A r \in Sub : Opened(r) <=> r <= k
  BY DEF IInv, OpenedInOrder
<1>3. s = k + 1
  <2> DEFINE O == {r \in Sub : subs[r].status # "none"}
  <2>1. O = 1..k
    <3>1. 1..k \subseteq Sub
      BY <1>2 DEF Sub, Sizes
    <3>2. ASSUME NEW r \in Sub PROVE subs[r].status # "none" <=> r \in 1..k
      BY <1>2 DEF Opened, Sub, Sizes
    <3> QED BY <3>1, <3>2
  <2>2. Cardinality(1..k) = k
    BY <1>2, FS_Interval DEF Sizes
  <2>3. s = 1 + Cardinality(O)
    BY <1>1
  <2> HIDE DEF O
  <2> QED BY <1>2, <2>1, <2>2, <2>3
<1>4. ~Opened(s)
  BY <1>2, <1>3 DEF Sizes
<1> QED
  BY <1>2, <1>3, <1>4 DEF Opened

LEMMA CheckoutStep ==
  ASSUME Sizes, IInv, NEW s \in Sub, NEW p \in PaidPlan, NEW n \in Seats, Checkout(s, p, n)
  PROVE  IInv'
<1>1. /\ tenant.here /\ tenant.id \in Tenants
      /\ subs' = [subs EXCEPT ![s] = [status |-> "open", plan |-> p, seats |-> n,
                                      owner |-> tenant.id]]
      /\ UNCHANGED <<tenant, ledger, trials, mail, owner, hook, billed, odd>>
  BY DEF Checkout, IInv, ShapeOK
<1>2. PICK k \in 0..MaxSubs : s = k + 1 /\ \A r \in Sub : Opened(r) <=> r <= k
  BY CheckoutIsNext
<1>3. subs[s].status = "none"
  BY CheckoutIsNext
<1>4. subs \in [Sub -> [status : {"none", "open", "active", "unpaid", "ended"},
                       plan : PaidPlan, seats : Seats, owner : 0..MaxTenants]]
  BY DEF IInv, TypeOK, Seats
<1>5. /\ subs'[s] = [status |-> "open", plan |-> p, seats |-> n, owner |-> tenant.id]
      /\ \A r \in Sub : r # s => subs'[r] = subs[r]
      /\ tenant.id \in 0..MaxTenants
  BY <1>1, <1>4 DEF Tenants, Sizes
<1>6. subs' \in [Sub -> [status : {"none", "open", "active", "unpaid", "ended"},
                        plan : PaidPlan, seats : Seats, owner : 0..MaxTenants]]
  BY <1>1, <1>4, <1>5
<1>7. ~Opened(s)
  BY <1>3 DEF Opened
<1>9. \A r \in Sub : Opened(r)' <=> Opened(r) \/ r = s
  BY <1>5, <1>7 DEF Opened
<1>10. OpenedInOrder'
  <2>1. \A r \in Sub : Opened(r)' <=> r <= k + 1
    BY <1>2, <1>9 DEF Sub, Sizes
  <2>2. k + 1 \in 0..MaxSubs
    BY <1>2 DEF Sub, Sizes
  <2> QED BY <2>1, <2>2 DEF OpenedInOrder
<1>11. Lapsed => Lapsed'
  <2>1. \A r \in Sub : subs[r].status \in {"unpaid", "ended"} => subs'[r] = subs[r]
    BY <1>3, <1>5
  <2> QED BY <1>1, <2>1 DEF Lapsed
<1>12. Forward
  BY <1>1, <1>5, <1>7, <1>9, <1>11 DEF Forward
<1>13. MailIsTrue' /\ mail' \in Seq(Events)
  BY <1>1, <1>12, MailKept, MailUnchanged DEF IInv, ShapeOK
<1>14. SubsAreBilled'
  <2>1. ASSUME NEW r \in Sub, Opened(r)'
        PROVE  /\ subs'[r].owner \in Tenants
               /\ Billable(r)' => Items(subs'[r].owner, subs'[r].plan, subs'[r].seats)
                                     \subseteq billed'
    <3>1. CASE r = s
      BY <1>1, <1>5, <3>1 DEF Billable
    <3>2. CASE r # s
      BY <1>1, <1>5, <1>9, <2>1, <3>2 DEF IInv, SubsAreBilled, Billable
    <3> QED BY <3>1, <3>2
  <2> QED BY <2>1 DEF SubsAreBilled, Items
<1>15. RecordIsOwn'
  BY <1>1, <1>12 DEF IInv, RecordIsOwn, Forward, Opened
<1>16. RequestIsOwn' /\ owner' \in Requests
  BY <1>1, <1>12, RequestKept
<1>17. PaidIsBilled'
  BY <1>1 DEF IInv, PaidIsBilled, Disturbed, Items
<1>18. HookIsCurrent'
  BY <1>1, <1>11 DEF IInv, HookIsCurrent, Disturbed
<1>19. TypeOK' /\ ShapeOK'
  BY <1>1, <1>6, <1>13 DEF IInv, TypeOK, ShapeOK, Seats
<1> QED
  BY <1>10, <1>13, <1>14, <1>15, <1>16, <1>17, <1>18, <1>19 DEF IInv

-----------------------------------------------------------------------------
(* What happens to the workspace                                           *)

LEMMA TenantStep ==
  ASSUME IInv, UNCHANGED <<subs, billed>>, odd \subseteq odd', MailFrom({}),
         tenant' \in Row, tenant'.here => tenant'.id \in Tenants,
         ledger' \in BOOLEAN, trials' \in Nat, owner' \in Requests, hook' \in Hooks,
         RecordIsOwn', RequestIsOwn', HookIsCurrent', PaidIsBilled'
  PROVE  IInv'
<1>1. /\ OpenedInOrder' /\ SubsAreBilled' /\ MailIsTrue' /\ mail' \in Seq(Events)
      /\ subs' \in [Sub -> [status : {"none", "open", "active", "unpaid", "ended"},
                           plan : PaidPlan, seats : Seats, owner : 0..MaxTenants]]
  BY QuietAtStripe
<1>2. TypeOK'
  BY <1>1 DEF TypeOK, Seats, Requests, Hooks
<1>3. ShapeOK'
  BY <1>1 DEF ShapeOK
<1> QED
  BY <1>1, <1>2, <1>3 DEF IInv

LEMMA RegisterStep ==
  ASSUME Sizes, IInv, Register PROVE IInv'
<1>1. /\ tenant.here = FALSE /\ tenant.id < MaxTenants /\ owner = Idle
      /\ UNCHANGED <<subs, mail, owner, hook, billed, odd>>
  BY DEF Register, IInv, TypeOK, Row
<1>2. tenant.id \in 0..MaxTenants /\ 0 \in Seats
  BY DEF IInv, TypeOK, Row, Sizes, Seats
<1>3. tenant' \in [here : {TRUE}, id : {tenant.id + 1}, plan : {"guard", "complete"},
                   paid : {FALSE}, trial : {"none", "running"}, seats : {0},
                   sub : {NoSub}, active : {TRUE}]
  BY DEF Register, NoTenant
<1>4. ledger' \in BOOLEAN /\ trials' \in Nat
  <2>1. ledger \in BOOLEAN /\ trials \in Nat
    BY DEF IInv, TypeOK
  <2>2. CASE ledger
    BY <2>1, <2>2 DEF Register
  <2>3. CASE ~ledger
    BY <2>1, <2>3 DEF Register
  <2> QED BY <2>2, <2>3
<1>5. tenant.id + 1 \in Tenants /\ tenant.id + 1 \in 0..MaxTenants /\ NoSub \in SubOrNone
  BY <1>1, <1>2 DEF Tenants, Sizes, SubOrNone
<1>6. tenant' \in Row /\ tenant'.id \in Tenants
  BY <1>2, <1>3, <1>5 DEF Row, PaidPlan, Seats
<1>7. owner' \in Requests /\ hook' \in Hooks /\ MailFrom({})
  BY <1>1, MailUnchanged DEF IInv, ShapeOK
<1>8. RecordIsOwn' /\ PaidIsBilled'
  BY <1>3 DEF RecordIsOwn, PaidIsBilled
<1>9. RequestIsOwn'
  BY <1>1 DEF RequestIsOwn, Idle
<1>10. HookIsCurrent'
  <2>1. hook.pc # "idle" => hook.seen.id <= tenant.id
    BY DEF IInv, HookIsCurrent
  <2>2. hook.pc # "idle" => hook.seen.id <= tenant.id + 1 /\ hook.seen.id # tenant.id + 1
    BY <2>1, <1>2 DEF IInv, ShapeOK, Hooks, Row
  <2> QED BY <1>1, <1>3, <2>2 DEF IInv, HookIsCurrent, Lapsed
<1> QED
  BY <1>1, <1>4, <1>6, <1>7, <1>8, <1>9, <1>10, TenantStep

LEMMA TrialEndsStep ==
  ASSUME Sizes, IInv, TrialEnds PROVE IInv'
<1>1. /\ tenant' = [tenant EXCEPT !.trial = "over"]
      /\ UNCHANGED <<ledger, trials, subs, mail, owner, hook, billed, odd>>
  BY DEF TrialEnds
<1>2. /\ tenant \in Row /\ tenant' \in Row /\ tenant'.here = tenant.here
      /\ tenant'.id = tenant.id /\ tenant'.sub = tenant.sub /\ tenant'.paid = tenant.paid
      /\ tenant'.plan = tenant.plan /\ tenant'.seats = tenant.seats
  BY <1>1 DEF IInv, TypeOK, Row
<1>3. MailFrom({}) /\ owner' \in Requests /\ hook' \in Hooks
      /\ (tenant'.here => tenant'.id \in Tenants) /\ ledger' \in BOOLEAN /\ trials' \in Nat
  BY <1>1, <1>2, MailUnchanged DEF IInv, ShapeOK, TypeOK
<1>4. RecordIsOwn' /\ PaidIsBilled'
  BY <1>1, <1>2 DEF IInv, RecordIsOwn, PaidIsBilled, Opened, Disturbed, Items
<1>5. RequestIsOwn' /\ HookIsCurrent'
  BY <1>1, <1>2 DEF IInv, RequestIsOwn, HookIsCurrent, Opened, Disturbed, Lapsed
<1> QED
  BY <1>1, <1>2, <1>3, <1>4, <1>5, TenantStep

(* The steps that only touch the downgrade, and those that touch nothing   *)
(* but the events on their way.                                            *)
LEMMA HookOnly ==
  ASSUME IInv, UNCHANGED <<tenant, ledger, trials, subs, owner, billed>>,
         odd \subseteq odd', MailFrom({}), hook' \in Hooks, HookIsCurrent'
  PROVE  IInv'
<1>1. tenant' \in Row /\ (tenant'.here => tenant'.id \in Tenants) /\ ledger' \in BOOLEAN
      /\ trials' \in Nat /\ owner' \in Requests
  BY DEF IInv, TypeOK, ShapeOK
<1>2. RecordIsOwn' /\ RequestIsOwn'
  BY DEF IInv, RecordIsOwn, RequestIsOwn, Opened
<1>3. PaidIsBilled'
  BY DEF IInv, PaidIsBilled, Disturbed, Items
<1> QED
  BY <1>1, <1>2, <1>3, TenantStep

LEMMA NothingElse ==
  ASSUME IInv, UNCHANGED <<tenant, ledger, trials, subs, owner, hook, billed>>,
         odd \subseteq odd', MailFrom({})
  PROVE  IInv'
<1>1. hook' \in Hooks /\ HookIsCurrent'
  BY DEF IInv, ShapeOK, HookIsCurrent, Disturbed, Lapsed
<1> QED
  BY <1>1, HookOnly

LEMMA PickPlanStep ==
  ASSUME Sizes, IInv, NEW p \in PaidPlan \cup {"guard"}, PickPlan(p) PROVE IInv'
<1>1. /\ tenant' = [tenant EXCEPT !.plan = p] /\ tenant.here /\ tenant.sub = NoSub
      /\ UNCHANGED <<ledger, trials, subs, mail, owner, hook, billed, odd>>
  BY DEF PickPlan
<1>2. /\ tenant \in Row /\ tenant' \in Row /\ tenant'.here = tenant.here
      /\ tenant'.id = tenant.id /\ tenant'.sub = tenant.sub /\ tenant'.paid = tenant.paid
  BY <1>1 DEF IInv, TypeOK, Row
<1>3. MailFrom({}) /\ owner' \in Requests /\ hook' \in Hooks
      /\ (tenant'.here => tenant'.id \in Tenants) /\ ledger' \in BOOLEAN /\ trials' \in Nat
  BY <1>1, <1>2, MailUnchanged DEF IInv, ShapeOK, TypeOK
<1>4. tenant.paid => Disturbed
  BY <1>1 DEF IInv, PaidIsBilled
<1>5. RecordIsOwn' /\ PaidIsBilled'
  BY <1>1, <1>2, <1>4 DEF RecordIsOwn, PaidIsBilled, Disturbed
<1>6. RequestIsOwn' /\ HookIsCurrent'
  BY <1>1, <1>2 DEF IInv, RequestIsOwn, HookIsCurrent, Opened, Disturbed, Lapsed
<1> QED
  BY <1>1, <1>2, <1>3, <1>5, <1>6, TenantStep

(* The tenant row takes plan, seats and subscription from Stripe; nothing  *)
(* else that matters here changes.                                         *)
Mirrored(s, p, n) ==
    /\ tenant.here /\ Opened(s) /\ subs[s].owner = tenant.id
    /\ p \in PaidPlan /\ n \in Seats /\ Items(tenant.id, p, n) \subseteq billed
    /\ tenant' \in Row /\ tenant'.here /\ tenant'.id = tenant.id
    /\ tenant'.plan = p /\ tenant'.seats = n /\ tenant'.sub = s
    /\ UNCHANGED <<subs, hook, billed>> /\ odd \subseteq odd'
    /\ hook.pc # "idle" => Disturbed'
    /\ ledger' \in BOOLEAN /\ trials' \in Nat

LEMMA MirroredStep ==
  ASSUME IInv, NEW s, NEW p, NEW n, Mirrored(s, p, n), MailFrom({}),
         \/ UNCHANGED owner
         \/ owner' \in Requests /\ RequestIsOwn'
  PROVE  IInv'
<1> USE DEF Mirrored
<1>1. RecordIsOwn' /\ PaidIsBilled'
  <2>1. s # NoSub
    BY DEF Opened, Sub, NoSub
  <2> QED BY <2>1 DEF RecordIsOwn, PaidIsBilled, Opened, Items
<1>2. hook' \in Hooks /\ HookIsCurrent'
  BY DEF IInv, HookIsCurrent, ShapeOK, Lapsed
<1>3. owner' \in Requests /\ RequestIsOwn'
  BY DEF IInv, RequestIsOwn, ShapeOK, Opened
<1>4. tenant'.here => tenant'.id \in Tenants
  BY DEF IInv, ShapeOK
<1> QED
  BY <1>1, <1>2, <1>3, <1>4, TenantStep

LEMMA AdoptMirrors ==
  ASSUME IInv, tenant.here, NEW s \in LiveOf(tenant.id), Adopt(s),
         UNCHANGED <<subs, hook, billed, ledger, trials>>
  PROVE  /\ Mirrored(s, subs[s].plan, subs[s].seats) /\ tenant'.paid
         /\ hook # NoHook => "raced" \in odd'
<1>1. s \in Sub /\ Live(s) /\ subs[s].owner = tenant.id
  BY DEF LiveOf
<1>2. Opened(s) /\ Items(tenant.id, subs[s].plan, subs[s].seats) \subseteq billed
  BY <1>1 DEF Opened, Live, Billable, IInv, SubsAreBilled
<1>3. subs[s].plan \in PaidPlan /\ subs[s].seats \in Seats
  BY <1>1, SubShape
<1>4. tenant \in Row /\ s \in SubOrNone
  BY <1>1 DEF IInv, TypeOK, SubOrNone
<1>5. tenant' = [tenant EXCEPT !.plan = subs[s].plan, !.seats = subs[s].seats,
                               !.sub = s, !.paid = TRUE]
  <2>1. Mirror(tenant, Event("adopted", s)) =
          [tenant EXCEPT !.plan = subs[s].plan, !.seats = subs[s].seats, !.sub = s]
    BY DEF Mirror, Event
  <2> QED BY <2>1 DEF Adopt
<1>6. /\ tenant' \in Row /\ tenant'.here /\ tenant'.id = tenant.id
      /\ tenant'.plan = subs[s].plan /\ tenant'.seats = subs[s].seats
      /\ tenant'.sub = s /\ tenant'.paid
  BY <1>3, <1>4, <1>5 DEF Row, Seats
<1>7. odd \subseteq odd' /\ (hook # NoHook => "raced" \in odd')
  BY DEF Adopt
<1>8. hook.pc # "idle" => Disturbed'
  BY <1>7 DEF NoHook, Disturbed
<1>9. ledger' \in BOOLEAN /\ trials' \in Nat
  BY DEF IInv, TypeOK
<1> QED
  BY <1>1, <1>2, <1>3, <1>6, <1>7, <1>8, <1>9 DEF Mirrored

LEMMA AdoptAtCheckoutStep ==
  ASSUME IInv, AdoptAtCheckout PROVE IInv'
<1>1. PICK s \in LiveOf(tenant.id) : Adopt(s)
  BY DEF AdoptAtCheckout
<1>2. tenant.here /\ UNCHANGED <<subs, hook, billed, ledger, trials, mail, owner>>
  BY DEF AdoptAtCheckout
<1>3. Mirrored(s, subs[s].plan, subs[s].seats)
  BY <1>1, <1>2, AdoptMirrors
<1>4. MailFrom({})
  BY <1>2, MailUnchanged DEF IInv, ShapeOK
<1> QED
  BY <1>2, <1>3, <1>4, MirroredStep

LEMMA ResolveStep ==
  ASSUME Sizes, IInv, Resolve PROVE IInv'
<1>1. /\ owner.pc = "resolve" /\ UNCHANGED <<ledger, trials, subs, mail, hook, billed>>
      /\ owner \in Requests /\ tenant.here /\ mail \in Seq(Events)
  BY DEF Resolve, IInv, ShapeOK, RequestIsOwn
<1>2. CASE /\ Billable(owner.sub) /\ owner' = [owner EXCEPT !.pc = "charge"]
           /\ UNCHANGED <<tenant, odd>>
  <2>1. /\ owner' \in Requests /\ owner'.pc = "charge" /\ owner'.kind = owner.kind
        /\ owner'.plan = owner.plan /\ owner'.sub = owner.sub
    BY <1>1, <1>2 DEF Requests
  <2>2. RequestIsOwn'
    BY <1>1, <1>2, <2>1 DEF IInv, RequestIsOwn, Opened
  <2> QED BY <1>1, <1>2, <2>1, <2>2, RequestOnly
<1>3. ASSUME NEW s \in LiveOf(tenant.id), Adopt(s),
             owner' = [owner EXCEPT !.pc = "charge", !.sub = s]
      PROVE  IInv'
  <2>1. Mirrored(s, subs[s].plan, subs[s].seats)
    BY <1>1, <1>3, AdoptMirrors
  <2>2. s \in Sub /\ Opened(s) /\ subs[s].owner = tenant.id
    BY <2>1 DEF Mirrored, Opened
  <2>3. /\ owner' \in Requests /\ owner'.pc = "charge" /\ owner'.kind = owner.kind
        /\ owner'.plan = owner.plan /\ owner'.sub = s
    BY <1>1, <1>3, <2>2 DEF Requests, SubOrNone
  <2>4. owner.kind \in {"plan", "seats"} /\ owner.plan \in PaidPlan
    BY <1>1 DEF IInv, RequestIsOwn
  <2>5. RequestIsOwn'
    BY <1>1, <2>1, <2>2, <2>3, <2>4 DEF RequestIsOwn, Mirrored, Opened
  <2>6. MailFrom({})
    BY <1>1, MailUnchanged
  <2> QED BY <2>1, <2>3, <2>5, <2>6, MirroredStep
<1>4. CASE owner' = Idle /\ UNCHANGED <<tenant, odd>>
  BY <1>1, <1>4, RequestEnds
<1> QED
  BY <1>2, <1>3, <1>4 DEF Resolve

-----------------------------------------------------------------------------
(* What the webhook does                                                   *)

LEMMA CompletedStep ==
  ASSUME IInv, NEW i, HandleCompleted(i) PROVE IInv'
<1> DEFINE e == mail[i]
<1>1. /\ MailFrom({}) /\ i \in 1..Len(mail) /\ odd \subseteq odd'
      /\ hook.pc # "idle" => "overtaken" \in odd'
  BY DeliveredKeeps DEF HandleCompleted, IInv, ShapeOK
<1>2. e.kind = "completed" /\ UNCHANGED <<subs, owner, hook, billed>>
  BY DEF HandleCompleted
<1>3. e \in Events /\ EventIsTrue(e)
  BY <1>1, ElementOfSeq DEF IInv, ShapeOK, MailIsTrue
<1>4. tenant \in Row /\ ledger \in BOOLEAN /\ trials \in Nat
  BY DEF IInv, TypeOK
<1>5. CASE Concerns(e)
  <2>1. tenant' = [Mirror(tenant, e) EXCEPT
                     !.paid = TRUE,
                     !.trial = IF tenant.trial = "none" THEN "running" ELSE @]
        /\ ledger' = TRUE /\ trials' \in {trials, trials + 1}
    BY <1>5 DEF HandleCompleted
  <2> HIDE DEF e
  <2>2. /\ tenant.here /\ tenant.id = e.owner /\ Opened(e.sub) /\ e.sub \in Sub
        /\ subs[e.sub].owner = tenant.id /\ Items(tenant.id, e.plan, e.seats) \subseteq billed
        /\ e.plan \in PaidPlan /\ e.seats \in Seats
    BY <1>2, <1>3, <1>5 DEF Concerns, EventIsTrue, Events
  <2>3. /\ tenant' \in Row /\ tenant'.here /\ tenant'.id = tenant.id
        /\ tenant'.plan = e.plan /\ tenant'.seats = e.seats /\ tenant'.sub = e.sub
    BY <1>4, <2>1, <2>2 DEF Mirror, Row, Seats, SubOrNone
  <2>4. ledger' \in BOOLEAN /\ trials' \in Nat
    BY <1>4, <2>1
  <2>5. Mirrored(e.sub, e.plan, e.seats)
    BY <1>1, <1>2, <2>2, <2>3, <2>4 DEF Mirrored, Disturbed
  <2> QED BY <1>1, <1>2, <2>5, MirroredStep
<1>6. CASE ~Concerns(e)
  <2>1. UNCHANGED <<tenant, ledger, trials>>
    BY <1>6 DEF HandleCompleted
  <2> QED BY <1>1, <1>2, <2>1, NothingElse
<1> QED
  BY <1>5, <1>6

LEMMA UpdatedStep ==
  ASSUME IInv, NEW i, HandleUpdated(i) PROVE IInv'
<1> DEFINE e == mail[i]
<1>1. /\ MailFrom({}) /\ i \in 1..Len(mail) /\ odd \subseteq odd'
      /\ hook.pc # "idle" => "overtaken" \in odd'
  BY DeliveredKeeps DEF HandleUpdated, IInv, ShapeOK
<1>2. e.kind = "updated" /\ UNCHANGED <<ledger, trials, subs, owner, hook, billed>>
  BY DEF HandleUpdated
<1>3. e \in Events /\ EventIsTrue(e)
  BY <1>1, ElementOfSeq DEF IInv, ShapeOK, MailIsTrue
<1>4. tenant \in Row /\ ledger' \in BOOLEAN /\ trials' \in Nat
  BY <1>2 DEF IInv, TypeOK
<1>5. CASE Concerns(e) /\ tenant.sub \in {NoSub, e.sub}
  <2>1. tenant' = Mirror(tenant, e)
    BY <1>5 DEF HandleUpdated
  <2> HIDE DEF e
  <2>2. /\ tenant.here /\ tenant.id = e.owner /\ Opened(e.sub) /\ e.sub \in Sub
        /\ subs[e.sub].owner = tenant.id /\ Items(tenant.id, e.plan, e.seats) \subseteq billed
        /\ e.plan \in PaidPlan /\ e.seats \in Seats
    BY <1>2, <1>3, <1>5 DEF Concerns, EventIsTrue, Events
  <2>3. /\ tenant' \in Row /\ tenant'.here /\ tenant'.id = tenant.id
        /\ tenant'.plan = e.plan /\ tenant'.seats = e.seats /\ tenant'.sub = e.sub
    BY <1>4, <2>1, <2>2 DEF Mirror, Row, Seats, SubOrNone
  <2>4. Mirrored(e.sub, e.plan, e.seats)
    BY <1>1, <1>2, <1>4, <2>2, <2>3 DEF Mirrored, Disturbed
  <2> QED BY <1>1, <1>2, <2>4, MirroredStep
<1>6. CASE ~(Concerns(e) /\ tenant.sub \in {NoSub, e.sub})
  <2>1. UNCHANGED tenant
    BY <1>6 DEF HandleUpdated
  <2> QED BY <1>1, <1>2, <2>1, NothingElse
<1> QED
  BY <1>5, <1>6

(* A downgrade begins with what the tenant row says now.                   *)
LEMMA StartDowngradeStep ==
  ASSUME IInv, NEW i, StartDowngrade(i) PROVE IInv'
<1> DEFINE e == mail[i]
<1>1. /\ MailFrom({}) /\ i \in 1..Len(mail) /\ odd \subseteq odd'
  BY DeliveredKeeps DEF StartDowngrade, IInv, ShapeOK
<1>2. /\ e.kind = "ended" /\ hook.pc = "idle"
      /\ UNCHANGED <<tenant, ledger, trials, subs, owner, billed>>
  BY DEF StartDowngrade
<1>3. e \in Events /\ EventIsTrue(e)
  BY <1>1, ElementOfSeq DEF IInv, ShapeOK, MailIsTrue
<1>4. tenant \in Row
  BY DEF IInv, TypeOK
<1>5. CASE hook' = [pc |-> "ask", sub |-> e.sub, seen |-> tenant]
  <2> HIDE DEF e
  <2>1. Lapsed /\ e.sub \in SubOrNone
    BY <1>2, <1>3 DEF EventIsTrue, Events, SubOrNone
  <2>2. hook' \in Hooks /\ hook'.pc = "ask" /\ hook'.seen = tenant
    BY <1>4, <1>5, <2>1 DEF Hooks
  <2>3. Lapsed'
    BY <1>1, <1>2, <2>1 DEF Lapsed
  <2>4. tenant.id <= tenant.id
    BY <1>4 DEF Row
  <2>5. HookIsCurrent'
    BY <1>2, <2>2, <2>3, <2>4 DEF HookIsCurrent
  <2> QED BY <1>1, <1>2, <2>2, <2>5, HookOnly
<1>6. CASE UNCHANGED hook
  BY <1>1, <1>2, <1>6, NothingElse
<1> QED
  BY <1>5, <1>6 DEF StartDowngrade

LEMMA NoHookShape == Sizes => NoHook \in Hooks
<1> SUFFICES ASSUME Sizes PROVE NoHook \in Hooks
  OBVIOUS
<1>1. 0 \in Seats /\ 0 \in 0..MaxTenants /\ NoSub \in SubOrNone
  BY DEF Sizes, Seats, SubOrNone
<1>2. NoTenant \in Row
  BY <1>1 DEF NoTenant, Row, Seats, PaidPlan
<1> QED
  BY <1>1, <1>2 DEF NoHook, Hooks

LEMMA AskStripeStep ==
  ASSUME Sizes, IInv, AskStripe \/ StripeUnreachable PROVE IInv'
<1>1. /\ hook.pc = "ask" /\ hook' \in {[hook EXCEPT !.pc = "write"], NoHook}
      /\ odd \subseteq odd'
      /\ UNCHANGED <<tenant, ledger, trials, subs, mail, owner, billed>>
  BY DEF AskStripe, StripeUnreachable
<1>2. hook \in Hooks /\ MailFrom({})
  BY <1>1, MailUnchanged DEF IInv, ShapeOK
<1>3. CASE hook' = NoHook
  <2>1. hook' \in Hooks /\ HookIsCurrent'
    BY <1>3, NoHookShape DEF HookIsCurrent, NoHook
  <2> QED BY <1>1, <1>2, <2>1, HookOnly
<1>4. CASE hook' = [hook EXCEPT !.pc = "write"]
  <2>1. hook' \in Hooks /\ hook'.pc = "write" /\ hook'.seen = hook.seen
    BY <1>2, <1>4 DEF Hooks
  <2>2. HookIsCurrent'
    BY <1>1, <2>1 DEF IInv, HookIsCurrent, Disturbed, Lapsed
  <2> QED BY <1>1, <1>2, <2>1, <2>2, HookOnly
<1> QED
  BY <1>1, <1>3, <1>4

(* The downgrade's commit: unless the workspace changed under it, a paid   *)
(* one is no longer paid and an unpaid one stays so.                       *)
LEMMA DowngradeEffect ==
  ASSUME Sizes, IInv, WriteDowngrade
  PROVE  /\ tenant' \in Row /\ tenant'.here = tenant.here /\ tenant'.id = tenant.id
         /\ tenant'.sub \in {NoSub, tenant.sub}
         /\ Disturbed \/ UNCHANGED tenant \/ tenant'.paid = FALSE
<1>1. tenant \in Row /\ hook \in Hooks /\ hook.seen \in Row /\ hook.pc = "write"
  BY DEF IInv, TypeOK, ShapeOK, WriteDowngrade
<1>2. CASE UNCHANGED tenant
  BY <1>1, <1>2
<1>3. CASE /\ tenant.here /\ tenant.id = hook.seen.id
           /\ tenant' = Downgraded(tenant, hook.seen)
  <2>1. 0 \in Seats /\ NoSub \in SubOrNone
    BY DEF Sizes, Seats, SubOrNone
  <2>2. tenant' = [tenant EXCEPT
                     !.plan  = IF hook.seen.plan = "guard" THEN tenant.plan ELSE "guard",
                     !.paid  = IF hook.seen.paid THEN FALSE ELSE tenant.paid,
                     !.sub   = IF hook.seen.sub = NoSub THEN tenant.sub ELSE NoSub,
                     !.seats = IF hook.seen.seats = 0 THEN tenant.seats ELSE 0]
    BY <1>1, <1>3 DEF Downgraded, Row
  <2>3. tenant.paid \in BOOLEAN /\ hook.seen.paid \in BOOLEAN
    BY <1>1 DEF Row
  <2>4. /\ tenant' \in Row /\ tenant'.here = tenant.here /\ tenant'.id = tenant.id
        /\ tenant'.sub \in {NoSub, tenant.sub}
        /\ tenant'.paid = IF hook.seen.paid THEN FALSE ELSE tenant.paid
    BY <1>1, <2>1, <2>2, <2>3 DEF Row, Seats
  <2>5. ~Disturbed => tenant.paid = hook.seen.paid
    BY <1>1, <1>3 DEF IInv, HookIsCurrent
  <2> QED BY <2>3, <2>4, <2>5
<1> QED
  BY <1>2, <1>3 DEF WriteDowngrade

LEMMA WriteDowngradeStep ==
  ASSUME Sizes, IInv, WriteDowngrade PROVE IInv'
<1>1. /\ hook.pc = "write" /\ hook' = NoHook
      /\ UNCHANGED <<ledger, trials, subs, mail, owner, billed, odd>>
  BY DEF WriteDowngrade
<1>2. /\ tenant' \in Row /\ tenant'.here = tenant.here /\ tenant'.id = tenant.id
      /\ tenant'.sub \in {NoSub, tenant.sub}
      /\ Disturbed \/ UNCHANGED tenant \/ tenant'.paid = FALSE
  BY DowngradeEffect
<1>3. hook' \in Hooks /\ HookIsCurrent'
  BY <1>1, NoHookShape DEF HookIsCurrent, NoHook
<1>4. MailFrom({}) /\ owner' \in Requests /\ (tenant'.here => tenant'.id \in Tenants)
      /\ ledger' \in BOOLEAN /\ trials' \in Nat
  BY <1>1, <1>2, MailUnchanged DEF IInv, ShapeOK, TypeOK
<1>5. RecordIsOwn'
  BY <1>1, <1>2 DEF IInv, RecordIsOwn, Opened
<1>6. RequestIsOwn'
  BY <1>1, <1>2 DEF IInv, RequestIsOwn, Opened
<1>7. PaidIsBilled'
  <2>1. ~tenant.here => UNCHANGED tenant
    BY DEF WriteDowngrade
  <2>2. CASE UNCHANGED tenant
    BY <1>1, <2>2 DEF IInv, PaidIsBilled, Disturbed, Items
  <2>3. CASE tenant.here /\ (Disturbed \/ tenant'.paid = FALSE)
    BY <1>1, <1>2, <2>3 DEF PaidIsBilled, Disturbed
  <2> QED BY <1>2, <2>1, <2>2, <2>3
<1> QED
  BY <1>1, <1>2, <1>3, <1>4, <1>5, <1>6, <1>7, TenantStep

-----------------------------------------------------------------------------
(* What the owner's request commits                                        *)

LEMMA StoreEffect ==
  ASSUME IInv, Store
  PROVE  /\ tenant.here /\ tenant' \in Row /\ tenant'.here /\ tenant'.id = tenant.id
         /\ tenant'.sub = tenant.sub /\ tenant'.paid = tenant.paid
         /\ \/ /\ tenant'.plan = owner.plan /\ tenant'.seats = tenant.seats
               /\ owner.plan \in PaidPlan /\ <<tenant.id, "plan", owner.plan>> \in billed
            \/ /\ tenant'.plan = tenant.plan /\ tenant'.seats = owner.seats
               /\ <<tenant.id, "seats", owner.seats>> \in billed
<1>1. /\ tenant \in Row /\ owner \in Requests /\ owner.pc = "store" /\ tenant.here
      /\ owner.kind \in {"plan", "seats"} /\ owner.plan \in PaidPlan
      /\ IF owner.kind = "plan" THEN <<tenant.id, "plan", owner.plan>> \in billed
         ELSE <<tenant.id, "seats", owner.seats>> \in billed
  BY DEF IInv, TypeOK, ShapeOK, RequestIsOwn, Store
<1>2. CASE owner.kind = "plan"
  <2>1. tenant' = [tenant EXCEPT !.plan = owner.plan]
    BY <1>1, <1>2 DEF Store, Changed, Row
  <2> QED BY <1>1, <1>2, <2>1 DEF Row
<1>3. CASE owner.kind = "seats"
  <2>1. tenant' = [tenant EXCEPT !.seats = owner.seats]
    BY <1>1, <1>3 DEF Store, Changed, Row
  <2> QED BY <1>1, <1>3, <2>1 DEF Row, Requests, Seats
<1> QED
  BY <1>1, <1>2, <1>3

LEMMA StoreStep ==
  ASSUME Sizes, IInv, Store PROVE IInv'
<1>1. /\ owner' = Idle /\ odd \subseteq odd'
      /\ UNCHANGED <<ledger, trials, subs, mail, hook, billed>>
  BY DEF Store
<1>2. /\ tenant.here /\ tenant' \in Row /\ tenant'.here /\ tenant'.id = tenant.id
      /\ tenant'.sub = tenant.sub /\ tenant'.paid = tenant.paid
  BY StoreEffect
<1>3. owner' \in Requests /\ RequestIsOwn'
  <2>1. 0 \in Seats /\ NoSub \in SubOrNone
    BY DEF Sizes, Seats, SubOrNone
  <2> QED BY <1>1, <2>1 DEF Requests, RequestIsOwn, Idle
<1>4. MailFrom({}) /\ hook' \in Hooks /\ tenant'.id \in Tenants
      /\ ledger' \in BOOLEAN /\ trials' \in Nat
  BY <1>1, <1>2, MailUnchanged DEF IInv, ShapeOK, TypeOK
<1>5. RecordIsOwn'
  BY <1>1, <1>2 DEF IInv, RecordIsOwn, Opened
<1>6. HookIsCurrent'
  BY <1>1, <1>2 DEF IInv, HookIsCurrent, Disturbed, Lapsed
<1>7. PaidIsBilled'
  <2>1. ASSUME tenant'.paid, ~Disturbed'
        PROVE  /\ tenant'.sub # NoSub /\ tenant'.plan \in PaidPlan
               /\ Items(tenant'.id, tenant'.plan, tenant'.seats) \subseteq billed
    <3>1. /\ tenant.sub # NoSub /\ tenant.plan \in PaidPlan
          /\ Items(tenant.id, tenant.plan, tenant.seats) \subseteq billed
      BY <1>1, <1>2, <2>1 DEF IInv, PaidIsBilled, Disturbed
    <3> QED BY <1>2, <3>1, StoreEffect DEF Items
  <2> QED BY <1>1, <1>2, <2>1 DEF PaidIsBilled, Items
<1> QED
  BY <1>1, <1>2, <1>3, <1>4, <1>5, <1>6, <1>7, TenantStep

LEMMA EraseStep ==
  ASSUME Sizes, IInv, Erase PROVE IInv'
<1>1. /\ tenant' = [NoTenant EXCEPT !.id = tenant.id] /\ owner' = Idle
      /\ UNCHANGED <<ledger, trials, subs, mail, hook, billed, odd>>
  BY DEF Erase
<1>2. 0 \in Seats /\ NoSub \in SubOrNone /\ tenant \in Row
  BY DEF Sizes, Seats, SubOrNone, IInv, TypeOK
<1>3. /\ tenant' \in Row /\ tenant'.here = FALSE /\ tenant'.id = tenant.id
      /\ tenant'.sub = NoSub /\ tenant'.paid = FALSE
  BY <1>1, <1>2 DEF NoTenant, Row, Seats, PaidPlan
<1>4. owner' \in Requests /\ RequestIsOwn'
  BY <1>1, <1>2 DEF Requests, RequestIsOwn, Idle
<1>5. MailFrom({}) /\ hook' \in Hooks /\ ledger' \in BOOLEAN /\ trials' \in Nat
  BY <1>1, MailUnchanged DEF IInv, ShapeOK, TypeOK
<1>6. RecordIsOwn' /\ PaidIsBilled'
  BY <1>3 DEF RecordIsOwn, PaidIsBilled
<1>7. HookIsCurrent'
  BY <1>1, <1>3 DEF IInv, HookIsCurrent, Disturbed, Lapsed
<1> QED
  BY <1>1, <1>3, <1>4, <1>5, <1>6, <1>7, TenantStep

-----------------------------------------------------------------------------
(* Every step preserves the invariant.                                     *)
LEMMA NextIInv == Sizes /\ IInv /\ [Next]_vars => IInv'
<1> SUFFICES ASSUME Sizes, IInv, [Next]_vars PROVE IInv'
  OBVIOUS
<1>1. CASE Register \/ TrialEnds
  BY <1>1, RegisterStep, TrialEndsStep
<1>2. CASE Request
  <2>1. ASSUME NEW s \in Sub, NEW o \in Offer, Checkout(s, o[1], o[2]) PROVE IInv'
    <3>1. o[1] \in PaidPlan /\ o[2] \in Seats
      BY DEF Sizes, Seats
    <3> QED BY <2>1, <3>1, CheckoutStep
  <2>2. ASSUME NEW p \in PaidPlan \cup {"guard"}, PickPlan(p) PROVE IInv'
    BY <2>2, PickPlanStep
  <2>3. ASSUME NEW p \in PaidPlan, NEW n \in Seats, NEW kind \in {"seats", "plan"},
               AskChange(kind, p, n)
        PROVE  IInv'
    BY <2>3, AskChangeStep
  <2>4. CASE Decline \/ Dies \/ CannotCancel
    <3>1. /\ owner' = Idle
          /\ UNCHANGED <<tenant, ledger, trials, subs, mail, hook, billed, odd>>
      BY <2>4 DEF Decline, Dies, CannotCancel
    <3> QED BY <3>1, RequestEnds
  <2>5. CASE AdoptAtCheckout \/ Resolve \/ Charge \/ Store
    BY <2>5, AdoptAtCheckoutStep, ResolveStep, ChargeStep, StoreStep
  <2>6. CASE AskDelete \/ CancelAtStripe \/ Erase
    BY <2>6, AskDeleteStep, CancelStep, EraseStep
  <2> QED BY <1>2, <2>1, <2>2, <2>3, <2>4, <2>5, <2>6 DEF Request, Seats
<1>3. CASE Stripe
  <2>1. ASSUME NEW s \in Sub, Pay(s) \/ Ends(s) \/ GoesUnpaid(s) \/ Recovers(s) PROVE IInv'
    BY <2>1, PayStep, EndsStep, GoesUnpaidStep, RecoversStep
  <2>2. ASSUME NEW s \in Sub, NEW p \in PaidPlan, NEW n \in Seats, PortalChange(s, p, n)
        PROVE  IInv'
    BY <2>2, PortalStep
  <2> QED BY <1>3, <2>1, <2>2 DEF Stripe, Seats
<1>4. CASE Deliver
  BY <1>4, CompletedStep, UpdatedStep, StartDowngradeStep DEF Deliver
<1>5. CASE Downgrade
  BY <1>5, AskStripeStep, WriteDowngradeStep DEF Downgrade
<1>6. CASE UNCHANGED vars
  <2>1. UNCHANGED <<tenant, ledger, trials, subs, mail, owner, hook, billed, odd>>
    BY <1>6 DEF vars
  <2>2. MailFrom({}) /\ odd \subseteq odd'
    BY <2>1, MailUnchanged DEF IInv, ShapeOK
  <2> QED BY <2>1, <2>2, NothingElse
<1> QED
  BY <1>1, <1>2, <1>3, <1>4, <1>5, <1>6 DEF Next

-----------------------------------------------------------------------------
(* The refinement                                                          *)

(* What the steps of PaidAccess are about, as Billing's variables show it: *)
(* its `ended`, its `access` and its `Item`.                               *)
Gone == tenant.id > (IF tenant.here THEN 1 ELSE 0)
Over == Disturbed \/ Gone \/ Lapsed
Given == IF tenant.here /\ tenant.paid /\ tenant.plan # "guard" /\ ~Disturbed
         THEN Items(tenant.id, tenant.plan, tenant.seats) ELSE {}
Catalogue == UNION {Items(id, p, n) : id \in 1..MaxTenants, p \in PaidPlan,
                                      n \in 0..MaxSeats}

(* An end stays on record: at Stripe, in the workspace or in what happened. *)
LEMMA LapsedStays ==
  ASSUME Sizes, IInv, Next PROVE odd \subseteq odd' /\ (Lapsed => Lapsed')
<1>1. subs \in [Sub -> [status : {"none", "open", "active", "unpaid", "ended"},
                       plan : PaidPlan, seats : Seats, owner : 0..MaxTenants]]
  BY DEF IInv, TypeOK, Seats
<1>2. ASSUME UNCHANGED subs, odd \subseteq odd' PROVE odd \subseteq odd' /\ (Lapsed => Lapsed')
  BY <1>2 DEF Lapsed
<1>3. ASSUME NEW s \in Sub, odd \subseteq odd',
             \A r \in Sub : r # s => subs'[r].status = subs[r].status,
             subs[s].status \in {"unpaid", "ended"} =>
                 subs'[s].status \in {"unpaid", "ended"} \/ "recovered" \in odd'
      PROVE  odd \subseteq odd' /\ (Lapsed => Lapsed')
  BY <1>3 DEF Lapsed
<1>4. CASE Register \/ TrialEnds
  BY <1>2, <1>4 DEF Register, TrialEnds
<1>5. ASSUME NEW s \in Sub, NEW o \in Offer, Checkout(s, o[1], o[2])
      PROVE  odd \subseteq odd' /\ (Lapsed => Lapsed')
  <2>1. subs[s].status = "none"
    BY <1>5, CheckoutIsNext
  <2>2. odd \subseteq odd' /\ \A r \in Sub : r # s => subs'[r] = subs[r]
    BY <1>1, <1>5 DEF Checkout
  <2> QED BY <1>3, <2>1, <2>2
<1>6. ASSUME \/ \E p \in PaidPlan \cup {"guard"} : PickPlan(p)
             \/ \E p \in PaidPlan, n \in 0..MaxSeats, kind \in {"seats", "plan"} :
                    AskChange(kind, p, n)
             \/ AdoptAtCheckout \/ Resolve \/ Decline \/ Store \/ Dies \/ AskDelete
             \/ CannotCancel \/ Erase \/ AskStripe \/ StripeUnreachable \/ WriteDowngrade
      PROVE  UNCHANGED subs /\ odd \subseteq odd'
  BY <1>6 DEF PickPlan, AskChange, AdoptAtCheckout, Resolve, Adopt, Decline, Store, Dies,
              AskDelete, CannotCancel, Erase, AskStripe, StripeUnreachable, WriteDowngrade
<1>7. CASE Deliver
  <2>1. UNCHANGED subs /\ odd \subseteq odd'
    BY <1>7, DeliveredKeeps
       DEF Deliver, HandleCompleted, HandleUpdated, StartDowngrade, IInv, ShapeOK
  <2> QED BY <1>2, <2>1
<1>8. CASE Charge
  <2>1. owner.sub \in Sub
    BY <1>8 DEF Charge, IInv, RequestIsOwn, Opened
  <2>2. odd \subseteq odd' /\ \A r \in Sub : subs'[r].status = subs[r].status
    BY <1>1, <1>8, <2>1 DEF Charge
  <2> QED BY <1>3, <2>1, <2>2
<1>9. CASE CancelAtStripe
  <2>1. CASE MustCancel
    <3>1. owner.sub \in Sub
      BY <2>1 DEF MustCancel, IInv, ShapeOK, Requests, SubOrNone
    <3>2. /\ odd \subseteq odd' /\ subs'[owner.sub].status = "ended"
          /\ \A r \in Sub : r # owner.sub => subs'[r] = subs[r]
      BY <1>1, <1>9, <2>1, <3>1 DEF CancelAtStripe
    <3> QED BY <1>3, <3>1, <3>2
  <2>2. CASE ~MustCancel
    BY <1>2, <1>9, <2>2 DEF CancelAtStripe
  <2> QED BY <2>1, <2>2
<1>10. ASSUME NEW s \in Sub, Pay(s) \/ Ends(s) \/ GoesUnpaid(s) \/ Recovers(s)
       PROVE  odd \subseteq odd' /\ (Lapsed => Lapsed')
  <2>1. odd \subseteq odd' /\ \A r \in Sub : r # s => subs'[r] = subs[r]
    BY <1>1, <1>10 DEF Pay, Ends, GoesUnpaid, Recovers
  <2>2. subs[s].status \in {"unpaid", "ended"} =>
           subs'[s].status \in {"unpaid", "ended"} \/ "recovered" \in odd'
    BY <1>1, <1>10 DEF Pay, Ends, GoesUnpaid, Recovers, Live
  <2> QED BY <1>3, <2>1, <2>2
<1>11. ASSUME NEW s \in Sub, NEW p \in PaidPlan, NEW n \in 0..MaxSeats, PortalChange(s, p, n)
       PROVE  odd \subseteq odd' /\ (Lapsed => Lapsed')
  <2>1. odd \subseteq odd' /\ \A r \in Sub : subs'[r].status = subs[r].status
    BY <1>1, <1>11 DEF PortalChange
  <2> QED BY <1>3, <2>1
<1>12. CASE Request
  BY <1>2, <1>5, <1>6, <1>8, <1>9, <1>12 DEF Request
<1>13. CASE Downgrade
  BY <1>2, <1>6, <1>13 DEF Downgrade
<1> QED
  BY <1>4, <1>7, <1>10, <1>11, <1>12, <1>13 DEF Next, Stripe

LEMMA InitPromise == Sizes /\ Init => Promise!Init
<1> SUFFICES ASSUME Sizes, Init PROVE Promise!Init
  OBVIOUS
<1>1. billed = {} /\ odd = {} /\ tenant = NoTenant /\ subs = [s \in Sub |-> Unopened]
  BY DEF Init
<1>2. ~Disturbed /\ "recovered" \notin odd
  BY <1>1 DEF Disturbed
<1>3. ~(tenant.id > (IF tenant.here THEN 1 ELSE 0)) /\ ~tenant.here
  BY <1>1 DEF NoTenant
<1>4. \A s \in Sub : subs[s].status = "none"
  BY <1>1 DEF Unopened
<1> QED
  BY <1>1, <1>2, <1>3, <1>4 DEF Promise!Init

(* Nothing is bought: the workspace keeps what it has, loses it after an   *)
(* end, or is given what was billed for.                                   *)
LEMMA NothingBought ==
  ASSUME IInv', UNCHANGED billed, Over => Over',
         \/ Given' = Given
         \/ Given' = {} /\ Over'
         \/ Given' # {} /\ (Over' => Over)
  PROVE  [Promise!Next]_(Promise!vars)
<1>1. CASE Given' = {} /\ Over'
  <2>1. Promise!Close
    BY <1>1 DEF Promise!Close, Over, Given, Gone, Lapsed
  <2> QED BY <2>1 DEF Promise!Next
<1>2. CASE Given' = Given /\ (Over' => Over)
  <2>1. UNCHANGED <<billed, Over, Given>>
    BY <1>2 DEF Over
  <2> QED BY <2>1 DEF Promise!vars, Over, Given, Gone, Lapsed
<1>3. CASE Given' = Given /\ Over'
  <2>1. Promise!End
    BY <1>3 DEF Promise!End, Over, Given, Gone, Lapsed
  <2> QED BY <2>1 DEF Promise!Next
<1>4. CASE Given' # {} /\ (Over' => Over)
  <2>1. Given' \subseteq billed
    BY <1>4 DEF IInv, PaidIsBilled, Given
  <2>2. UNCHANGED Over
    BY <1>4 DEF Over
  <2>3. Given' \in SUBSET Catalogue
    BY <1>4 DEF IInv, TypeOK, ShapeOK, Row, Tenants, Given, Catalogue
  <2>4. Promise!Give(Given')
    BY <1>4, <2>1, <2>2 DEF Promise!Give, Over, Given, Gone, Lapsed
  <2> QED BY <2>3, <2>4 DEF Promise!Next, Catalogue
<1> QED
  BY <1>1, <1>2, <1>3, <1>4

(* Something is bought, and the workspace is left alone.                   *)
LEMMA SomethingBought ==
  ASSUME NEW id \in Tenants, NEW p \in PaidPlan, NEW n \in Seats,
         NEW items, items = Items(id, p, n),
         billed' = billed \cup items, Given' = Given, UNCHANGED Over
  PROVE  [Promise!Next]_(Promise!vars)
<1>1. items \in SUBSET Catalogue
  BY DEF Catalogue, Tenants, Seats
<1>2. Promise!Buy(items)
  BY DEF Promise!Buy, Over, Given, Gone, Lapsed
<1> QED
  BY <1>1, <1>2 DEF Promise!Next, Catalogue

(* The tenant row keeps what the promise is about.                         *)
LEMMA SameGiven ==
  ASSUME UNCHANGED tenant, odd \subseteq odd'
  PROVE  \/ Given' = Given
         \/ Given' = {} /\ Over'
<1>1. CASE Disturbed'
  BY <1>1 DEF Given, Over
<1>2. CASE ~Disturbed'
  <2>1. ~Disturbed
    BY <1>2 DEF Disturbed
  <2>2. tenant' = tenant
    OBVIOUS
  <2>3. Given = IF tenant.here /\ tenant.paid /\ tenant.plan # "guard"
                THEN Items(tenant.id, tenant.plan, tenant.seats) ELSE {}
    BY <2>1 DEF Given
  <2>4. Given' = IF tenant'.here /\ tenant'.paid /\ tenant'.plan # "guard"
                 THEN Items(tenant'.id, tenant'.plan, tenant'.seats) ELSE {}
    BY <1>2 DEF Given, Items
  <2> QED BY <2>2, <2>3, <2>4
<1> QED
  BY <1>1, <1>2

(* A step of Stripe that bills for a plan and seats of subscription s.     *)
LEMMA BillsPromise ==
  ASSUME IInv, NEW s \in Sub, Opened(s), NEW p \in PaidPlan, NEW n \in Seats,
         subs'[s].owner = subs[s].owner, subs'[s].plan = p, subs'[s].seats = n,
         Bills(s), UNCHANGED tenant, Disturbed' = Disturbed, Lapsed' = Lapsed
  PROVE  [Promise!Next]_(Promise!vars)
<1> DEFINE items == Items(subs[s].owner, p, n)
<1>1. subs[s].owner \in Tenants
  BY DEF IInv, SubsAreBilled
<1>2. billed' = billed \cup items
  BY DEF Bills
<1>3. Given' = Given /\ UNCHANGED Over
  BY DEF Given, Over, Gone, Items
<1> HIDE DEF items
<1>4. items = Items(subs[s].owner, p, n)
  BY DEF items
<1> QED
  BY <1>1, <1>2, <1>3, <1>4, SomethingBought

LEMMA StripePromise ==
  ASSUME Sizes, IInv, IInv', Stripe PROVE [Promise!Next]_(Promise!vars)
<1>1. subs \in [Sub -> [status : {"none", "open", "active", "unpaid", "ended"},
                       plan : PaidPlan, seats : Seats, owner : 0..MaxTenants]]
  BY DEF IInv, TypeOK, Seats
<1>2. odd \subseteq odd' /\ (Lapsed => Lapsed')
  BY LapsedStays DEF Next
<1>3. ASSUME NEW s \in Sub, Ends(s) \/ GoesUnpaid(s) PROVE [Promise!Next]_(Promise!vars)
  <2>1. UNCHANGED <<tenant, billed, odd>>
    BY <1>3 DEF Ends, GoesUnpaid
  <2>2. Over => Over'
    BY <1>2, <2>1 DEF Over, Disturbed, Gone
  <2> QED BY <2>1, <2>2, SameGiven, NothingBought
<1>4. ASSUME NEW s \in Sub, Pay(s) PROVE [Promise!Next]_(Promise!vars)
  <2>1. /\ subs[s].status = "open" /\ subs' = [subs EXCEPT ![s].status = "active"]
        /\ Bills(s) /\ UNCHANGED tenant
        /\ odd \subseteq odd' /\ odd' \subseteq odd \cup {"doubled", "late"}
    BY <1>4 DEF Pay
  <2>2. /\ subs'[s].owner = subs[s].owner /\ subs'[s].plan = subs[s].plan
        /\ subs'[s].seats = subs[s].seats /\ Opened(s)
        /\ subs[s].plan \in PaidPlan /\ subs[s].seats \in Seats
    BY <1>1, <2>1 DEF Opened
  <2>3. Disturbed' = Disturbed
    BY <2>1 DEF Disturbed
  <2>4. Lapsed' => Lapsed
    <3>1. \A r \in Sub : subs'[r].status \in {"unpaid", "ended"} => subs'[r] = subs[r]
      BY <1>1, <2>1
    <3> QED BY <2>1, <3>1 DEF Lapsed
  <2>5. Lapsed' = Lapsed
    BY <1>2, <2>4 DEF Lapsed
  <2> QED BY <2>1, <2>2, <2>3, <2>5, BillsPromise
<1>5. ASSUME NEW s \in Sub, Recovers(s) PROVE [Promise!Next]_(Promise!vars)
  <2>1. /\ subs[s].status = "unpaid" /\ subs' = [subs EXCEPT ![s].status = "active"]
        /\ Bills(s) /\ UNCHANGED tenant /\ "recovered" \in odd'
        /\ odd \subseteq odd' /\ odd' \subseteq odd \cup {"recovered", "doubled"}
    BY <1>5 DEF Recovers
  <2>2. /\ subs'[s].owner = subs[s].owner /\ subs'[s].plan = subs[s].plan
        /\ subs'[s].seats = subs[s].seats /\ Opened(s)
        /\ subs[s].plan \in PaidPlan /\ subs[s].seats \in Seats
    BY <1>1, <2>1 DEF Opened
  <2>3. Disturbed' = Disturbed
    BY <2>1 DEF Disturbed
  <2>4. Lapsed' = Lapsed
    BY <2>1 DEF Lapsed
  <2> QED BY <2>1, <2>2, <2>3, <2>4, BillsPromise
<1>6. ASSUME NEW s \in Sub, NEW p \in PaidPlan, NEW n \in Seats, PortalChange(s, p, n)
      PROVE  [Promise!Next]_(Promise!vars)
  <2>1. /\ subs[s].status = "active" /\ subs' = [subs EXCEPT ![s].plan = p, ![s].seats = n]
        /\ Bills(s) /\ UNCHANGED tenant
        /\ odd \subseteq odd' /\ odd' \subseteq odd \cup {"crossed"}
    BY <1>6 DEF PortalChange, Live
  <2>2. /\ subs'[s].owner = subs[s].owner /\ subs'[s].plan = p /\ subs'[s].seats = n
        /\ Opened(s) /\ \A r \in Sub : subs'[r].status = subs[r].status
    BY <1>1, <2>1 DEF Opened
  <2>3. Disturbed' = Disturbed /\ Lapsed' = Lapsed
    BY <2>1, <2>2 DEF Disturbed, Lapsed
  <2> QED BY <2>1, <2>2, <2>3, BillsPromise
<1> QED
  BY <1>3, <1>4, <1>5, <1>6 DEF Stripe, Seats

LEMMA ChargePromise ==
  ASSUME IInv, Charge PROVE [Promise!Next]_(Promise!vars)
<1> DEFINE s == owner.sub
           p == IF owner.kind = "plan" THEN owner.plan ELSE subs[s].plan
           n == IF owner.kind = "seats" THEN owner.seats ELSE subs[s].seats
<1>1. subs \in [Sub -> [status : {"none", "open", "active", "unpaid", "ended"},
                       plan : PaidPlan, seats : Seats, owner : 0..MaxTenants]]
  BY DEF IInv, TypeOK, Seats
<1>2. Opened(s) /\ s \in Sub /\ owner.plan \in PaidPlan /\ owner.seats \in Seats
  BY DEF Charge, IInv, RequestIsOwn, ShapeOK, Requests, Opened
<1>3. /\ subs' = [subs EXCEPT ![s].plan = p, ![s].seats = n]
      /\ Bills(s) /\ UNCHANGED <<tenant, odd>>
  BY DEF Charge
<1>4. p \in PaidPlan /\ n \in Seats
  BY <1>1, <1>2
<1> HIDE DEF s, p, n
<1>5. /\ subs'[s].owner = subs[s].owner /\ subs'[s].plan = p /\ subs'[s].seats = n
      /\ \A r \in Sub : subs'[r].status = subs[r].status
  BY <1>1, <1>2, <1>3
<1>6. Disturbed' = Disturbed /\ Lapsed' = Lapsed
  BY <1>3, <1>5 DEF Disturbed, Lapsed
<1> QED
  BY <1>2, <1>3, <1>4, <1>5, <1>6, BillsPromise

(* The other steps of the owner, and the lookup of the downgrade, leave    *)
(* the tenant row alone.                                                   *)
LEMMA AlonePromise ==
  ASSUME IInv', UNCHANGED <<tenant, billed>>, odd \subseteq odd', Lapsed => Lapsed'
  PROVE  [Promise!Next]_(Promise!vars)
<1>1. Over => Over'
  BY DEF Over, Disturbed, Gone
<1> QED
  BY <1>1, SameGiven, NothingBought

(* A row taken from Stripe gives what Stripe has billed for.               *)
LEMMA MirroredPromise ==
  ASSUME IInv, IInv', NEW s, NEW p, NEW n, Mirrored(s, p, n),
         tenant'.paid \/ tenant'.paid = tenant.paid,
         odd' \subseteq odd \cup {"raced", "overtaken", "retried"},
         Lapsed => Lapsed'
  PROVE  [Promise!Next]_(Promise!vars)
<1>1. UNCHANGED <<billed, subs>> /\ odd \subseteq odd'
      /\ tenant.here /\ tenant'.here /\ tenant'.id = tenant.id /\ tenant'.plan \in PaidPlan
  BY DEF Mirrored
<1>2. Over => Over'
  BY <1>1 DEF Over, Disturbed, Gone
<1>3. CASE Disturbed'
  <2>1. Given' = {} /\ Over'
    BY <1>3 DEF Given, Over
  <2> QED BY <1>1, <1>2, <2>1, NothingBought
<1>4. CASE ~Disturbed'
  <2>1. ~Disturbed
    BY <1>1, <1>4 DEF Disturbed
  <2>2. CASE tenant'.paid
    <3>1. Given' # {}
      BY <1>1, <1>4, <2>2 DEF Given, PaidPlan, Items
    <3>2. Over' => Over
      BY <1>1, <1>4 DEF Over, Gone, Lapsed
    <3> QED BY <1>1, <1>2, <3>1, <3>2, NothingBought
  <2>3. CASE ~tenant'.paid
    <3>1. Given = {} /\ Given' = {}
      BY <2>3 DEF Given
    <3> QED BY <1>1, <1>2, <3>1, NothingBought
  <2> QED BY <2>2, <2>3
<1> QED
  BY <1>3, <1>4

LEMMA RequestPromise ==
  ASSUME Sizes, IInv, IInv', Request PROVE [Promise!Next]_(Promise!vars)
<1>1. odd \subseteq odd' /\ (Lapsed => Lapsed')
  BY LapsedStays DEF Next
<1>2. CASE \/ \E s \in Sub, o \in Offer : Checkout(s, o[1], o[2])
           \/ \E p \in PaidPlan, n \in 0..MaxSeats, kind \in {"seats", "plan"} :
                 AskChange(kind, p, n)
           \/ Decline \/ Dies \/ AskDelete \/ CancelAtStripe \/ CannotCancel
  <2>1. UNCHANGED <<tenant, billed>>
    BY <1>2 DEF Checkout, AskChange, Decline, Dies, AskDelete, CancelAtStripe, CannotCancel
  <2> QED BY <1>1, <2>1, AlonePromise
<1>3. ASSUME NEW p \in PaidPlan \cup {"guard"}, PickPlan(p) PROVE [Promise!Next]_(Promise!vars)
  <2>1. /\ tenant' = [tenant EXCEPT !.plan = p] /\ tenant.sub = NoSub
        /\ UNCHANGED <<billed, odd>> /\ tenant \in Row
    BY <1>3 DEF PickPlan, IInv, TypeOK
  <2>2. tenant'.here = tenant.here /\ tenant'.id = tenant.id /\ tenant'.paid = tenant.paid
    BY <2>1 DEF Row
  <2>3. tenant.paid => Disturbed
    BY <2>1 DEF IInv, PaidIsBilled
  <2>4. Given' = {} /\ Given = {}
    BY <2>1, <2>2, <2>3 DEF Given, Disturbed
  <2>5. Over => Over'
    BY <1>1, <2>1, <2>2 DEF Over, Disturbed, Gone
  <2> QED BY <2>1, <2>4, <2>5, NothingBought
<1>4. ASSUME tenant.here, NEW s \in LiveOf(tenant.id), Adopt(s),
             UNCHANGED <<subs, hook, billed, ledger, trials>>
      PROVE  [Promise!Next]_(Promise!vars)
  <2>1. Mirrored(s, subs[s].plan, subs[s].seats) /\ tenant'.paid
    BY <1>4, AdoptMirrors
  <2>2. odd' \subseteq odd \cup {"raced", "overtaken", "retried"}
    BY <1>4 DEF Adopt
  <2> QED BY <1>1, <2>1, <2>2, MirroredPromise
<1>5. CASE AdoptAtCheckout
  BY <1>4, <1>5 DEF AdoptAtCheckout
<1>6. CASE Resolve
  <2>1. tenant.here /\ UNCHANGED <<subs, hook, billed, ledger, trials>>
    BY <1>6 DEF Resolve, IInv, RequestIsOwn
  <2>2. UNCHANGED tenant \/ \E s \in LiveOf(tenant.id) : Adopt(s)
    BY <1>6 DEF Resolve
  <2> QED BY <1>1, <1>4, <2>1, <2>2, AlonePromise
<1>7. CASE Charge
  BY <1>7, ChargePromise
<1>8. CASE Store
  <2>1. /\ UNCHANGED <<subs, billed>> /\ odd' \subseteq odd \cup {"crossed"}
    BY <1>8 DEF Store
  <2>2. /\ tenant.here /\ tenant'.here /\ tenant'.id = tenant.id
        /\ tenant'.paid = tenant.paid
    BY <1>8, StoreEffect
  <2>3. Disturbed' = Disturbed
    BY <1>1, <2>1 DEF Disturbed
  <2>4. (Over => Over') /\ (Over' => Over)
    BY <1>1, <2>1, <2>2, <2>3 DEF Over, Gone, Lapsed
  <2>5. CASE tenant'.paid /\ ~Disturbed'
    <3>1. tenant'.plan \in PaidPlan
      BY <2>5 DEF IInv, PaidIsBilled
    <3>2. Given' # {}
      BY <2>2, <2>5, <3>1 DEF Given, PaidPlan, Items
    <3> QED BY <2>1, <2>4, <3>2, NothingBought
  <2>6. CASE ~(tenant'.paid /\ ~Disturbed')
    <3>1. Given' = {} /\ Given = {}
      BY <2>2, <2>3, <2>6 DEF Given
    <3> QED BY <2>1, <2>4, <3>1, NothingBought
  <2> QED BY <2>5, <2>6
<1>9. CASE Erase
  <2>1. /\ tenant' = [NoTenant EXCEPT !.id = tenant.id] /\ UNCHANGED billed
        /\ tenant.here /\ tenant.id \in Tenants
    BY <1>9 DEF Erase, IInv, RequestIsOwn, ShapeOK
  <2>2. tenant'.here = FALSE /\ tenant'.id > 0
    BY <2>1 DEF NoTenant, Tenants
  <2>3. Given' = {} /\ Over'
    BY <2>2 DEF Given, Over, Gone
  <2> QED BY <2>1, <2>3, NothingBought
<1> QED
  BY <1>2, <1>3, <1>5, <1>6, <1>7, <1>8, <1>9 DEF Request

LEMMA HookPromise ==
  ASSUME Sizes, IInv, IInv', Deliver \/ Downgrade PROVE [Promise!Next]_(Promise!vars)
<1>1. odd \subseteq odd' /\ (Lapsed => Lapsed')
  BY LapsedStays DEF Next
<1>2. CASE AskStripe \/ StripeUnreachable
  <2>1. UNCHANGED <<tenant, billed>>
    BY <1>2 DEF AskStripe, StripeUnreachable
  <2> QED BY <1>1, <2>1, AlonePromise
<1>3. CASE WriteDowngrade
  <2>1. UNCHANGED <<subs, billed, odd>> /\ hook.pc = "write"
    BY <1>3 DEF WriteDowngrade
  <2>2. /\ tenant'.here = tenant.here /\ tenant'.id = tenant.id
        /\ Disturbed \/ UNCHANGED tenant \/ tenant'.paid = FALSE
    BY <1>3, DowngradeEffect
  <2>3. Lapsed /\ Lapsed'
    BY <1>1, <2>1 DEF IInv, HookIsCurrent
  <2>4. Over /\ Over'
    BY <2>3 DEF Over
  <2>5. CASE UNCHANGED tenant
    BY <1>1, <2>1, <2>5, AlonePromise
  <2>6. CASE Disturbed \/ tenant'.paid = FALSE
    <3>1. Given' = {}
      BY <2>1, <2>6 DEF Given, Disturbed
    <3> QED BY <2>1, <2>4, <3>1, NothingBought
  <2> QED BY <2>2, <2>5, <2>6
<1>4. ASSUME NEW i, HandleCompleted(i) \/ HandleUpdated(i) \/ StartDowngrade(i)
      PROVE  /\ i \in 1..Len(mail) /\ odd' \subseteq odd \cup {"raced", "overtaken", "retried"}
             /\ hook.pc # "idle" => Disturbed'
             /\ mail[i] \in Events /\ EventIsTrue(mail[i])
             /\ ledger' \in BOOLEAN /\ trials' \in Nat
  <2>1. Delivered(i) /\ mail \in Seq(Events)
    BY <1>4 DEF HandleCompleted, HandleUpdated, StartDowngrade, IInv, ShapeOK
  <2>2. /\ i \in 1..Len(mail) /\ odd' \subseteq odd \cup {"overtaken", "retried"}
        /\ hook.pc # "idle" => "overtaken" \in odd'
    BY <2>1, DeliveredKeeps
  <2> QED BY <2>1, <2>2, ElementOfSeq DEF IInv, MailIsTrue, Disturbed, TypeOK
<1>5. ASSUME NEW i, StartDowngrade(i) PROVE [Promise!Next]_(Promise!vars)
  <2>1. UNCHANGED <<tenant, billed>>
    BY <1>5 DEF StartDowngrade
  <2> QED BY <1>1, <2>1, AlonePromise
<1>6. ASSUME NEW i, NEW e, e = mail[i], HandleCompleted(i) \/ HandleUpdated(i),
             Concerns(e), ~UNCHANGED tenant
      PROVE  [Promise!Next]_(Promise!vars)
  <2>1. UNCHANGED <<subs, hook, billed>>
    BY <1>6 DEF HandleCompleted, HandleUpdated
  <2>2. /\ tenant.here /\ tenant.id = e.owner /\ Opened(e.sub) /\ e.sub \in Sub
        /\ subs[e.sub].owner = tenant.id /\ Items(tenant.id, e.plan, e.seats) \subseteq billed
        /\ e.plan \in PaidPlan /\ e.seats \in Seats
    <3>1. e.kind # "ended"
      BY <1>6 DEF HandleCompleted, HandleUpdated
    <3> QED BY <1>4, <1>6, <3>1 DEF Concerns, EventIsTrue, Events
  <2>3. /\ tenant' \in Row /\ tenant'.here /\ tenant'.id = tenant.id
        /\ tenant'.plan = e.plan /\ tenant'.seats = e.seats /\ tenant'.sub = e.sub
        /\ tenant'.paid \/ tenant'.paid = tenant.paid
    <3>1. tenant \in Row
      BY DEF IInv, TypeOK
    <3>2. CASE tenant' = Mirror(tenant, e)
      BY <2>2, <3>1, <3>2 DEF Mirror, Row, Seats, SubOrNone
    <3>3. CASE tenant' = [Mirror(tenant, e) EXCEPT
                            !.paid = TRUE,
                            !.trial = IF tenant.trial = "none" THEN "running" ELSE @]
      BY <2>2, <3>1, <3>3 DEF Mirror, Row, Seats, SubOrNone
    <3> QED BY <1>6, <3>2, <3>3 DEF HandleCompleted, HandleUpdated
  <2>4. Mirrored(e.sub, e.plan, e.seats)
    BY <1>1, <1>4, <1>6, <2>1, <2>2, <2>3 DEF Mirrored
  <2> QED BY <1>1, <1>4, <1>6, <2>3, <2>4, MirroredPromise
<1>7. ASSUME NEW i, HandleCompleted(i) \/ HandleUpdated(i)
      PROVE  [Promise!Next]_(Promise!vars)
  <2>1. UNCHANGED billed
    BY <1>7 DEF HandleCompleted, HandleUpdated
  <2>2. CASE UNCHANGED tenant
    BY <1>1, <2>1, <2>2, AlonePromise
  <2>3. CASE ~UNCHANGED tenant
    <3>1. Concerns(mail[i])
      BY <1>7, <2>3 DEF HandleCompleted, HandleUpdated
    <3> QED BY <1>6, <1>7, <2>3, <3>1
  <2> QED BY <2>2, <2>3
<1> QED
  BY <1>2, <1>3, <1>5, <1>7 DEF Deliver, Downgrade

LEMMA NextPromise ==
  Sizes /\ IInv /\ IInv' /\ [Next]_vars => [Promise!Next]_(Promise!vars)
<1> SUFFICES ASSUME Sizes, IInv, IInv', [Next]_vars PROVE [Promise!Next]_(Promise!vars)
  OBVIOUS
<1>1. CASE Register \/ TrialEnds
  <2>1. odd \subseteq odd' /\ (Lapsed => Lapsed') /\ UNCHANGED <<billed, odd>>
    BY <1>1, LapsedStays DEF Next, Register, TrialEnds
  <2>2. tenant \in Row
    BY DEF IInv, TypeOK
  <2>3. CASE Register
    <3>1. /\ tenant.here = FALSE /\ tenant'.here = TRUE /\ tenant'.paid = FALSE
          /\ tenant'.id = tenant.id + 1
      BY <2>2, <2>3 DEF Register, NoTenant, Row
    <3>2. Given = {} /\ Given' = {}
      BY <3>1 DEF Given
    <3>3. Over => Over'
      BY <2>1, <2>2, <3>1 DEF Over, Disturbed, Gone, Row
    <3> QED BY <2>1, <3>2, <3>3, NothingBought
  <2>4. CASE TrialEnds
    <3>1. /\ tenant'.here = tenant.here /\ tenant'.id = tenant.id
          /\ tenant'.paid = tenant.paid /\ tenant'.plan = tenant.plan
          /\ tenant'.seats = tenant.seats
      BY <2>2, <2>4 DEF TrialEnds, Row
    <3>2. Given' = Given
      BY <2>1, <3>1 DEF Given, Disturbed, Items
    <3>3. Over => Over'
      BY <2>1, <3>1 DEF Over, Disturbed, Gone
    <3> QED BY <2>1, <3>2, <3>3, NothingBought
  <2> QED BY <1>1, <2>3, <2>4
<1>2. CASE UNCHANGED vars
  <2>1. UNCHANGED <<tenant, subs, billed, odd>>
    BY <1>2 DEF vars
  <2> QED BY <2>1, AlonePromise DEF Lapsed
<1> QED
  BY <1>1, <1>2, RequestPromise, StripePromise, HookPromise DEF Next

-----------------------------------------------------------------------------
(* Deletion                                                                *)

(* Unless something was paid late or never recorded: a workspace being     *)
(* deleted is billed on its recorded subscription alone until that one is  *)
(* cancelled, and then on none.                                            *)
DeletionClears ==
    /\ owner.pc \in {"cancel", "erase"} => owner.kind = "delete"
    /\ \A s \in Sub : Opened(s) => subs[s].owner <= tenant.id
    /\ odd \cap {"late", "unrecorded"} = {} =>
          \A s \in Sub : Billable(s) /\ subs[s].owner = tenant.id =>
              /\ owner.pc = "cancel" => s = owner.sub
              /\ owner.pc # "erase" /\ tenant.here

(* Where nothing new is billed and the workspace stays.                    *)
LEMMA ClearsKept ==
  ASSUME IInv, DeletionClears, odd \subseteq odd',
         tenant'.id = tenant.id, tenant'.here = tenant.here,
         \A s \in Sub : /\ subs'[s].owner = subs[s].owner
                        /\ Opened(s)' => Opened(s)
                        /\ Billable(s)' => Billable(s),
         \/ UNCHANGED owner
         \/ owner'.pc \notin {"cancel", "erase"} /\ tenant.here
  PROVE  DeletionClears'
<1>1. odd' \cap {"late", "unrecorded"} = {} => odd \cap {"late", "unrecorded"} = {}
  OBVIOUS
<1>2. ASSUME NEW s \in Sub, Opened(s)' PROVE subs'[s].owner <= tenant'.id
  <2>1. Opened(s) /\ subs'[s].owner = subs[s].owner
    BY <1>2 DEF Opened
  <2>2. subs[s].owner <= tenant.id
    BY <2>1 DEF DeletionClears
  <2> QED BY <2>1, <2>2
<1>3. owner'.pc \in {"cancel", "erase"} => owner'.kind = "delete"
  BY DEF DeletionClears
<1>4. ASSUME odd' \cap {"late", "unrecorded"} = {},
             NEW s \in Sub, Billable(s)', subs'[s].owner = tenant'.id
      PROVE  /\ owner'.pc = "cancel" => s = owner'.sub
             /\ owner'.pc # "erase" /\ tenant'.here
  <2>1. Billable(s) /\ subs[s].owner = tenant.id
    BY <1>4 DEF Billable
  <2>2. /\ owner.pc = "cancel" => s = owner.sub
        /\ owner.pc # "erase" /\ tenant.here
    BY <1>1, <1>4, <2>1 DEF DeletionClears
  <2> QED BY <2>2
<1> QED
  BY <1>2, <1>3, <1>4 DEF DeletionClears, Billable

LEMMA DeletionStep ==
  Sizes /\ IInv /\ DeletionClears /\ [Next]_vars => DeletionClears'
<1> SUFFICES ASSUME Sizes, IInv, DeletionClears, [Next]_vars PROVE DeletionClears'
  OBVIOUS
<1>1. /\ subs \in [Sub -> [status : {"none", "open", "active", "unpaid", "ended"},
                          plan : PaidPlan, seats : Seats, owner : 0..MaxTenants]]
      /\ tenant \in Row /\ owner \in Requests /\ (owner.pc # "idle" => tenant.here)
  BY DEF IInv, TypeOK, ShapeOK, Seats, RequestIsOwn
<1>2. ASSUME UNCHANGED <<subs, owner>>, odd \subseteq odd', tenant'.id = tenant.id,
             tenant'.here = tenant.here
      PROVE  DeletionClears'
  BY <1>2, ClearsKept DEF Opened, Billable
<1>3. CASE Register
  <2>1. /\ tenant'.id = tenant.id + 1 /\ tenant'.here /\ UNCHANGED <<subs, owner, odd>>
        /\ owner = Idle
    BY <1>3 DEF Register, NoTenant
  <2>2. \A s \in Sub : Opened(s) => subs[s].owner <= tenant.id + 1 /\ subs[s].owner # tenant.id + 1
    BY <1>1 DEF DeletionClears, Row
  <2> QED BY <2>1, <2>2 DEF DeletionClears, Opened, Billable, Idle
<1>4. CASE TrialEnds \/ \E p \in PaidPlan \cup {"guard"} : PickPlan(p)
  <2>1. /\ UNCHANGED <<subs, owner, odd>> /\ tenant'.id = tenant.id
        /\ tenant'.here = tenant.here
    BY <1>1, <1>4 DEF TrialEnds, PickPlan, Row
  <2> QED BY <1>2, <2>1
<1>5. ASSUME NEW s \in Sub, NEW o \in Offer, Checkout(s, o[1], o[2]) PROVE DeletionClears'
  <2>1. /\ subs' = [subs EXCEPT ![s] = [status |-> "open", plan |-> o[1], seats |-> o[2],
                                        owner |-> tenant.id]]
        /\ UNCHANGED <<tenant, owner, odd>> /\ owner = Idle /\ tenant.here
    BY <1>5 DEF Checkout
  <2>2. /\ subs'[s].status = "open" /\ subs'[s].owner = tenant.id
        /\ \A r \in Sub : r # s => subs'[r] = subs[r]
    BY <1>1, <2>1
  <2>3. \A r \in Sub : Opened(r)' => subs'[r].owner <= tenant'.id
    <3>1. tenant.id <= tenant.id
      BY <1>1 DEF Row
    <3> QED BY <2>1, <2>2, <3>1 DEF DeletionClears, Opened
  <2> QED BY <2>1, <2>3 DEF DeletionClears, Idle
<1>6. ASSUME NEW s \in Sub, Ends(s) \/ GoesUnpaid(s) \/ Recovers(s) PROVE DeletionClears'
  <2>1. /\ UNCHANGED <<tenant, owner>> /\ odd \subseteq odd'
        /\ \A r \in Sub : r # s => subs'[r] = subs[r]
        /\ subs'[s].owner = subs[s].owner /\ Billable(s) /\ Opened(s)
    BY <1>1, <1>6 DEF Ends, GoesUnpaid, Recovers, Billable, Live, Opened
  <2> QED BY <2>1, ClearsKept DEF Opened, Billable
<1>7. ASSUME NEW s \in Sub, Pay(s) PROVE DeletionClears'
  <2>1. /\ UNCHANGED <<tenant, owner>> /\ odd \subseteq odd' /\ Opened(s)
        /\ \A r \in Sub : r # s => subs'[r] = subs[r]
        /\ subs'[s].owner = subs[s].owner
        /\ \/ "late" \in odd'
           \/ tenant.here /\ tenant.id = subs[s].owner /\ owner.kind # "delete"
    BY <1>1, <1>7 DEF Pay, Opened
  <2>2. \A r \in Sub : Opened(r)' => Opened(r) /\ subs'[r].owner = subs[r].owner
    BY <2>1 DEF Opened
  <2>3. CASE "late" \in odd'
    BY <2>1, <2>2, <2>3 DEF DeletionClears
  <2>4. CASE tenant.here /\ owner.kind # "delete"
    BY <2>1, <2>2, <2>4 DEF DeletionClears
  <2> QED BY <2>1, <2>3, <2>4
<1>8. ASSUME NEW s \in Sub, NEW p \in PaidPlan, NEW n \in 0..MaxSeats, PortalChange(s, p, n)
      PROVE  DeletionClears'
  <2>1. /\ UNCHANGED <<tenant, owner>> /\ odd \subseteq odd'
        /\ \A r \in Sub : subs'[r].status = subs[r].status /\ subs'[r].owner = subs[r].owner
    BY <1>1, <1>8 DEF PortalChange
  <2> QED BY <2>1, ClearsKept DEF Opened, Billable
<1>9. CASE Deliver \/ WriteDowngrade
  <2>1. UNCHANGED <<subs, owner>>
    BY <1>9 DEF Deliver, HandleCompleted, HandleUpdated, StartDowngrade, WriteDowngrade
  <2>2. odd \subseteq odd'
    BY <1>9, LapsedStays DEF Next, Downgrade
  <2>3. tenant'.id = tenant.id /\ tenant'.here = tenant.here
    <3>1. CASE WriteDowngrade
      BY <3>1, DowngradeEffect
    <3>2. ASSUME NEW i, HandleCompleted(i) \/ HandleUpdated(i) \/ StartDowngrade(i)
          PROVE  tenant'.id = tenant.id /\ tenant'.here = tenant.here
      BY <1>1, <3>2 DEF HandleCompleted, HandleUpdated, StartDowngrade, Mirror, Row
    <3> QED BY <1>9, <3>1, <3>2 DEF Deliver
  <2> QED BY <1>2, <2>1, <2>2, <2>3
<1>10. CASE AskStripe \/ StripeUnreachable
  BY <1>2, <1>10 DEF AskStripe, StripeUnreachable
<1>11. CASE \/ \E p \in PaidPlan, n \in 0..MaxSeats, kind \in {"seats", "plan"} :
                  AskChange(kind, p, n)
            \/ Decline \/ Dies \/ CannotCancel
  <2>1. /\ UNCHANGED <<tenant, subs>> /\ odd \subseteq odd' /\ tenant.here
        /\ owner'.pc \notin {"cancel", "erase"}
    BY <1>1, <1>11 DEF AskChange, Decline, Dies, CannotCancel, Idle
  <2> QED BY <2>1, ClearsKept DEF Opened, Billable
<1>12. CASE AdoptAtCheckout \/ Resolve
  <2>0. ASSUME NEW s, Adopt(s)
        PROVE  /\ odd \subseteq odd' /\ tenant'.id = tenant.id /\ tenant'.here = tenant.here
    BY <1>1, <2>0 DEF Adopt, Mirror, Event, Row
  <2>1. /\ UNCHANGED subs /\ odd \subseteq odd' /\ tenant.here
        /\ tenant'.id = tenant.id /\ tenant'.here = tenant.here
        /\ UNCHANGED owner \/ owner'.pc \notin {"cancel", "erase"}
    <3>1. CASE AdoptAtCheckout
      BY <2>0, <3>1 DEF AdoptAtCheckout
    <3>2. CASE Resolve
      <4>1. owner'.pc \notin {"cancel", "erase"}
        <5>1. \/ owner' = [owner EXCEPT !.pc = "charge"] \/ owner' = Idle
              \/ \E s \in Sub : owner' = [owner EXCEPT !.pc = "charge", !.sub = s]
          BY <3>2 DEF Resolve, LiveOf
        <5>2. ASSUME NEW s, owner' = [owner EXCEPT !.pc = "charge", !.sub = s]
              PROVE  owner'.pc = "charge"
          BY <1>1, <5>2 DEF Requests
        <5>3. CASE owner' = [owner EXCEPT !.pc = "charge"]
          BY <1>1, <5>3 DEF Requests
        <5>4. CASE owner' = Idle
          BY <5>4 DEF Idle
        <5> QED BY <5>1, <5>2, <5>3, <5>4
      <4>2. UNCHANGED <<tenant, odd>> \/ \E s \in Sub : Adopt(s)
        BY <3>2 DEF Resolve, LiveOf
      <4> QED BY <1>1, <2>0, <3>2, <4>1, <4>2 DEF Resolve
    <3> QED BY <1>12, <3>1, <3>2
  <2> QED BY <2>1, ClearsKept DEF Opened, Billable
<1>13. CASE Charge
  <2>1. owner.sub \in Sub
    BY <1>13 DEF Charge, IInv, RequestIsOwn, Opened
  <2>2. /\ UNCHANGED <<tenant, odd>> /\ tenant.here /\ owner'.pc = "store"
        /\ \A r \in Sub : subs'[r].status = subs[r].status /\ subs'[r].owner = subs[r].owner
    BY <1>1, <1>13, <2>1 DEF Charge, Requests
  <2> QED BY <2>2, ClearsKept DEF Opened, Billable
<1>14. CASE Store
  <2>1. /\ UNCHANGED subs /\ odd \subseteq odd' /\ owner'.pc = "idle"
    BY <1>14 DEF Store, Idle
  <2>2. tenant.here /\ tenant'.id = tenant.id /\ tenant'.here = tenant.here
    BY <1>1, <1>14, StoreEffect DEF Store, Changed, Row
  <2> QED BY <2>1, <2>2, ClearsKept DEF Opened, Billable
<1>15. CASE AskDelete
  <2>1. /\ owner' = [Idle EXCEPT !.pc = "cancel", !.kind = "delete", !.sub = tenant.sub]
        /\ tenant.here /\ UNCHANGED <<tenant, subs>> /\ odd \subseteq odd'
        /\ \/ "unrecorded" \in odd'
           \/ \A s \in Sub \ {tenant.sub} : ~(Billable(s) /\ subs[s].owner = tenant.id)
    BY <1>15 DEF AskDelete
  <2>2. owner'.pc = "cancel" /\ owner'.kind = "delete" /\ owner'.sub = tenant.sub
    BY <2>1 DEF Idle
  <2> QED BY <2>1, <2>2 DEF DeletionClears, Opened, Billable
<1>16. CASE CancelAtStripe
  <2>1. /\ owner.pc = "cancel" /\ owner'.pc = "erase" /\ owner'.kind = owner.kind
        /\ UNCHANGED <<tenant, odd>>
    BY <1>1, <1>16 DEF CancelAtStripe, Requests
  <2>2. CASE MustCancel
    <3>1. owner.sub \in Sub
      BY <1>1, <2>2 DEF MustCancel, Requests, SubOrNone
    <3>2. /\ subs'[owner.sub].status = "ended" /\ subs'[owner.sub].owner = subs[owner.sub].owner
          /\ \A r \in Sub : r # owner.sub => subs'[r] = subs[r]
          /\ Opened(owner.sub)
      BY <1>1, <1>16, <2>2, <3>1 DEF CancelAtStripe, MustCancel, Billable, Opened
    <3> QED BY <2>1, <3>2 DEF DeletionClears, Opened, Billable
  <2>3. CASE ~MustCancel
    <3>1. UNCHANGED subs
      BY <1>16, <2>3 DEF CancelAtStripe
    <3>2. \A s \in Sub : s = owner.sub => ~Billable(s)
      BY <2>3 DEF MustCancel, Sub, NoSub
    <3> QED BY <2>1, <3>1, <3>2 DEF DeletionClears, Opened, Billable
  <2> QED BY <2>2, <2>3
<1>17. CASE Erase
  <2>1. /\ owner.pc = "erase" /\ owner' = Idle /\ UNCHANGED <<subs, odd>>
        /\ tenant'.id = tenant.id /\ tenant'.here = FALSE
    BY <1>17 DEF Erase, NoTenant
  <2> QED BY <2>1 DEF DeletionClears, Opened, Billable, Idle
<1>18. CASE UNCHANGED vars
  BY <1>2, <1>18 DEF vars
<1> QED
  BY <1>3, <1>4, <1>5, <1>6, <1>7, <1>8, <1>9, <1>10, <1>11, <1>12, <1>13, <1>14, <1>15,
     <1>16, <1>17, <1>18 DEF Next, Request, Stripe, Downgrade

(* A subscription that collects nothing any more. *)
Stopped(s) == subs[s].status \in {"unpaid", "ended"}

-----------------------------------------------------------------------------
(* What Stripe sends and the webhook takes                                 *)

(* mail' adds to the events on their way those of kinds about s.           *)
Sent(kinds, s) ==
    /\ Len(mail) \in Nat /\ Len(mail') = Len(mail) + Len(kinds)
    /\ \A j \in 1..Len(mail) : mail'[j] = mail[j]
    /\ \A j \in 1..Len(kinds) :
          mail'[Len(mail) + j] = [kind |-> kinds[j], sub |-> s, plan |-> subs'[s].plan,
                                  seats |-> subs'[s].seats, owner |-> subs'[s].owner]

LEMMA SaysSends ==
  ASSUME IInv, IInv', NEW s \in Sub, NEW kinds, Says(kinds, s),
         kinds \in {<<"updated">>, <<"ended">>, <<"updated", "completed">>}
  PROVE  Sent(kinds, s)
<1> DEFINE e(k) == [kind |-> k, sub |-> s, plan |-> subs'[s].plan,
                    seats |-> subs'[s].seats, owner |-> subs'[s].owner]
           b == [i \in 1..Len(kinds) |-> e(kinds[i])]
<1>0. mail \in Seq(Events) /\ kinds \in Seq(Kinds)
  <2>1. \A k, l \in Kinds : <<k>> \in Seq(Kinds) /\ <<k, l>> \in Seq(Kinds)
    OBVIOUS
  <2>2. {"updated", "ended", "completed"} \subseteq Kinds
    BY DEF Kinds
  <2> QED BY <2>1, <2>2 DEF IInv, ShapeOK
<1>1. Len(kinds) \in Nat /\ Len(mail) \in Nat /\ \A i \in 1..Len(kinds) : kinds[i] \in Kinds
  BY <1>0, ElementOfSeq, LenProperties
<1>2. \A k \in Kinds : e(k) \in Events
  <2>1. subs'[s].plan \in PaidPlan /\ subs'[s].seats \in Seats /\ subs'[s].owner \in Nat
    BY DEF IInv, TypeOK, Seats
  <2> QED BY <2>1 DEF Events
<1>3. b \in Seq(Events) /\ Len(b) = Len(kinds) /\ \A i \in 1..Len(kinds) : b[i] = e(kinds[i])
  <2>1. b \in [1..Len(kinds) -> Events]
    BY <1>1, <1>2
  <2> QED BY <1>1, <2>1
<1>4. mail' = mail \o b
  BY DEF Says
<1> HIDE DEF b
<1>5. /\ Len(mail') = Len(mail) + Len(b)
      /\ \A j \in 1..Len(mail) + Len(b) :
            mail'[j] = IF j <= Len(mail) THEN mail[j] ELSE b[j - Len(mail)]
  <2>1. mail \in Seq(Events) /\ b \in Seq(Events)
    BY <1>0, <1>3
  <2> QED BY <2>1, <1>4, ConcatProperties, Zenon
<1>6. ASSUME NEW j \in 1..Len(kinds) PROVE mail'[Len(mail) + j] = b[j]
  <2>1. /\ Len(mail) + j \in 1..Len(mail) + Len(b) /\ ~(Len(mail) + j <= Len(mail))
        /\ (Len(mail) + j) - Len(mail) = j
    BY <1>1, <1>3
  <2> QED BY <1>5, <2>1
<1>7. ASSUME NEW j \in 1..Len(mail) PROVE mail'[j] = mail[j]
  BY <1>1, <1>3, <1>5
<1> QED
  BY <1>1, <1>3, <1>5, <1>6, <1>7 DEF Sent

(* Stripe's record of s changes, in step with the events it sends.         *)
Restates(s, kinds) ==
    /\ Opened(s) /\ Sent(kinds, s)
    /\ \A r \in Sub : r # s => subs'[r] = subs[r]
    /\ subs'[s].owner = subs[s].owner
    /\ UNCHANGED <<tenant, hook>>

LEMMA SubsTyped ==
  IInv => subs \in [Sub -> [status : {"none", "open", "active", "unpaid", "ended"},
                           plan : PaidPlan, seats : Seats, owner : 0..MaxTenants]]
BY DEF IInv, TypeOK, Seats

LEMMA PayRestates ==
  ASSUME IInv, IInv', NEW s \in Sub, Pay(s)
  PROVE  /\ Restates(s, <<"updated", "completed">>)
         /\ subs[s].status = "open" /\ subs'[s].status = "active"
         /\ subs'[s].plan = subs[s].plan /\ subs'[s].seats = subs[s].seats
         /\ UNCHANGED owner
         /\ LiveOf(subs[s].owner) # {} => "doubled" \in odd'
<1>1. Sent(<<"updated", "completed">>, s)
  BY SaysSends DEF Pay
<1>2. /\ \A r \in Sub : r # s => subs'[r] = subs[r]
      /\ subs'[s] = [subs[s] EXCEPT !.status = "active"]
  BY SubsTyped DEF Pay
<1> QED
  BY <1>1, <1>2, SubsTyped DEF Pay, Restates, Opened

LEMMA EndRestates ==
  ASSUME IInv, IInv', NEW s \in Sub,
         Ends(s) \/ GoesUnpaid(s) \/ (CancelAtStripe /\ MustCancel /\ s = owner.sub)
  PROVE  /\ Restates(s, <<"ended">>)
         /\ Billable(s) /\ Stopped(s)'
         /\ subs'[s].plan = subs[s].plan /\ subs'[s].seats = subs[s].seats
         /\ UNCHANGED odd
         /\ owner'.pc = "store" => UNCHANGED owner
<1>1. Says(<<"ended">>, s) /\ UNCHANGED <<tenant, hook, odd>> /\ Billable(s)
  BY DEF Ends, GoesUnpaid, CancelAtStripe, MustCancel, Kind, Billable, Live
<1>2. Sent(<<"ended">>, s)
  BY <1>1, SaysSends
<1>3. \/ subs' = [subs EXCEPT ![s].status = "ended"]
      \/ subs' = [subs EXCEPT ![s].status = "unpaid"]
  BY DEF Ends, GoesUnpaid, CancelAtStripe
<1>4. /\ \A r \in Sub : r # s => subs'[r] = subs[r]
      /\ \/ subs'[s] = [subs[s] EXCEPT !.status = "ended"]
         \/ subs'[s] = [subs[s] EXCEPT !.status = "unpaid"]
  BY <1>3, SubsTyped
<1>5. /\ subs'[s].plan = subs[s].plan /\ subs'[s].seats = subs[s].seats
      /\ subs'[s].owner = subs[s].owner /\ subs'[s].status \in {"unpaid", "ended"}
  BY <1>4, SubsTyped
<1>6. owner'.pc = "store" => UNCHANGED owner
  <2>1. CASE CancelAtStripe
    <3>1. owner' = [owner EXCEPT !.pc = "erase"] /\ owner \in Requests
      BY <2>1 DEF CancelAtStripe, IInv, ShapeOK
    <3> QED BY <3>1 DEF Requests
  <2> QED BY <2>1 DEF Ends, GoesUnpaid
<1> QED
  BY <1>1, <1>2, <1>4, <1>5, <1>6 DEF Restates, Opened, Billable, Stopped

LEMMA UpdateRestates ==
  ASSUME IInv, IInv', NEW s \in Sub,
         \/ Recovers(s)
         \/ \E p \in PaidPlan, n \in Seats : PortalChange(s, p, n)
         \/ Charge /\ s = owner.sub
  PROVE  /\ Restates(s, <<"updated">>)
         /\ odd \subseteq odd'
         /\ subs'[s].status = subs[s].status \/ "recovered" \in odd'
         /\ Billable(s)
<1>1. Says(<<"updated">>, s) /\ UNCHANGED <<tenant, hook>> /\ Billable(s) /\ odd \subseteq odd'
  BY DEF Recovers, PortalChange, Charge, Billable, Live
<1>2. Sent(<<"updated">>, s)
  BY <1>1, SaysSends
<1>3. CASE Recovers(s)
  <2>1. /\ \A r \in Sub : r # s => subs'[r] = subs[r]
        /\ subs'[s].owner = subs[s].owner /\ "recovered" \in odd'
    BY <1>3, SubsTyped DEF Recovers
  <2> QED BY <1>1, <1>2, <2>1 DEF Restates, Opened, Billable
<1>4. ASSUME NEW p, NEW n, subs' = [subs EXCEPT ![s].plan = p, ![s].seats = n]
      PROVE  /\ \A r \in Sub : r # s => subs'[r] = subs[r]
             /\ subs'[s].owner = subs[s].owner /\ subs'[s].status = subs[s].status
  BY <1>4, SubsTyped
<1>5. CASE \E p, n : subs' = [subs EXCEPT ![s].plan = p, ![s].seats = n]
  BY <1>1, <1>2, <1>4, <1>5 DEF Restates, Opened, Billable
<1> QED
  <2>1. CASE \E p \in PaidPlan, n \in Seats : PortalChange(s, p, n)
    BY <1>5, <2>1 DEF PortalChange
  <2>2. CASE Charge /\ s = owner.sub
    BY <1>5, <2>2 DEF Charge
  <2> QED BY <1>3, <2>1, <2>2

(* In turn, the first event goes and the others move up.                   *)
FirstGone ==
    /\ Len(mail) \in Nat /\ Len(mail) >= 1 /\ Len(mail') = Len(mail) - 1
    /\ \A j \in 1..Len(mail') : mail'[j] = mail[j + 1]

LEMMA RemoveFirst ==
  ASSUME mail \in Seq(Events), 1 \in 1..Len(mail)
  PROVE  /\ Remove(1) \in Seq(Events) /\ Len(Remove(1)) = Len(mail) - 1
         /\ \A j \in 1..Len(mail) - 1 : Remove(1)[j] = mail[j + 1]
<1> DEFINE b == SubSeq(mail, 1 + 1, Len(mail))
<1>0. Len(mail) \in Nat /\ \A k \in 1..Len(mail) : mail[k] \in Events
  BY ElementOfSeq, LenProperties
<1>1. SubSeq(mail, 1, 1 - 1) = <<>>
  OBVIOUS
<1>2. /\ b \in Seq(Events) /\ Len(b) = Len(mail) - 1
      /\ \A j \in 1..(Len(mail) - 1) : b[j] = mail[j + 1]
  <2>1. \A j \in (1 + 1)..Len(mail) : mail[j] \in Events
    BY <1>0
  <2>2. /\ b \in Seq(Events)
        /\ Len(b) = IF 1 + 1 <= Len(mail) THEN Len(mail) - (1 + 1) + 1 ELSE 0
        /\ \A j \in 1..(Len(mail) - (1 + 1) + 1) : b[j] = mail[(1 + 1) + j - 1]
    BY <1>0, <2>1, SubSeqProperties
  <2>3. /\ (IF 1 + 1 <= Len(mail) THEN Len(mail) - (1 + 1) + 1 ELSE 0) = Len(mail) - 1
        /\ Len(mail) - (1 + 1) + 1 = Len(mail) - 1
        /\ \A j \in 1..(Len(mail) - 1) : (1 + 1) + j - 1 = j + 1
    <3>1. Len(mail) \in Nat /\ Len(mail) >= 1
      BY <1>0
    <3>2. \A m \in Nat : m >= 1 =>
            /\ (IF 1 + 1 <= m THEN m - (1 + 1) + 1 ELSE 0) = m - 1
            /\ m - (1 + 1) + 1 = m - 1
            /\ \A j \in 1..(m - 1) : (1 + 1) + j - 1 = j + 1
      OBVIOUS
    <3> QED BY <3>1, <3>2, Zenon
  <2> HIDE DEF b
  <2> QED BY <2>2, <2>3
<1> HIDE DEF b
<1>3. <<>> \o b = b
  BY <1>2
<1>4. Remove(1) = b
  BY <1>1, <1>3 DEF Remove, b
<1> QED
  BY <1>2, <1>4

LEMMA InTurn ==
  ASSUME IInv, NEW i, Delivered(i), "overtaken" \notin odd'
  PROVE  /\ i = 1 /\ hook.pc = "idle" /\ Len(mail) \in Nat /\ Len(mail) >= 1
         /\ FirstGone \/ (mail' = Append(Remove(1), mail[1]) /\ "retried" \in odd')
<1>1. i \in 1..Len(mail) /\ mail \in Seq(Events) /\ Len(mail) \in Nat
  BY LenProperties DEF Delivered, IInv, ShapeOK
<1>2. ~(i > 1 \/ hook.pc # "idle")
  BY DEF Delivered
<1>3. i = 1 /\ hook.pc = "idle"
  BY <1>1, <1>2
<1>4. mail' = Remove(1) \/ (mail' = Append(Remove(1), mail[1]) /\ "retried" \in odd')
  <2>1. mail' = Remove(i) \/ (mail' = Append(Remove(i), mail[i]) /\ "retried" \in odd')
    BY <1>2 DEF Delivered
  <2> QED BY <1>3, <2>1
<1> QED
  BY <1>1, <1>3, <1>4, RemoveFirst DEF FirstGone

(* In turn or again, every event but the first is still to come.           *)
LEMMA OthersStay ==
  ASSUME IInv, NEW i, Delivered(i), "overtaken" \notin odd'
  PROVE  /\ \A k \in 2..Len(mail) : k - 1 \in 1..Len(mail') /\ mail'[k - 1] = mail[k]
         /\ \A j \in 1..Len(mail') : \E k \in 1..Len(mail) : mail'[j] = mail[k]
<1>0. \A j \in 1..Len(mail') : \E k \in 1..Len(mail) : mail'[j] = mail[k]
  BY DeliveredKeeps DEF MailFrom, IInv, ShapeOK
<1>1. /\ i = 1 /\ Len(mail) \in Nat /\ Len(mail) >= 1 /\ mail \in Seq(Events)
      /\ FirstGone \/ mail' = Append(Remove(1), mail[1])
  BY InTurn DEF IInv, ShapeOK
<1>2. CASE FirstGone
  <2>1. ASSUME NEW k \in 2..Len(mail) PROVE k - 1 \in 1..Len(mail') /\ mail'[k - 1] = mail[k]
    <3>1. k - 1 \in 1..Len(mail') /\ (k - 1) + 1 = k
      BY <1>1, <1>2 DEF FirstGone
    <3> QED BY <1>2, <3>1 DEF FirstGone
  <2> QED BY <1>0, <2>1
<1>3. CASE mail' = Append(Remove(1), mail[1])
  <2>1. mail[1] \in Events /\ 1 \in 1..Len(mail)
    BY <1>1, ElementOfSeq
  <2>2. /\ Remove(1) \in Seq(Events) /\ Len(Remove(1)) = Len(mail) - 1
        /\ \A j \in 1..Len(mail) - 1 : Remove(1)[j] = mail[j + 1]
    BY <1>1, <2>1, RemoveFirst
  <2>3. /\ Len(mail') = Len(Remove(1)) + 1
        /\ \A j \in 1..Len(Remove(1)) : mail'[j] = Remove(1)[j]
    BY <1>3, <2>1, <2>2, AppendProperties
  <2>4. ASSUME NEW k \in 2..Len(mail) PROVE k - 1 \in 1..Len(mail') /\ mail'[k - 1] = mail[k]
    <3>1. k - 1 \in 1..Len(mail') /\ (k - 1) + 1 = k /\ k - 1 \in 1..Len(mail) - 1
      BY <1>1, <2>2, <2>3
    <3> QED BY <2>2, <2>3, <3>1
  <2> QED BY <1>0, <2>4
<1> QED
  BY <1>1, <1>2, <1>3

-----------------------------------------------------------------------------
(* The grant                                                               *)

Speaks(e) == e.kind # "ended"

(* The last event of a subscription that is on its way says what it is.    *)
LastSays ==
    \A i \in 1..Len(mail) :
        Speaks(mail[i]) /\ (\A k \in i + 1..Len(mail) : Speaks(mail[k]) => mail[k].sub # mail[i].sub)
        => /\ mail[i].plan = subs[mail[i].sub].plan
           /\ mail[i].seats = subs[mail[i].sub].seats

(* A workspace has what its subscription is billed for, or will be told.   *)
TenantTold ==
    tenant.sub # NoSub =>
        \/ \E i \in 1..Len(mail) : Speaks(mail[i]) /\ mail[i].sub = tenant.sub
        \/ tenant.plan = subs[tenant.sub].plan /\ tenant.seats = subs[tenant.sub].seats

(* What a request stores is what Stripe was charged for last.              *)
StoreCharged ==
    owner.pc = "store" =>
        /\ owner.kind = "plan" => subs[owner.sub].plan = owner.plan
        /\ owner.kind = "seats" => subs[owner.sub].seats = owner.seats

Grant ==
    odd \cap {"overtaken", "raced", "crossed", "retried"} = {} =>
        LastSays /\ TenantTold /\ StoreCharged

LEMMA GrantRestates ==
  ASSUME IInv, IInv', LastSays, TenantTold, NEW s \in Sub,
         NEW kinds \in {<<"updated">>, <<"ended">>, <<"updated", "completed">>},
         Restates(s, kinds),
         kinds = <<"ended">> => subs'[s].plan = subs[s].plan /\ subs'[s].seats = subs[s].seats
  PROVE  LastSays' /\ TenantTold'
<1> DEFINE n == Len(mail)
<1>1. /\ n \in Nat /\ Len(mail') = n + Len(kinds) /\ Len(kinds) \in Nat
      /\ \A j \in 1..n : mail'[j] = mail[j]
      /\ \A j \in 1..Len(kinds) :
            mail'[n + j] = [kind |-> kinds[j], sub |-> s, plan |-> subs'[s].plan,
                            seats |-> subs'[s].seats, owner |-> subs'[s].owner]
  BY DEF Restates, Sent
<1>2. /\ \A r \in Sub : r # s => subs'[r] = subs[r]
      /\ UNCHANGED tenant
  BY DEF Restates
<1>3. \A i \in 1..n : mail[i].sub \in Sub
  BY DEF IInv, MailIsTrue, EventIsTrue, Opened
<1>4. CASE kinds = <<"ended">>
  <2>1. \A r \in Sub : subs'[r].plan = subs[r].plan /\ subs'[r].seats = subs[r].seats
    BY <1>2, <1>4
  <2>2. Len(mail') = n + 1 /\ ~Speaks(mail'[n + 1])
    <3>1. Len(kinds) = 1 /\ kinds[1] = "ended" /\ 1 \in 1..Len(kinds)
      BY <1>4
    <3>2. mail'[n + 1].kind = "ended"
      BY <1>1, <3>1
    <3> QED BY <1>1, <3>1, <3>2 DEF Speaks
  <2>3. ASSUME NEW i \in 1..Len(mail'), Speaks(mail'[i]),
               \A k \in i + 1..Len(mail') : Speaks(mail'[k]) => mail'[k].sub # mail'[i].sub
        PROVE  /\ mail'[i].plan = subs'[mail'[i].sub].plan
               /\ mail'[i].seats = subs'[mail'[i].sub].seats
    <3>1. i \in 1..n /\ mail'[i] = mail[i]
      BY <1>1, <2>2, <2>3
    <3>2. \A k \in i + 1..n : k \in 1..n /\ k \in i + 1..Len(mail')
      BY <1>1, <2>2, <3>1
    <3>3. \A k \in i + 1..n : Speaks(mail[k]) => mail[k].sub # mail[i].sub
      BY <1>1, <2>3, <3>1, <3>2
    <3> QED BY <1>3, <2>1, <2>3, <3>1, <3>3 DEF LastSays
  <2>4. LastSays'
    BY <2>3 DEF LastSays, Speaks
  <2>5. \A i \in 1..n : i \in 1..Len(mail')
    BY <1>1, <2>2
  <2>6. tenant.sub # NoSub => tenant.sub \in Sub
    BY DEF IInv, RecordIsOwn, Opened
  <2>7. TenantTold'
    BY <1>1, <1>2, <2>1, <2>5, <2>6 DEF TenantTold, Speaks
  <2> QED BY <2>4, <2>7
<1>5. CASE kinds # <<"ended">>
  <2>1. \A j \in 1..Len(kinds) : kinds[j] # "ended"
    BY <1>5
  <2>2. \A j \in 1..Len(kinds) :
           /\ Speaks(mail'[n + j]) /\ mail'[n + j].sub = s
           /\ mail'[n + j].plan = subs'[s].plan /\ mail'[n + j].seats = subs'[s].seats
    <3>1. ASSUME NEW j \in 1..Len(kinds)
          PROVE  /\ mail'[n + j].kind = kinds[j] /\ mail'[n + j].sub = s
                 /\ mail'[n + j].plan = subs'[s].plan /\ mail'[n + j].seats = subs'[s].seats
      <4>1. mail'[n + j] = [kind |-> kinds[j], sub |-> s, plan |-> subs'[s].plan,
                            seats |-> subs'[s].seats, owner |-> subs'[s].owner]
        BY <1>1
      <4> QED BY <4>1
    <3> QED BY <2>1, <3>1 DEF Speaks
  <2>3. Len(kinds) >= 1
    BY <1>5
  <2>4. n + 1 \in 1..Len(mail') /\ Speaks(mail'[n + 1]) /\ mail'[n + 1].sub = s
    BY <1>1, <2>2, <2>3
  <2>5. ASSUME NEW i \in 1..Len(mail'), Speaks(mail'[i]),
               \A k \in i + 1..Len(mail') : Speaks(mail'[k]) => mail'[k].sub # mail'[i].sub
        PROVE  /\ mail'[i].plan = subs'[mail'[i].sub].plan
               /\ mail'[i].seats = subs'[mail'[i].sub].seats
    <3>1. CASE i > n
      <4>1. i - n \in 1..Len(kinds) /\ n + (i - n) = i
        BY <1>1, <3>1
      <4> QED BY <2>2, <4>1
    <3>2. CASE i \in 1..n
      <4>1. \A k \in i + 1..n : k \in 1..n /\ k \in i + 1..Len(mail')
        BY <1>1, <3>2
      <4>2. mail'[i] = mail[i] /\ \A k \in i + 1..n : mail'[k] = mail[k]
        BY <1>1, <3>2, <4>1
      <4>3. n + 1 \in i + 1..Len(mail')
        BY <1>1, <2>3, <3>2
      <4>4. mail[i].sub # s
        BY <2>4, <2>5, <4>2, <4>3
      <4>5. \A k \in i + 1..n : Speaks(mail[k]) => mail[k].sub # mail[i].sub
        BY <2>5, <4>1, <4>2
      <4>6. mail[i].plan = subs[mail[i].sub].plan /\ mail[i].seats = subs[mail[i].sub].seats
        BY <2>5, <3>2, <4>2, <4>5 DEF LastSays
      <4> QED BY <1>2, <1>3, <3>2, <4>2, <4>4, <4>6
    <3> QED BY <1>1, <3>1, <3>2
  <2>6. LastSays'
    BY <2>5 DEF LastSays, Speaks
  <2>7. \A i \in 1..n : i \in 1..Len(mail')
    BY <1>1
  <2>8. tenant.sub # NoSub => tenant.sub \in Sub
    BY DEF IInv, RecordIsOwn, Opened
  <2>9. CASE tenant.sub = s
    <3>1. Speaks(mail'[n + 1]) /\ mail'[n + 1].sub = tenant'.sub
      BY <1>2, <2>4, <2>9
    <3>2. \E i \in 1..Len(mail') : Speaks(mail'[i]) /\ mail'[i].sub = tenant'.sub
      BY <2>4, <3>1
    <3> QED BY <2>6, <3>2 DEF TenantTold, Speaks
  <2>10. CASE tenant.sub # s
    <3>1. CASE \E i \in 1..n : Speaks(mail[i]) /\ mail[i].sub = tenant.sub
      <4>1. PICK i \in 1..n : Speaks(mail[i]) /\ mail[i].sub = tenant.sub
        BY <3>1
      <4>2. i \in 1..Len(mail') /\ mail'[i] = mail[i]
        BY <1>1, <2>7
      <4>3. \E j \in 1..Len(mail') : Speaks(mail'[j]) /\ mail'[j].sub = tenant'.sub
        BY <1>2, <4>1, <4>2
      <4> QED BY <2>6, <4>3 DEF TenantTold, Speaks
    <3>2. CASE ~\E i \in 1..n : Speaks(mail[i]) /\ mail[i].sub = tenant.sub
      <4>1. tenant.sub # NoSub => subs'[tenant.sub] = subs[tenant.sub]
        BY <1>2, <2>8, <2>10
      <4>2. tenant.sub # NoSub => tenant.plan = subs[tenant.sub].plan
                                  /\ tenant.seats = subs[tenant.sub].seats
        BY <3>2 DEF TenantTold
      <4> QED BY <2>6, <1>2, <4>1, <4>2 DEF TenantTold
    <3> QED BY <3>1, <3>2
  <2> QED BY <2>6, <2>9, <2>10
<1> QED
  BY <1>4, <1>5

LEMMA LastSaysKept ==
  ASSUME IInv, LastSays, UNCHANGED subs, FirstGone \/ UNCHANGED mail
  PROVE  LastSays'
<1>1. CASE UNCHANGED mail
  BY <1>1 DEF LastSays, Speaks
<1>2. CASE FirstGone
  <2>1. ASSUME NEW i \in 1..Len(mail'), Speaks(mail'[i]),
               \A k \in i + 1..Len(mail') : Speaks(mail'[k]) => mail'[k].sub # mail'[i].sub
        PROVE  /\ mail'[i].plan = subs[mail'[i].sub].plan
               /\ mail'[i].seats = subs[mail'[i].sub].seats
    <3>1. i + 1 \in 1..Len(mail) /\ mail'[i] = mail[i + 1]
      BY <1>2 DEF FirstGone
    <3>2. ASSUME NEW k \in (i + 1) + 1..Len(mail), Speaks(mail[k])
          PROVE  mail[k].sub # mail[i + 1].sub
      <4>1. k - 1 \in i + 1..Len(mail') /\ k - 1 \in 1..Len(mail') /\ (k - 1) + 1 = k
        BY <1>2 DEF FirstGone
      <4>2. mail'[k - 1] = mail[k]
        BY <1>2, <4>1 DEF FirstGone
      <4> QED BY <2>1, <3>1, <3>2, <4>1, <4>2
    <3> QED BY <2>1, <3>1, <3>2 DEF LastSays
  <2> QED BY <2>1 DEF LastSays, Speaks
<1> QED
  BY <1>1, <1>2

(* A workspace that has taken in an event has what the subscription is     *)
(* billed for, or another event about it follows.                          *)
LEMMA FirstTold ==
  ASSUME IInv, LastSays, FirstGone, UNCHANGED subs, Speaks(mail[1]),
         tenant'.sub = mail[1].sub, tenant'.plan = mail[1].plan, tenant'.seats = mail[1].seats
  PROVE  TenantTold'
<1>1. CASE \E k \in 2..Len(mail) : Speaks(mail[k]) /\ mail[k].sub = mail[1].sub
  <2>1. PICK k \in 2..Len(mail) : Speaks(mail[k]) /\ mail[k].sub = mail[1].sub
    BY <1>1
  <2>2. k - 1 \in 1..Len(mail') /\ (k - 1) + 1 = k
    BY DEF FirstGone
  <2>3. mail'[k - 1] = mail[k]
    BY <2>2 DEF FirstGone
  <2> QED BY <2>1, <2>2, <2>3 DEF TenantTold, Speaks
<1>2. CASE \A k \in 2..Len(mail) : Speaks(mail[k]) => mail[k].sub # mail[1].sub
  <2>1. 1 \in 1..Len(mail) /\ 1 + 1 = 2
    BY DEF FirstGone
  <2>2. mail[1].plan = subs[mail[1].sub].plan /\ mail[1].seats = subs[mail[1].sub].seats
    BY <1>2, <2>1 DEF LastSays
  <2> QED BY <2>2 DEF TenantTold
<1> QED
  BY <1>1, <1>2

(* An event that says nothing of the recorded subscription takes nothing   *)
(* from it.                                                                *)
LEMMA OtherTold ==
  ASSUME IInv, TenantTold, FirstGone, UNCHANGED <<subs, tenant>>,
         ~(Speaks(mail[1]) /\ mail[1].sub = tenant.sub)
  PROVE  TenantTold'
<1>1. ASSUME NEW i \in 1..Len(mail), Speaks(mail[i]), mail[i].sub = tenant.sub
      PROVE  \E j \in 1..Len(mail') : Speaks(mail'[j]) /\ mail'[j].sub = tenant.sub
  <2>1. i # 1
    BY <1>1
  <2>2. i - 1 \in 1..Len(mail') /\ (i - 1) + 1 = i
    BY <2>1 DEF FirstGone
  <2>3. mail'[i - 1] = mail[i]
    BY <2>2 DEF FirstGone
  <2> QED BY <1>1, <2>2, <2>3
<1> QED
  BY <1>1 DEF TenantTold, Speaks

LEMMA GrantStep ==
  Sizes /\ IInv /\ IInv' /\ Grant /\ [Next]_vars => Grant'
<1> SUFFICES ASSUME Sizes, IInv, IInv', Grant, [Next]_vars,
                    odd' \cap {"overtaken", "raced", "crossed", "retried"} = {}
             PROVE  LastSays' /\ TenantTold' /\ StoreCharged'
  BY DEF Grant, LastSays, TenantTold, StoreCharged, Speaks
<1>0. odd \subseteq odd'
  BY LapsedStays DEF vars
<1>1. /\ LastSays /\ TenantTold /\ StoreCharged
      /\ "overtaken" \notin odd' /\ "raced" \notin odd' /\ "crossed" \notin odd'
      /\ "retried" \notin odd'
  BY <1>0 DEF Grant
<1>2. /\ tenant \in Row /\ owner \in Requests /\ ~Disturbed
      /\ tenant.sub # NoSub => tenant.sub \in Sub /\ subs[tenant.sub].owner = tenant.id
      /\ owner.pc \in {"resolve", "charge", "store"} =>
            owner.kind \in {"plan", "seats"} /\ owner.sub \in Sub
      /\ ~tenant.here => tenant.sub = NoSub
  BY <1>0, <1>1 DEF IInv, TypeOK, ShapeOK, RequestIsOwn, RecordIsOwn, Opened, Disturbed,
                    PaidIsBilled
<1>3. ASSUME UNCHANGED <<subs, mail, owner>>, tenant'.sub = NoSub \/ UNCHANGED tenant
      PROVE  LastSays' /\ TenantTold' /\ StoreCharged'
  BY <1>1, <1>3, LastSaysKept DEF TenantTold, StoreCharged, Speaks
<1>4. ASSUME UNCHANGED <<subs, mail>>, tenant'.sub = NoSub \/ UNCHANGED tenant,
             owner'.pc # "store"
      PROVE  LastSays' /\ TenantTold' /\ StoreCharged'
  BY <1>1, <1>4, LastSaysKept DEF TenantTold, StoreCharged, Speaks
<1>5. CASE Register
  <2>1. UNCHANGED <<subs, mail, owner>> /\ tenant'.sub = NoSub
    BY <1>5 DEF Register, NoTenant
  <2> QED BY <1>3, <2>1
<1>6. CASE TrialEnds \/ \E p \in PaidPlan \cup {"guard"} : PickPlan(p)
  <2>1. UNCHANGED <<subs, mail, owner>>
    BY <1>6 DEF TrialEnds, PickPlan
  <2>2. /\ tenant'.sub = tenant.sub
        /\ tenant.sub # NoSub => tenant'.plan = tenant.plan /\ tenant'.seats = tenant.seats
    BY <1>2, <1>6 DEF TrialEnds, PickPlan, Row
  <2> QED BY <1>1, <2>1, <2>2, LastSaysKept DEF TenantTold, StoreCharged, Speaks
<1>7. ASSUME NEW s \in Sub, NEW o \in Offer, Checkout(s, o[1], o[2])
      PROVE  LastSays' /\ TenantTold' /\ StoreCharged'
  <2>1. /\ UNCHANGED <<tenant, mail, owner>> /\ tenant.sub = NoSub /\ owner = Idle
        /\ \A r \in Sub : r # s => subs'[r] = subs[r]
    BY <1>7, SubsTyped DEF Checkout
  <2>2. ~Opened(s)
    BY <1>7, CheckoutIsNext DEF Opened
  <2>3. \A i \in 1..Len(mail) : mail[i].sub # s /\ mail[i].sub \in Sub
    BY <2>2 DEF IInv, MailIsTrue, EventIsTrue, Opened
  <2>4. \A i \in 1..Len(mail) : subs'[mail[i].sub] = subs[mail[i].sub]
    BY <2>1, <2>3
  <2>5. LastSays'
    BY <1>1, <2>1, <2>4 DEF LastSays, Speaks
  <2> QED BY <2>1, <2>5 DEF TenantTold, StoreCharged, Idle
<1>8. ASSUME NEW s \in Sub, Pay(s) PROVE LastSays' /\ TenantTold' /\ StoreCharged'
  <2>1. /\ Restates(s, <<"updated", "completed">>) /\ UNCHANGED owner
        /\ subs'[s].plan = subs[s].plan /\ subs'[s].seats = subs[s].seats
    BY <1>8, PayRestates
  <2>2. <<"updated", "completed">> # <<"ended">>
    OBVIOUS
  <2>3. LastSays' /\ TenantTold'
    BY <1>1, <2>1, <2>2, GrantRestates
  <2>4. \A r \in Sub : subs'[r].plan = subs[r].plan /\ subs'[r].seats = subs[r].seats
    BY <2>1 DEF Restates
  <2> QED BY <1>1, <1>2, <2>1, <2>3, <2>4 DEF StoreCharged
<1>9. ASSUME NEW s \in Sub,
             Ends(s) \/ GoesUnpaid(s) \/ (CancelAtStripe /\ MustCancel /\ s = owner.sub)
      PROVE  LastSays' /\ TenantTold' /\ StoreCharged'
  <2>1. /\ Restates(s, <<"ended">>)
        /\ owner'.pc = "store" => UNCHANGED owner
        /\ subs'[s].plan = subs[s].plan /\ subs'[s].seats = subs[s].seats
    BY <1>9, EndRestates
  <2>3. LastSays' /\ TenantTold'
    BY <1>1, <2>1, GrantRestates
  <2>4. \A r \in Sub : subs'[r].plan = subs[r].plan /\ subs'[r].seats = subs[r].seats
    BY <2>1 DEF Restates
  <2> QED BY <1>1, <1>2, <2>1, <2>3, <2>4 DEF StoreCharged
<1>10. ASSUME NEW s \in Sub, \/ Recovers(s)
                             \/ \E p \in PaidPlan, n \in Seats : PortalChange(s, p, n)
                             \/ Charge /\ s = owner.sub
       PROVE  LastSays' /\ TenantTold' /\ StoreCharged'
  <2>1. Restates(s, <<"updated">>)
    BY <1>10, UpdateRestates
  <2>2. <<"updated">> # <<"ended">>
    OBVIOUS
  <2>3. LastSays' /\ TenantTold'
    BY <1>1, <2>1, <2>2, GrantRestates
  <2>4. CASE Recovers(s)
    <3>1. UNCHANGED owner /\ subs' = [subs EXCEPT ![s].status = "active"]
      BY <2>4 DEF Recovers
    <3>2. \A r \in Sub : subs'[r].plan = subs[r].plan /\ subs'[r].seats = subs[r].seats
      BY <3>1, SubsTyped
    <3> QED BY <1>1, <1>2, <2>3, <3>1, <3>2 DEF StoreCharged
  <2>5. CASE \E p \in PaidPlan, n \in Seats : PortalChange(s, p, n)
    <3>1. UNCHANGED owner /\ owner.pc # "store"
      BY <1>1, <2>5 DEF PortalChange
    <3> QED BY <2>3, <3>1 DEF StoreCharged
  <2>6. CASE Charge /\ s = owner.sub
    <3>1. /\ subs' = [subs EXCEPT
                        ![s].plan  = IF owner.kind = "plan" THEN owner.plan ELSE @,
                        ![s].seats = IF owner.kind = "seats" THEN owner.seats ELSE @]
          /\ owner' = [owner EXCEPT !.pc = "store"] /\ owner.kind \in {"plan", "seats"}
      BY <1>2, <2>6 DEF Charge
    <3>2. /\ owner'.kind = owner.kind /\ owner'.plan = owner.plan
          /\ owner'.seats = owner.seats /\ owner'.sub = s
      BY <1>2, <2>6, <3>1 DEF Requests
    <3>3. /\ owner.kind = "plan" => subs'[s].plan = owner.plan
          /\ owner.kind = "seats" => subs'[s].seats = owner.seats
      BY <3>1, SubsTyped
    <3> QED BY <2>3, <3>2, <3>3 DEF StoreCharged
  <2> QED BY <1>10, <2>4, <2>5, <2>6
<1>11. ASSUME NEW i \in 1..Len(mail), HandleCompleted(i) \/ HandleUpdated(i) \/ StartDowngrade(i)
       PROVE  LastSays' /\ TenantTold' /\ StoreCharged'
  <2>1. Delivered(i) /\ UNCHANGED <<subs, owner>>
    BY <1>11 DEF HandleCompleted, HandleUpdated, StartDowngrade
  <2>2. i = 1 /\ FirstGone
    BY <1>1, <2>1, InTurn
  <2>3. LastSays' /\ StoreCharged'
    BY <1>1, <2>1, <2>2, LastSaysKept DEF StoreCharged
  <2>4. mail[1].sub \in Sub /\ subs[mail[1].sub].owner = mail[1].owner
    BY <1>11, <2>2 DEF IInv, MailIsTrue, EventIsTrue, Opened
  <2>5. Speaks(mail[1]) /\ mail[1].sub = tenant.sub => Concerns(mail[1])
    BY <1>2, <2>4 DEF Concerns, Sub, NoSub
  <2>6. tenant' = Mirror(tenant, mail[1]) =>
           /\ tenant'.sub = mail[1].sub /\ tenant'.plan = mail[1].plan
           /\ tenant'.seats = mail[1].seats
    BY <1>2 DEF Mirror, Row
  <2>7. CASE HandleCompleted(i)
    <3>1. Speaks(mail[1])
      BY <2>2, <2>7 DEF HandleCompleted, Speaks
    <3>2. CASE Concerns(mail[1])
      <4>1. tenant' = [Mirror(tenant, mail[1]) EXCEPT
                         !.paid = TRUE, !.trial = IF tenant.trial = "none" THEN "running" ELSE @]
        BY <2>2, <2>7, <3>2 DEF HandleCompleted
      <4>2. tenant'.sub = mail[1].sub /\ tenant'.plan = mail[1].plan /\ tenant'.seats = mail[1].seats
        BY <1>2, <4>1 DEF Mirror, Row
      <4> QED BY <1>1, <2>1, <2>2, <2>3, <3>1, <4>2, FirstTold
    <3>3. CASE ~Concerns(mail[1])
      <4>1. UNCHANGED tenant
        BY <2>2, <2>7, <3>3 DEF HandleCompleted
      <4> QED BY <1>1, <2>1, <2>2, <2>3, <2>5, <3>3, <4>1, OtherTold
    <3> QED BY <3>2, <3>3
  <2>8. CASE HandleUpdated(i)
    <3>1. Speaks(mail[1])
      BY <2>2, <2>8 DEF HandleUpdated, Speaks
    <3>2. CASE Concerns(mail[1]) /\ tenant.sub \in {NoSub, mail[1].sub}
      <4>1. tenant' = Mirror(tenant, mail[1])
        BY <2>2, <2>8, <3>2 DEF HandleUpdated
      <4> QED BY <1>1, <2>1, <2>2, <2>3, <2>6, <3>1, <4>1, FirstTold
    <3>3. CASE ~(Concerns(mail[1]) /\ tenant.sub \in {NoSub, mail[1].sub})
      <4>1. UNCHANGED tenant
        BY <2>2, <2>8, <3>3 DEF HandleUpdated
      <4> QED BY <1>1, <2>1, <2>2, <2>3, <2>5, <3>3, <4>1, OtherTold
    <3> QED BY <3>2, <3>3
  <2>9. CASE StartDowngrade(i)
    <3>1. ~Speaks(mail[1]) /\ UNCHANGED tenant
      BY <2>2, <2>9 DEF StartDowngrade, Speaks
    <3> QED BY <1>1, <2>1, <2>2, <2>3, <3>1, OtherTold
  <2> QED BY <1>11, <2>7, <2>8, <2>9
<1>12. CASE WriteDowngrade
  <2>1. UNCHANGED <<subs, mail, owner>> /\ hook.pc = "write" /\ hook.seen \in Row
    BY <1>12 DEF WriteDowngrade, IInv, TypeOK
  <2>2. CASE tenant.here /\ tenant.id = hook.seen.id
    <3>1. tenant.sub = hook.seen.sub
      BY <1>2, <2>1, <2>2 DEF IInv, HookIsCurrent
    <3>2. tenant' = Downgraded(tenant, hook.seen)
      BY <1>12, <2>2 DEF WriteDowngrade
    <3>3. tenant'.sub = NoSub
      BY <1>2, <3>1, <3>2 DEF Downgraded, Row
    <3> QED BY <1>3, <2>1, <3>3
  <2>3. CASE ~(tenant.here /\ tenant.id = hook.seen.id)
    <3>1. UNCHANGED tenant
      BY <1>12, <2>3 DEF WriteDowngrade
    <3> QED BY <1>3, <2>1, <3>1
  <2> QED BY <2>2, <2>3
<1>13. CASE AskStripe \/ StripeUnreachable
  BY <1>3, <1>13 DEF AskStripe, StripeUnreachable
<1>14. ASSUME NEW s \in LiveOf(tenant.id), Adopt(s), UNCHANGED <<subs, mail>>,
              owner'.pc # "store" \/ UNCHANGED owner
       PROVE  LastSays' /\ TenantTold' /\ StoreCharged'
  <2>1. tenant' = [Mirror(tenant, Event("adopted", s)) EXCEPT !.paid = TRUE]
    BY <1>14 DEF Adopt
  <2>2. tenant'.sub = s /\ tenant'.plan = subs[s].plan /\ tenant'.seats = subs[s].seats
    BY <1>2, <2>1 DEF Mirror, Event, Row
  <2> QED BY <1>1, <1>14, <2>2, LastSaysKept DEF TenantTold, StoreCharged
<1>15. CASE AdoptAtCheckout
  BY <1>14, <1>15 DEF AdoptAtCheckout
<1>16. CASE Resolve
  <2>1. UNCHANGED <<subs, mail>>
    BY <1>16 DEF Resolve
  <2>2. ASSUME owner' = [owner EXCEPT !.pc = "charge"] \/ owner' = Idle
               \/ \E s : owner' = [owner EXCEPT !.pc = "charge", !.sub = s]
        PROVE  owner'.pc # "store"
    <3>1. \A s : [owner EXCEPT !.pc = "charge", !.sub = s].pc = "charge"
      BY <1>2 DEF Requests
    <3>2. [owner EXCEPT !.pc = "charge"].pc = "charge" /\ Idle.pc = "idle"
      BY <1>2 DEF Requests, Idle
    <3> QED BY <2>2, <3>1, <3>2
  <2>3. CASE UNCHANGED <<tenant, odd>> /\ (owner' = [owner EXCEPT !.pc = "charge"] \/ owner' = Idle)
    BY <1>4, <2>1, <2>2, <2>3
  <2>4. CASE \E s \in LiveOf(tenant.id) : Adopt(s) /\ owner' = [owner EXCEPT !.pc = "charge", !.sub = s]
    BY <1>14, <2>1, <2>2, <2>4
  <2> QED BY <1>16, <2>3, <2>4 DEF Resolve
<1>17. CASE Store
  <2>1. /\ UNCHANGED <<subs, mail>> /\ owner.pc = "store" /\ owner'.pc = "idle"
        /\ tenant.sub = owner.sub
    BY <1>1, <1>17 DEF Store, Idle
  <2>2. /\ tenant'.sub = tenant.sub
        /\ owner.kind = "plan" => tenant'.plan = owner.plan /\ tenant'.seats = tenant.seats
        /\ owner.kind = "seats" => tenant'.seats = owner.seats /\ tenant'.plan = tenant.plan
    BY <1>2, <1>17 DEF Store, Changed, Row
  <2>3. LastSays' /\ StoreCharged'
    BY <1>1, <2>1, LastSaysKept DEF StoreCharged
  <2>4. TenantTold'
    BY <1>1, <1>2, <2>1, <2>2 DEF TenantTold, StoreCharged, Speaks
  <2> QED BY <2>3, <2>4
<1>18. CASE \/ \E p \in PaidPlan, n \in 0..MaxSeats, kind \in {"seats", "plan"} :
                  AskChange(kind, p, n)
            \/ Decline \/ Dies \/ CannotCancel \/ AskDelete \/ (CancelAtStripe /\ ~MustCancel)
  <2>1. UNCHANGED <<tenant, subs, mail>>
    BY <1>18 DEF AskChange, Decline, Dies, CannotCancel, AskDelete, CancelAtStripe
  <2>2. owner'.pc # "store"
    <3>1. CASE CancelAtStripe
      BY <1>2, <3>1 DEF CancelAtStripe, Requests
    <3>2. CASE ~CancelAtStripe
      <4>1. CASE AskDelete
        BY <4>1 DEF AskDelete, Idle
      <4>2. CASE Decline \/ Dies \/ CannotCancel
        BY <4>2 DEF Decline, Dies, CannotCancel, Idle
      <4>3. ASSUME NEW p, NEW n, NEW kind, AskChange(kind, p, n) PROVE owner'.pc # "store"
        BY <4>3 DEF AskChange
      <4> QED BY <1>18, <3>2, <4>1, <4>2, <4>3
    <3> QED BY <3>1, <3>2
  <2> QED BY <1>4, <2>1, <2>2
<1>19. CASE Erase
  <2>1. UNCHANGED <<subs, mail>> /\ tenant'.sub = NoSub /\ owner'.pc # "store"
    BY <1>19 DEF Erase, NoTenant, Idle
  <2> QED BY <1>4, <2>1
<1>20. CASE UNCHANGED vars
  BY <1>3, <1>20 DEF vars
<1>21. CASE Stripe
  BY <1>8, <1>9, <1>10, <1>21 DEF Stripe, Seats
<1>22. CASE Request
  <2>1. Charge => owner.sub \in Sub
    BY <1>2 DEF Charge
  <2>2. CancelAtStripe /\ MustCancel => owner.sub \in Sub
    BY <1>2 DEF CancelAtStripe, MustCancel, Requests, SubOrNone
  <2> QED BY <1>6, <1>7, <1>9, <1>10, <1>15, <1>16, <1>17, <1>18, <1>19, <1>22, <2>1, <2>2
          DEF Request
<1> QED
  BY <1>5, <1>6, <1>11, <1>12, <1>13, <1>20, <1>21, <1>22 DEF Next, Deliver, Downgrade

-----------------------------------------------------------------------------
(* Payment                                                                 *)

(* Unless one came back to life, an end is of a subscription that stopped. *)
EndsAreReal ==
    "recovered" \notin odd =>
        /\ \A i \in 1..Len(mail) : mail[i].kind = "ended" => Stopped(mail[i].sub)
        /\ hook.pc # "idle" => hook.sub \in Sub /\ Stopped(hook.sub)

Pending == hook.pc # "idle" /\ hook.seen.id = tenant.id
Completes(e, s) == e.kind = "completed" /\ e.sub = s
EndOf(e, s) == e.kind = "ended" /\ e.sub = s

(* A customer Stripe bills has been marked as paid, or will be.            *)
Served ==
    odd \cap {"recovered", "overtaken", "unasked"} = {} /\ tenant.here =>
        \A s \in Sub : Live(s) /\ subs[s].owner = tenant.id =>
            \/ tenant.paid /\ ~(Pending /\ hook.pc = "write")
            \/ \E i \in 1..Len(mail) : Completes(mail[i], s)

(* Unless a workspace was let buy a second one, Stripe bills it for one    *)
(* subscription at most.                                                   *)
OneLive ==
    "doubled" \notin odd =>
        \A s, t \in Sub : Live(s) /\ Live(t) /\ subs[s].owner = subs[t].owner => s = t

(* No event from a to b says that the workspace has bought a subscription. *)
Ours(e) == e.kind = "completed" /\ e.owner = tenant.id
NoneOurs(a, b) == \A k \in a..b : ~Ours(mail[k])

(* The workspace will be told of subscription s before event n: either it  *)
(* is on record, or its completion is on its way, and no other's after it. *)
OnRecord(s, n) ==
    \/ \E j \in 1..n - 1 : Completes(mail[j], s) /\ NoneOurs(j + 1, n - 1)
    \/ tenant.sub = s /\ ~Pending /\ NoneOurs(1, n - 1)

InOrder == odd \cap {"overtaken", "retried", "doubled", "recovered"} = {}

(* After a completion, Stripe bills the subscription, or tells of its end  *)
(* before it tells of another.                                             *)
EachEnds ==
    \A j \in 1..Len(mail) : Ours(mail[j]) =>
        \/ Live(mail[j].sub) /\ NoneOurs(j + 1, Len(mail))
        \/ \E i \in j + 1..Len(mail) : EndOf(mail[i], mail[j].sub) /\ NoneOurs(j + 1, i - 1)

LiveOnRecord ==
    \A s \in Sub : Live(s) /\ subs[s].owner = tenant.id => OnRecord(s, Len(mail) + 1)

(* A paid workspace has a subscription Stripe bills, or its end is on its  *)
(* way, or the downgrade that follows the end has begun.                   *)
PaidIsFollowed ==
    tenant.paid =>
        \/ LiveOf(tenant.id) # {}
        \/ \E i \in 1..Len(mail) : /\ mail[i].kind = "ended" /\ mail[i].owner = tenant.id
                                   /\ OnRecord(mail[i].sub, i)
        \/ Pending /\ hook.seen.paid

Accounted ==
    InOrder => EachEnds /\ (tenant.here => LiveOnRecord /\ PaidIsFollowed)

(* What has stopped stays stopped, unless it comes back to life.           *)
LEMMA StoppedStays ==
  ASSUME Sizes, IInv, IInv', [Next]_vars, "recovered" \notin odd', NEW s \in Sub, Stopped(s)
  PROVE  Stopped(s)'
<1>1. ASSUME UNCHANGED subs PROVE Stopped(s)'
  BY <1>1 DEF Stopped
<1>2. ASSUME NEW r \in Sub, \A q \in Sub : q # r => subs'[q] = subs[q],
             subs'[r].status = subs[r].status \/ subs'[r].status \in {"unpaid", "ended"}
      PROVE  Stopped(s)'
  BY <1>2 DEF Stopped
<1>3. ASSUME NEW r \in Sub, Pay(r) PROVE Stopped(s)'
  BY <1>3, PayRestates DEF Stopped, Restates
<1>4. ASSUME NEW r \in Sub,
             Ends(r) \/ GoesUnpaid(r) \/ (CancelAtStripe /\ MustCancel /\ r = owner.sub)
      PROVE  Stopped(s)'
  BY <1>2, <1>4, EndRestates DEF Restates, Stopped
<1>5. ASSUME NEW r \in Sub, \/ Recovers(r)
                            \/ \E p \in PaidPlan, n \in Seats : PortalChange(r, p, n)
                            \/ Charge /\ r = owner.sub
      PROVE  Stopped(s)'
  BY <1>2, <1>5, UpdateRestates DEF Restates
<1>6. ASSUME NEW r \in Sub, NEW o \in Offer, Checkout(r, o[1], o[2]) PROVE Stopped(s)'
  <2>1. subs[r].status = "none"
    BY <1>6, CheckoutIsNext
  <2>2. \A q \in Sub : q # r => subs'[q] = subs[q]
    BY <1>6, SubsTyped DEF Checkout
  <2> QED BY <2>1, <2>2 DEF Stopped
<1>7. CASE Register \/ TrialEnds \/ Deliver \/ Downgrade
  BY <1>1, <1>7 DEF Register, TrialEnds, Deliver, Downgrade, HandleCompleted, HandleUpdated,
                    StartDowngrade, AskStripe, StripeUnreachable, WriteDowngrade
<1>8. CASE Stripe
  BY <1>3, <1>4, <1>5, <1>8 DEF Stripe, Seats
<1>9. CASE Request
  <2>1. Charge => owner.sub \in Sub
    BY DEF Charge, IInv, RequestIsOwn, Opened
  <2>2. CancelAtStripe /\ MustCancel => owner.sub \in Sub
    BY DEF CancelAtStripe, MustCancel, IInv, ShapeOK, Requests, SubOrNone
  <2>3. CancelAtStripe /\ ~MustCancel => UNCHANGED subs
    BY DEF CancelAtStripe
  <2>4. \/ \E p \in PaidPlan \cup {"guard"} : PickPlan(p)
        \/ \E p \in PaidPlan, n \in 0..MaxSeats, kind \in {"seats", "plan"} :
             AskChange(kind, p, n)
        \/ AdoptAtCheckout \/ Resolve \/ Decline \/ Store \/ Dies
        \/ AskDelete \/ CannotCancel \/ Erase
        => UNCHANGED subs
    BY DEF PickPlan, AskChange, AdoptAtCheckout, Resolve, Decline, Store, Dies, AskDelete,
           CannotCancel, Erase
  <2> QED BY <1>1, <1>4, <1>5, <1>6, <1>9, <2>1, <2>2, <2>3, <2>4 DEF Request
<1>10. CASE UNCHANGED vars
  BY <1>1, <1>10 DEF vars
<1> QED
  BY <1>7, <1>8, <1>9, <1>10 DEF Next

(* Which events a step may add.                                            *)
LEMMA MailSteps ==
  ASSUME Sizes, IInv, IInv', [Next]_vars
  PROVE  \/ UNCHANGED mail
         \/ Deliver /\ MailFrom({})
         \/ \E s \in Sub : \/ Restates(s, <<"ended">>) /\ Stopped(s)'
                           \/ Restates(s, <<"updated">>)
                           \/ Restates(s, <<"updated", "completed">>)
<1>1. CASE Stripe
  BY <1>1, PayRestates, EndRestates, UpdateRestates DEF Stripe, Seats
<1>2. CASE Charge
  <2>1. owner.sub \in Sub
    BY <1>2 DEF Charge, IInv, RequestIsOwn, Opened
  <2> QED BY <1>2, <2>1, UpdateRestates
<1>3. CASE CancelAtStripe /\ MustCancel
  <2>1. owner.sub \in Sub
    BY <1>3 DEF MustCancel, IInv, ShapeOK, Requests, SubOrNone
  <2> QED BY <1>3, <2>1, EndRestates
<1>4. CASE Deliver
  <2>1. \E i : Delivered(i)
    BY <1>4 DEF Deliver, HandleCompleted, HandleUpdated, StartDowngrade
  <2> QED BY <1>4, <2>1, DeliveredKeeps DEF IInv, ShapeOK
<1>5. CASE Request /\ ~Charge /\ ~(CancelAtStripe /\ MustCancel)
  <2>1. CancelAtStripe /\ ~MustCancel => UNCHANGED mail
    BY DEF CancelAtStripe
  <2>2. \/ \E p \in PaidPlan \cup {"guard"} : PickPlan(p)
        \/ \E p \in PaidPlan, n \in 0..MaxSeats, kind \in {"seats", "plan"} :
             AskChange(kind, p, n)
        \/ \E s \in Sub, o \in Offer : Checkout(s, o[1], o[2])
        \/ AdoptAtCheckout \/ Resolve \/ Decline \/ Store \/ Dies
        \/ AskDelete \/ CannotCancel \/ Erase
        => UNCHANGED mail
    BY DEF PickPlan, AskChange, Checkout, AdoptAtCheckout, Resolve, Decline, Store, Dies,
           AskDelete, CannotCancel, Erase
  <2> QED BY <1>5, <2>1, <2>2 DEF Request
<1>6. CASE Register \/ TrialEnds \/ Downgrade \/ UNCHANGED vars
  BY <1>6 DEF Register, TrialEnds, Downgrade, AskStripe, StripeUnreachable, WriteDowngrade, vars
<1> QED
  BY <1>1, <1>2, <1>3, <1>4, <1>5, <1>6 DEF Next

(* Stopped, as the step leaves it.                                         *)
After(s) == subs'[s].status \in {"unpaid", "ended"}

LEMMA EndsAreRealStep ==
  Sizes /\ IInv /\ IInv' /\ EndsAreReal /\ [Next]_vars => EndsAreReal'
<1> SUFFICES ASSUME Sizes, IInv, IInv', EndsAreReal, [Next]_vars, "recovered" \notin odd'
             PROVE  /\ \A i \in 1..Len(mail') : mail'[i].kind = "ended" => After(mail'[i].sub)
                    /\ hook'.pc # "idle" => hook'.sub \in Sub /\ After(hook'.sub)
  BY DEF EndsAreReal, Stopped, After
<1>1. odd \subseteq odd'
  BY LapsedStays DEF vars
<1>2. /\ \A i \in 1..Len(mail) : mail[i].kind = "ended" => Stopped(mail[i].sub)
      /\ hook.pc # "idle" => hook.sub \in Sub /\ Stopped(hook.sub)
  BY <1>1 DEF EndsAreReal
<1>3. \A s \in Sub : Stopped(s) => After(s)
  BY StoppedStays DEF Stopped, After
<1>4. \A i \in 1..Len(mail) : mail[i].sub \in Sub
  BY DEF IInv, MailIsTrue, EventIsTrue, Opened
<1>5. \A i \in 1..Len(mail) : mail[i].kind = "ended" => After(mail[i].sub)
  BY <1>2, <1>3, <1>4
<1>6. ASSUME NEW j \in 1..Len(mail'), mail'[j].kind = "ended" PROVE After(mail'[j].sub)
  <2>1. CASE UNCHANGED mail
    BY <1>5, <1>6, <2>1 DEF After
  <2>2. CASE MailFrom({})
    <3>1. PICK i \in 1..Len(mail) : mail'[j] = mail[i]
      BY <2>2 DEF MailFrom
    <3> QED BY <1>5, <1>6, <3>1 DEF After
  <2>3. ASSUME NEW s \in Sub, NEW kinds, Restates(s, kinds),
               \/ kinds = <<"ended">> /\ After(s)
               \/ kinds = <<"updated">>
               \/ kinds = <<"updated", "completed">>
        PROVE  After(mail'[j].sub)
    <3>1. /\ Len(mail) \in Nat /\ Len(mail') = Len(mail) + Len(kinds) /\ Len(kinds) \in Nat
          /\ \A i \in 1..Len(mail) : mail'[i] = mail[i]
          /\ \A i \in 1..Len(kinds) :
                mail'[Len(mail) + i] = [kind |-> kinds[i], sub |-> s, plan |-> subs'[s].plan,
                                        seats |-> subs'[s].seats, owner |-> subs'[s].owner]
      BY <2>3 DEF Restates, Sent
    <3>2. CASE j <= Len(mail)
      <4>1. j \in 1..Len(mail)
        BY <3>1, <3>2
      <4> QED BY <1>5, <1>6, <3>1, <4>1 DEF After
    <3>3. CASE j > Len(mail)
      <4> DEFINE i == j - Len(mail)
      <4>1. i \in 1..Len(kinds) /\ Len(mail) + i = j
        BY <3>1, <3>3
      <4>2. mail'[j] = [kind |-> kinds[i], sub |-> s, plan |-> subs'[s].plan,
                        seats |-> subs'[s].seats, owner |-> subs'[s].owner]
        BY <3>1, <4>1
      <4>3. mail'[j].sub = s /\ kinds[i] = "ended"
        BY <1>6, <4>2
      <4>4. kinds = <<"ended">>
        <5>1. \A k \in 1..Len(<<"updated">>) : <<"updated">>[k] # "ended"
          OBVIOUS
        <5>2. \A k \in 1..Len(<<"updated", "completed">>) : <<"updated", "completed">>[k] # "ended"
          OBVIOUS
        <5> QED BY <2>3, <4>1, <4>3, <5>1, <5>2
      <4> QED BY <2>3, <4>3, <4>4 DEF After
    <3> QED BY <3>1, <3>2, <3>3
  <2> QED BY <2>1, <2>2, <2>3, MailSteps DEF Stopped, After
<1>7. hook'.pc # "idle" => hook'.sub \in Sub /\ After(hook'.sub)
  <2>1. CASE UNCHANGED hook
    BY <1>2, <1>3, <2>1 DEF After
  <2>2. ASSUME NEW i \in 1..Len(mail), StartDowngrade(i)
        PROVE  hook'.pc # "idle" => hook'.sub \in Sub /\ After(hook'.sub)
    <3>1. mail[i].kind = "ended" /\ (hook'.sub = mail[i].sub \/ UNCHANGED hook)
      BY <2>2 DEF StartDowngrade
    <3> QED BY <1>4, <1>5, <2>1, <2>2, <3>1
  <2>3. CASE Downgrade
    <3>1. hook.pc # "idle"
      BY <2>3 DEF Downgrade, AskStripe, StripeUnreachable, WriteDowngrade
    <3>2. hook'.pc = "idle" \/ hook'.sub = hook.sub
      BY <2>3 DEF Downgrade, AskStripe, StripeUnreachable, WriteDowngrade, NoHook, IInv, ShapeOK, Hooks
    <3> QED BY <1>2, <1>3, <3>1, <3>2 DEF After
  <2>4. UNCHANGED hook \/ Deliver \/ Downgrade
    <3>1. Stripe => UNCHANGED hook
      BY DEF Stripe, Pay, Ends, GoesUnpaid, Recovers, PortalChange
    <3>2. Request => UNCHANGED hook
      BY DEF Request, PickPlan, Checkout, AskChange, AdoptAtCheckout, Resolve, Charge, Decline,
             Store, Dies, AskDelete, CancelAtStripe, CannotCancel, Erase
    <3> QED BY <3>1, <3>2 DEF Next, Register, TrialEnds, vars
  <2>5. Deliver => UNCHANGED hook \/ \E i \in 1..Len(mail) : StartDowngrade(i)
    BY DEF Deliver, HandleCompleted, HandleUpdated
  <2> QED BY <2>1, <2>2, <2>3, <2>4, <2>5
<1> QED
  BY <1>6, <1>7

(* A step that tells nobody anything of a payment.                         *)
Still ==
    /\ UNCHANGED <<subs, mail, hook>>
    /\ tenant'.here = tenant.here /\ tenant'.id = tenant.id
    /\ tenant'.sub = tenant.sub /\ tenant'.paid = tenant.paid

(* A subscription changes, but not whether Stripe bills it.                *)
Revised(s) ==
    /\ Restates(s, <<"updated">>) /\ odd \subseteq odd'
    /\ subs'[s].status = subs[s].status

Adopted(s) ==
    /\ UNCHANGED <<subs, mail, hook>>
    /\ tenant.here /\ tenant'.here = tenant.here /\ tenant'.id = tenant.id
    /\ tenant'.sub = s /\ tenant'.paid

Closes(s) == Ends(s) \/ GoesUnpaid(s) \/ (CancelAtStripe /\ MustCancel /\ s = owner.sub)

LEMMA StepKinds ==
  ASSUME Sizes, IInv, IInv', [Next]_vars
  PROVE  \/ Still \/ Register \/ Erase
         \/ \E s \in Sub, o \in Offer : Checkout(s, o[1], o[2])
         \/ \E s \in Sub : Pay(s) \/ Closes(s) \/ Recovers(s) \/ Revised(s)
         \/ \E s \in LiveOf(tenant.id) : Adopted(s)
         \/ \E i \in 1..Len(mail) : HandleCompleted(i) \/ HandleUpdated(i) \/ StartDowngrade(i)
         \/ AskStripe \/ StripeUnreachable \/ WriteDowngrade
<1>0. tenant \in Row /\ owner \in Requests
  BY DEF IInv, TypeOK, ShapeOK
<1>1. CASE TrialEnds \/ \E p \in PaidPlan \cup {"guard"} : PickPlan(p)
  BY <1>0, <1>1 DEF TrialEnds, PickPlan, Row, Still
<1>2. CASE \/ \E p \in PaidPlan, n \in 0..MaxSeats, kind \in {"seats", "plan"} :
                 AskChange(kind, p, n)
           \/ Decline \/ Dies \/ CannotCancel \/ AskDelete \/ (CancelAtStripe /\ ~MustCancel)
           \/ UNCHANGED vars
  BY <1>2 DEF AskChange, Decline, Dies, CannotCancel, AskDelete, CancelAtStripe, vars, Still
<1>3. CASE Store
  BY <1>3, StoreEffect DEF Store, Still
<1>4. ASSUME NEW s \in LiveOf(tenant.id), Adopt(s), UNCHANGED <<subs, mail, hook>>, tenant.here
      PROVE  Adopted(s)
  <2>1. tenant' = [Mirror(tenant, Event("adopted", s)) EXCEPT !.paid = TRUE]
    BY <1>4 DEF Adopt
  <2> QED BY <1>0, <1>4, <2>1 DEF Mirror, Event, Row, Adopted
<1>5. CASE AdoptAtCheckout
  BY <1>4, <1>5 DEF AdoptAtCheckout
<1>6. CASE Resolve
  <2>1. UNCHANGED <<subs, mail, hook>> /\ tenant.here
    BY <1>6 DEF Resolve, IInv, RequestIsOwn
  <2>2. UNCHANGED tenant \/ \E s \in LiveOf(tenant.id) : Adopt(s)
    BY <1>6 DEF Resolve
  <2>3. UNCHANGED tenant => Still
    BY <2>1 DEF Still
  <2> QED BY <1>4, <2>1, <2>2, <2>3
<1>7. ASSUME NEW s \in Sub, \/ \E p \in PaidPlan, n \in Seats : PortalChange(s, p, n)
                            \/ Charge /\ s = owner.sub
      PROVE  Revised(s)
  <2>1. Restates(s, <<"updated">>) /\ odd \subseteq odd'
    BY <1>7, UpdateRestates
  <2>2. ASSUME NEW p, NEW n, subs' = [subs EXCEPT ![s].plan = p, ![s].seats = n]
        PROVE  subs'[s].status = subs[s].status
    BY <2>2, SubsTyped
  <2>3. subs'[s].status = subs[s].status
    <3>1. CASE \E p \in PaidPlan, n \in Seats : PortalChange(s, p, n)
      BY <2>2, <3>1 DEF PortalChange
    <3>2. CASE Charge /\ s = owner.sub
      BY <2>2, <3>2 DEF Charge
    <3> QED BY <1>7, <3>1, <3>2
  <2> QED BY <2>1, <2>3 DEF Revised
<1>8. CASE Stripe
  BY <1>7, <1>8 DEF Stripe, Seats, Closes
<1>9. CASE Request
  <2>1. Charge => owner.sub \in Sub
    BY DEF Charge, IInv, RequestIsOwn, Opened
  <2>2. CancelAtStripe /\ MustCancel => owner.sub \in Sub /\ Closes(owner.sub)
    BY <1>0 DEF MustCancel, Requests, SubOrNone, Closes
  <2> QED BY <1>1, <1>2, <1>3, <1>5, <1>6, <1>7, <1>9, <2>1, <2>2 DEF Request
<1> QED
  BY <1>1, <1>2, <1>8, <1>9 DEF Next, Deliver, Downgrade

-----------------------------------------------------------------------------
(* Who is billed                                                           *)

(* What a step at Stripe leaves of the live subscriptions.                 *)
LEMMA LiveAfter ==
  ASSUME Sizes, IInv, IInv', NEW s \in Sub
  PROVE  /\ Pay(s) =>
              /\ ~Live(s) /\ Live(s)' /\ Restates(s, <<"updated", "completed">>)
              /\ \A r \in Sub : r # s => (Live(r)' <=> Live(r))
              /\ \A r \in Sub : subs'[r].owner = subs[r].owner
              /\ LiveOf(subs[s].owner) # {} => "doubled" \in odd'
         /\ Closes(s) =>
              /\ ~Live(s)' /\ Restates(s, <<"ended">>) /\ Billable(s)
              /\ \A r \in Sub : r # s => (Live(r)' <=> Live(r))
              /\ \A r \in Sub : subs'[r].owner = subs[r].owner
         /\ Revised(s) =>
              /\ Restates(s, <<"updated">>)
              /\ \A r \in Sub : (Live(r)' <=> Live(r)) /\ subs'[r].owner = subs[r].owner
<1>1. ASSUME NEW kinds, Restates(s, kinds)
      PROVE  /\ \A r \in Sub : r # s => (Live(r)' <=> Live(r))
             /\ \A r \in Sub : subs'[r].owner = subs[r].owner
  BY <1>1 DEF Restates, Live
<1>2. ASSUME Pay(s)
      PROVE  /\ ~Live(s) /\ Live(s)' /\ Restates(s, <<"updated", "completed">>)
             /\ LiveOf(subs[s].owner) # {} => "doubled" \in odd'
  BY <1>2, PayRestates DEF Live
<1>3. ASSUME Closes(s)
      PROVE  ~Live(s)' /\ Restates(s, <<"ended">>) /\ Billable(s)
  BY <1>3, EndRestates DEF Live, Stopped, Closes
<1>4. ASSUME Revised(s)
      PROVE  Restates(s, <<"updated">>) /\ (Live(s)' <=> Live(s))
  BY <1>4 DEF Revised, Live
<1> QED
  BY <1>1, <1>2, <1>3, <1>4

LEMMA LiveSame ==
  ASSUME Sizes, IInv, NEW s \in Sub, NEW p, NEW n, Checkout(s, p, n)
  PROVE  /\ ~Live(s) /\ ~Live(s)'
         /\ \A r \in Sub : r # s => subs'[r] = subs[r]
         /\ UNCHANGED <<tenant, mail, hook>>
<1>1. subs[s].status = "none"
  BY CheckoutIsNext
<1>2. subs'[s].status = "open" /\ \A r \in Sub : r # s => subs'[r] = subs[r]
  BY SubsTyped DEF Checkout
<1> QED
  BY <1>1, <1>2 DEF Live, Checkout

LEMMA OneLiveStep ==
  Sizes /\ IInv /\ IInv' /\ OneLive /\ [Next]_vars => OneLive'
<1> SUFFICES ASSUME Sizes, IInv, IInv', OneLive, [Next]_vars, "doubled" \notin odd',
                    NEW s \in Sub, NEW t \in Sub, Live(s)', Live(t)',
                    subs'[s].owner = subs'[t].owner
             PROVE  s = t
  BY DEF OneLive, Live
<1>1. odd \subseteq odd'
  BY LapsedStays DEF vars
<1>2. \A a, b \in Sub : Live(a) /\ Live(b) /\ subs[a].owner = subs[b].owner => a = b
  BY <1>1 DEF OneLive
<1>3. ASSUME \A r \in Sub : (Live(r)' => Live(r)) /\ (Live(r)' => subs'[r].owner = subs[r].owner)
      PROVE  s = t
  BY <1>2, <1>3
<1>4. ASSUME UNCHANGED subs PROVE s = t
  BY <1>3, <1>4 DEF Live
<1>5. ASSUME NEW r \in Sub, NEW o \in Offer, Checkout(r, o[1], o[2]) PROVE s = t
  BY <1>3, <1>5, LiveSame DEF Live
<1>6. ASSUME NEW r \in Sub, Closes(r) \/ Revised(r) PROVE s = t
  BY <1>3, <1>6, LiveAfter
<1>7. ASSUME NEW r \in Sub, Pay(r) \/ Recovers(r) PROVE s = t
  <2>1. /\ LiveOf(subs[r].owner) = {}
        /\ \A q \in Sub : q # r => subs'[q] = subs[q]
        /\ subs'[r].owner = subs[r].owner
    <3>1. CASE Pay(r)
      BY <3>1, PayRestates DEF Restates
    <3>2. CASE Recovers(r)
      <4>1. LiveOf(subs[r].owner) = {}
        BY <3>2 DEF Recovers
      <4> QED BY <3>2, <4>1, UpdateRestates DEF Restates
    <3> QED BY <1>7, <3>1, <3>2
  <2>2. \A q \in Sub : subs[q].owner = subs[r].owner => ~Live(q)
    BY <2>1 DEF LiveOf
  <2>3. \A q \in Sub : q # r => (Live(q)' <=> Live(q))
    BY <2>1 DEF Live
  <2>4. CASE s # r /\ t # r
    BY <1>2, <2>1, <2>3, <2>4
  <2>5. CASE s = r \/ t = r
    BY <2>1, <2>2, <2>3, <2>5
  <2> QED BY <2>4, <2>5
<1>8. CASE \/ Still \/ Register \/ Erase \/ (\E r \in LiveOf(tenant.id) : Adopted(r))
           \/ (\E i \in 1..Len(mail) : HandleCompleted(i) \/ HandleUpdated(i) \/ StartDowngrade(i))
           \/ AskStripe \/ StripeUnreachable \/ WriteDowngrade
  BY <1>4, <1>8 DEF Still, Register, Erase, Adopted, HandleCompleted, HandleUpdated,
                    StartDowngrade, AskStripe, StripeUnreachable, WriteDowngrade
<1> QED
  BY <1>5, <1>6, <1>7, <1>8, StepKinds

-----------------------------------------------------------------------------
(* Whom Stripe bills is marked as paid                                     *)

(* Where nobody new is billed and no completion is lost.                   *)
LEMMA ServedKept ==
  ASSUME Served, odd \subseteq odd', tenant'.here => tenant.here, tenant'.id = tenant.id,
         tenant.paid => tenant'.paid,
         (Pending /\ hook.pc = "write")' => Pending /\ hook.pc = "write",
         \A s \in Sub : Live(s)' => Live(s) /\ subs'[s].owner = subs[s].owner,
         \A i \in 1..Len(mail) : \E j \in 1..Len(mail') : mail'[j] = mail[i]
  PROVE  Served'
<1> SUFFICES ASSUME odd' \cap {"recovered", "overtaken", "unasked"} = {}, tenant'.here,
                    NEW s \in Sub, Live(s)', subs'[s].owner = tenant'.id
             PROVE  \/ tenant'.paid /\ ~(Pending /\ hook.pc = "write")'
                    \/ \E i \in 1..Len(mail') : Completes(mail'[i], s)
  BY DEF Served, Live, Completes
<1>1. odd \cap {"recovered", "overtaken", "unasked"} = {}
  OBVIOUS
<1>2. Live(s) /\ subs[s].owner = tenant.id
  OBVIOUS
<1>3. \/ tenant.paid /\ ~(Pending /\ hook.pc = "write")
      \/ \E i \in 1..Len(mail) : Completes(mail[i], s)
  BY <1>1, <1>2 DEF Served
<1>4. CASE tenant.paid /\ ~(Pending /\ hook.pc = "write")
  BY <1>4
<1>5. CASE \E i \in 1..Len(mail) : Completes(mail[i], s)
  BY <1>5
<1> QED
  BY <1>3, <1>4, <1>5

(* Events are only added where Stripe speaks.                              *)
LEMMA SentKeeps ==
  ASSUME NEW s, NEW kinds \in {<<"updated">>, <<"ended">>, <<"updated", "completed">>},
         Restates(s, kinds)
  PROVE  \A i \in 1..Len(mail) : i \in 1..Len(mail') /\ mail'[i] = mail[i]
<1>1. /\ Len(mail) \in Nat /\ Len(mail') = Len(mail) + Len(kinds) /\ Len(kinds) \in Nat
      /\ \A i \in 1..Len(mail) : mail'[i] = mail[i]
  BY DEF Restates, Sent
<1> QED
  BY <1>1

LEMMA ServedStep ==
  Sizes /\ IInv /\ IInv' /\ DeletionClears /\ EndsAreReal /\ Served /\ [Next]_vars => Served'
<1> SUFFICES ASSUME Sizes, IInv, IInv', DeletionClears, EndsAreReal, Served, [Next]_vars
             PROVE  Served'
  OBVIOUS
<1>1. odd \subseteq odd'
  BY LapsedStays DEF vars
<1>2. tenant \in Row
  BY DEF IInv, TypeOK
<1>3. ASSUME UNCHANGED <<subs, mail>>, tenant'.here => tenant.here, tenant'.id = tenant.id,
             tenant.paid => tenant'.paid,
             (Pending /\ hook.pc = "write")' => Pending /\ hook.pc = "write"
      PROVE  Served'
  BY <1>1, <1>3, ServedKept DEF Live
<1>4. CASE Register
  <2>1. tenant'.id = tenant.id + 1 /\ UNCHANGED subs
    BY <1>4 DEF Register, NoTenant
  <2>2. \A s \in Sub : Live(s)' => subs'[s].owner # tenant'.id
    BY <1>2, <2>1, SubsTyped DEF DeletionClears, Opened, Live, Row
  <2> QED BY <2>2 DEF Served, Live
<1>5. CASE Erase
  <2>1. ~tenant'.here
    BY <1>5 DEF Erase, NoTenant
  <2> QED BY <2>1 DEF Served
<1>6. CASE Still
  BY <1>3, <1>6 DEF Still, Pending
<1>7. ASSUME NEW s \in LiveOf(tenant.id), Adopted(s) PROVE Served'
  BY <1>3, <1>7 DEF Adopted, Pending
<1>8. ASSUME NEW s \in Sub, NEW o \in Offer, Checkout(s, o[1], o[2]) PROVE Served'
  <2>1. /\ UNCHANGED <<tenant, mail, hook>>
        /\ \A r \in Sub : Live(r)' => Live(r) /\ subs'[r].owner = subs[r].owner
    BY <1>8, LiveSame DEF Live
  <2> QED BY <1>1, <2>1, ServedKept DEF Pending
<1>9. ASSUME NEW s \in Sub, Closes(s) \/ Revised(s) PROVE Served'
  <2>1. /\ \E kinds \in {<<"updated">>, <<"ended">>, <<"updated", "completed">>} : Restates(s, kinds)
        /\ \A r \in Sub : Live(r)' => Live(r) /\ subs'[r].owner = subs[r].owner
    BY <1>9, LiveAfter
  <2>2. UNCHANGED <<tenant, hook>>
    BY <2>1 DEF Restates
  <2>3. \A i \in 1..Len(mail) : \E j \in 1..Len(mail') : mail'[j] = mail[i]
    BY <2>1, SentKeeps
  <2> QED BY <1>1, <2>1, <2>2, <2>3, ServedKept DEF Pending
<1>10. ASSUME NEW s \in Sub, Recovers(s) PROVE Served'
  BY <1>10 DEF Recovers, Served
<1>11. ASSUME NEW s \in Sub, Pay(s) PROVE Served'
  <2>1. /\ Restates(s, <<"updated", "completed">>)
        /\ \A r \in Sub : r # s => (Live(r)' <=> Live(r))
        /\ \A r \in Sub : subs'[r].owner = subs[r].owner
    BY <1>11, LiveAfter
  <2>2. UNCHANGED <<tenant, hook>>
    BY <2>1 DEF Restates
  <2>3. \A i \in 1..Len(mail) : i \in 1..Len(mail') /\ mail'[i] = mail[i]
    BY <2>1, SentKeeps
  <2>4. \E j \in 1..Len(mail') : Completes(mail'[j], s)
    <3>1. /\ Len(mail) \in Nat /\ Len(mail') = Len(mail) + Len(<<"updated", "completed">>)
          /\ \A j \in 1..Len(<<"updated", "completed">>) :
                mail'[Len(mail) + j] = [kind |-> <<"updated", "completed">>[j], sub |-> s,
                                        plan |-> subs'[s].plan, seats |-> subs'[s].seats,
                                        owner |-> subs'[s].owner]
      BY <2>1 DEF Restates, Sent
    <3>2. Len(<<"updated", "completed">>) = 2 /\ <<"updated", "completed">>[2] = "completed"
      OBVIOUS
    <3>3. Len(mail) + 2 \in 1..Len(mail') /\ 2 \in 1..Len(<<"updated", "completed">>)
      BY <3>1, <3>2
    <3>4. mail'[Len(mail) + 2].kind = "completed" /\ mail'[Len(mail) + 2].sub = s
      <4>1. mail'[Len(mail) + 2] = [kind |-> <<"updated", "completed">>[2], sub |-> s,
                                    plan |-> subs'[s].plan, seats |-> subs'[s].seats,
                                    owner |-> subs'[s].owner]
        BY <3>1, <3>3
      <4> QED BY <3>2, <4>1
    <3> QED BY <3>3, <3>4 DEF Completes
  <2>5. ASSUME odd' \cap {"recovered", "overtaken", "unasked"} = {}, tenant'.here,
               NEW r \in Sub, Live(r)', subs'[r].owner = tenant'.id
        PROVE  \/ tenant'.paid /\ ~(Pending /\ hook.pc = "write")'
               \/ \E i \in 1..Len(mail') : Completes(mail'[i], r)
    <3>1. CASE r = s
      BY <2>4, <3>1
    <3>2. CASE r # s
      <4>1. odd \cap {"recovered", "overtaken", "unasked"} = {}
        BY <1>1, <2>5
      <4>2. \/ tenant.paid /\ ~(Pending /\ hook.pc = "write")
            \/ \E i \in 1..Len(mail) : Completes(mail[i], r)
        BY <2>1, <2>2, <2>5, <3>2, <4>1 DEF Served
      <4> QED BY <2>2, <2>3, <4>2 DEF Pending
    <3> QED BY <3>1, <3>2
  <2> QED BY <2>5 DEF Served, Live, Completes
<1>12. ASSUME NEW i \in 1..Len(mail), HandleCompleted(i) \/ HandleUpdated(i) \/ StartDowngrade(i),
              odd' \cap {"recovered", "overtaken", "unasked"} = {}, tenant'.here,
              NEW s \in Sub, Live(s)', subs'[s].owner = tenant'.id
       PROVE  \/ tenant'.paid /\ ~(Pending /\ hook.pc = "write")'
              \/ \E k \in 1..Len(mail') : Completes(mail'[k], s)
  <2>1. Delivered(i) /\ UNCHANGED subs /\ "overtaken" \notin odd'
    BY <1>12 DEF HandleCompleted, HandleUpdated, StartDowngrade
  <2>2. /\ i = 1 /\ hook.pc = "idle"
        /\ \A k \in 2..Len(mail) : k - 1 \in 1..Len(mail') /\ mail'[k - 1] = mail[k]
    BY <2>1, InTurn, OthersStay
  <2>3. mail[1].sub \in Sub /\ subs[mail[1].sub].owner = mail[1].owner
    BY <1>12, <2>2 DEF IInv, MailIsTrue, EventIsTrue, Opened
  <2>4. /\ tenant'.here = tenant.here /\ tenant'.id = tenant.id /\ (tenant.paid => tenant'.paid)
        /\ mail[1].kind = "completed" /\ Concerns(mail[1]) => tenant'.paid
        /\ hook'.pc # "write"
    <3>1. CASE HandleCompleted(i)
      BY <1>2, <2>2, <3>1 DEF HandleCompleted, Mirror, Row
    <3>2. CASE HandleUpdated(i)
      BY <1>2, <2>2, <3>2 DEF HandleUpdated, Mirror, Row
    <3>3. CASE StartDowngrade(i)
      BY <2>2, <3>3 DEF StartDowngrade
    <3> QED BY <1>12, <3>1, <3>2, <3>3
  <2>5. odd \cap {"recovered", "overtaken", "unasked"} = {}
    BY <1>1, <1>12
  <2>6. Live(s) /\ subs[s].owner = tenant.id /\ tenant.here
    BY <1>12, <2>1, <2>4 DEF Live
  <2>7. CASE tenant.paid
    BY <2>4, <2>7
  <2>8. CASE \E k \in 1..Len(mail) : Completes(mail[k], s)
    <3>1. PICK k \in 1..Len(mail) : Completes(mail[k], s)
      BY <2>8
    <3>2. CASE k = 1
      <4>1. Concerns(mail[1]) /\ mail[1].kind = "completed"
        BY <2>3, <2>6, <3>1, <3>2 DEF Completes, Concerns
      <4> QED BY <2>4, <4>1
    <3>3. CASE k # 1
      <4>1. k \in 2..Len(mail)
        BY <3>3
      <4> QED BY <2>2, <3>1, <4>1 DEF Completes
    <3> QED BY <3>2, <3>3
  <2> QED BY <2>5, <2>6, <2>7, <2>8 DEF Served
<1>13. CASE AskStripe \/ StripeUnreachable
  <2>1. UNCHANGED <<tenant, subs, mail>> /\ hook.pc = "ask" /\ hook \in Hooks
    BY <1>13 DEF AskStripe, StripeUnreachable, IInv, ShapeOK
  <2>2. ASSUME odd' \cap {"recovered", "overtaken", "unasked"} = {}, tenant'.here,
               NEW s \in Sub, Live(s)', subs'[s].owner = tenant'.id
        PROVE  \/ tenant'.paid /\ ~(Pending /\ hook.pc = "write")'
               \/ \E k \in 1..Len(mail') : Completes(mail'[k], s)
    <3>1. odd \cap {"recovered", "overtaken", "unasked"} = {} /\ "recovered" \notin odd
      BY <1>1, <2>2
    <3>2. Live(s) /\ subs[s].owner = tenant.id /\ tenant.here
      BY <2>1, <2>2 DEF Live
    <3>3. tenant.paid \/ \E k \in 1..Len(mail) : Completes(mail[k], s)
      BY <3>1, <3>2 DEF Served
    <3>4. ~(Pending /\ hook.pc = "write")'
      <4>1. CASE OtherLive(hook.seen.id, hook.sub) = {}
        <5>1. Stopped(hook.sub)
          BY <2>1, <3>1 DEF EndsAreReal
        <5>2. s # hook.sub
          BY <3>2, <5>1 DEF Stopped, Live
        <5>3. hook.seen.id # tenant.id
          BY <3>2, <4>1, <5>2 DEF OtherLive, LiveOf
        <5>4. hook'.seen = hook.seen
          BY <1>13, <2>1, <4>1 DEF AskStripe, StripeUnreachable, Hooks
        <5> QED BY <2>1, <5>3, <5>4 DEF Pending
      <4>2. CASE OtherLive(hook.seen.id, hook.sub) # {}
        <5>1. ~StripeUnreachable
          BY <2>2, <4>2 DEF StripeUnreachable
        <5>2. hook' = NoHook
          BY <1>13, <4>2, <5>1 DEF AskStripe
        <5> QED BY <5>2 DEF NoHook
      <4> QED BY <4>1, <4>2
    <3> QED BY <2>1, <3>3, <3>4
  <2> QED BY <2>2 DEF Served, Live, Completes
<1>14. CASE WriteDowngrade
  <2>1. UNCHANGED <<subs, mail>> /\ hook.pc = "write" /\ hook'.pc = "idle"
    BY <1>14 DEF WriteDowngrade, NoHook
  <2>2. tenant'.here = tenant.here /\ tenant'.id = tenant.id
    BY <1>14, DowngradeEffect
  <2>3. CASE ~(tenant.here /\ tenant.id = hook.seen.id)
    <3>1. UNCHANGED tenant
      BY <1>14, <2>3 DEF WriteDowngrade
    <3> QED BY <1>3, <2>1, <3>1
  <2>4. CASE tenant.here /\ tenant.id = hook.seen.id
    <3>1. Pending /\ hook.pc = "write"
      BY <2>1, <2>4 DEF Pending
    <3>2. ASSUME odd' \cap {"recovered", "overtaken", "unasked"} = {},
                 NEW s \in Sub, Live(s)', subs'[s].owner = tenant'.id
          PROVE  \E k \in 1..Len(mail') : Completes(mail'[k], s)
      <4>1. odd \cap {"recovered", "overtaken", "unasked"} = {}
        BY <1>1, <3>2
      <4>2. Live(s) /\ subs[s].owner = tenant.id
        BY <2>1, <2>2, <3>2 DEF Live
      <4> QED BY <2>1, <2>4, <3>1, <4>1, <4>2 DEF Served
    <3> QED BY <3>2 DEF Served, Live, Completes
  <2> QED BY <2>3, <2>4
<1>15. CASE \E i \in 1..Len(mail) : HandleCompleted(i) \/ HandleUpdated(i) \/ StartDowngrade(i)
  BY <1>12, <1>15 DEF Served, Live, Completes
<1> QED
  BY <1>4, <1>5, <1>6, <1>7, <1>8, <1>9, <1>10, <1>11, <1>13, <1>14, <1>15, StepKinds

-----------------------------------------------------------------------------
(* What is on record                                                       *)

(* The same of the events that a step leaves on their way.                 *)
OursThen(k) == mail'[k].kind = "completed" /\ mail'[k].owner = tenant'.id
NoneThen(a, b) == \A k \in a..b : ~OursThen(k)
RecordThen(s, n) ==
    \/ \E j \in 1..n - 1 : Completes(mail'[j], s) /\ NoneThen(j + 1, n - 1)
    \/ tenant'.sub = s /\ ~Pending' /\ NoneThen(1, n - 1)

LEMMA Then ==
  /\ EachEnds' <=>
        \A j \in 1..Len(mail') : OursThen(j) =>
            \/ Live(mail[j].sub)' /\ NoneThen(j + 1, Len(mail'))
            \/ \E i \in j + 1..Len(mail') :
                  EndOf(mail'[i], mail'[j].sub) /\ NoneThen(j + 1, i - 1)
  /\ LiveOnRecord' <=>
        \A s \in Sub : Live(s)' /\ subs'[s].owner = tenant'.id => RecordThen(s, Len(mail') + 1)
  /\ PaidIsFollowed' <=>
        (tenant'.paid =>
            \/ \E s \in Sub : Live(s)' /\ subs'[s].owner = tenant'.id
            \/ \E i \in 1..Len(mail') : /\ mail'[i].kind = "ended" /\ mail'[i].owner = tenant'.id
                                        /\ RecordThen(mail'[i].sub, i)
            \/ (Pending /\ hook.seen.paid)')
<1>1. EachEnds' <=>
        \A j \in 1..Len(mail') : OursThen(j) =>
            \/ Live(mail[j].sub)' /\ NoneThen(j + 1, Len(mail'))
            \/ \E i \in j + 1..Len(mail') :
                  EndOf(mail'[i], mail'[j].sub) /\ NoneThen(j + 1, i - 1)
  BY DEF EachEnds, Ours, NoneOurs, OursThen, NoneThen, EndOf, Live
<1>2. LiveOnRecord' <=>
        \A s \in Sub : Live(s)' /\ subs'[s].owner = tenant'.id => RecordThen(s, Len(mail') + 1)
  BY DEF LiveOnRecord, OnRecord, Completes, Ours, NoneOurs, RecordThen, OursThen, NoneThen, Live
<1>3. PaidIsFollowed' <=>
        (tenant'.paid =>
            \/ \E s \in Sub : Live(s)' /\ subs'[s].owner = tenant'.id
            \/ \E i \in 1..Len(mail') : /\ mail'[i].kind = "ended" /\ mail'[i].owner = tenant'.id
                                        /\ RecordThen(mail'[i].sub, i)
            \/ (Pending /\ hook.seen.paid)')
  <2>1. LiveOf(tenant.id)' # {} <=> \E s \in Sub : Live(s)' /\ subs'[s].owner = tenant'.id
    BY DEF LiveOf, Live
  <2> QED BY <2>1 DEF PaidIsFollowed, OnRecord, Completes, Ours, NoneOurs, RecordThen,
                      OursThen, NoneThen
<1> QED
  BY <1>1, <1>2, <1>3

(* A record lasts while no completion of the workspace's comes after it.   *)
LEMMA RecordKept ==
  ASSUME NEW s, NEW n \in Nat, NEW m \in Nat, n <= m, OnRecord(s, n),
         \A k \in 1..n - 1 : mail'[k] = mail[k],
         \A k \in n..m - 1 : ~OursThen(k),
         tenant'.id = tenant.id,
         tenant.sub = s /\ ~Pending => tenant'.sub = s /\ ~Pending'
  PROVE  RecordThen(s, m)
<1>1. ASSUME NEW a \in 1..n, NoneOurs(a, n - 1) PROVE NoneThen(a, m - 1)
  <2>1. ASSUME NEW k \in a..m - 1 PROVE ~OursThen(k)
    <3>1. CASE k >= n
      <4>1. k \in n..m - 1
        BY <3>1
      <4> QED BY <4>1
    <3>2. CASE k < n
      <4>1. k \in a..n - 1 /\ k \in 1..n - 1
        BY <3>2
      <4> QED BY <1>1, <4>1 DEF NoneOurs, Ours, OursThen
    <3> QED BY <3>1, <3>2
  <2> QED BY <2>1 DEF NoneThen
<1>2. CASE \E j \in 1..n - 1 : Completes(mail[j], s) /\ NoneOurs(j + 1, n - 1)
  <2>1. PICK j \in 1..n - 1 : Completes(mail[j], s) /\ NoneOurs(j + 1, n - 1)
    BY <1>2
  <2>2. j + 1 \in 1..n /\ j \in 1..m - 1
    OBVIOUS
  <2>3. NoneThen(j + 1, m - 1) /\ Completes(mail'[j], s)
    BY <1>1, <2>1, <2>2 DEF Completes
  <2> QED BY <2>2, <2>3 DEF RecordThen
<1>3. CASE tenant.sub = s /\ ~Pending /\ NoneOurs(1, n - 1)
  <2>1. NoneThen(1, m - 1)
    <3>1. CASE n >= 1
      <4>1. 1 \in 1..n
        BY <3>1
      <4> QED BY <1>1, <1>3, <4>1
    <3>2. CASE n = 0
      <4>1. \A k \in 1..m - 1 : k \in n..m - 1
        BY <3>2
      <4> QED BY <4>1 DEF NoneThen
    <3> QED BY <3>1, <3>2
  <2> QED BY <1>3, <2>1 DEF RecordThen
<1> QED
  BY <1>2, <1>3 DEF OnRecord

(* The same, seen once the first event is handled.                         *)
LEMMA NoneMoved ==
  ASSUME FirstGone, tenant'.id = tenant.id, NEW a \in Nat, NEW b \in Nat, a >= 1,
         b <= Len(mail), NoneOurs(a + 1, b)
  PROVE  NoneThen(a, b - 1)
<1>1. ASSUME NEW k \in a..b - 1 PROVE ~OursThen(k)
  <2>1. k \in 1..Len(mail') /\ k + 1 \in a + 1..b
    BY DEF FirstGone
  <2>2. mail'[k] = mail[k + 1] /\ ~Ours(mail[k + 1])
    BY <2>1 DEF FirstGone, NoneOurs
  <2> QED BY <2>2 DEF Ours, OursThen
<1> QED
  BY <1>1 DEF NoneThen

LEMMA RecordMoved ==
  ASSUME FirstGone, tenant'.id = tenant.id, NEW s, NEW n \in Nat,
         n >= 2, n <= Len(mail) + 1, OnRecord(s, n),
         Completes(mail[1], s) /\ NoneOurs(2, n - 1) => tenant'.sub = s /\ ~Pending',
         tenant.sub = s /\ ~Pending /\ ~Ours(mail[1]) => tenant'.sub = s /\ ~Pending'
  PROVE  RecordThen(s, n - 1)
<1>0. Len(mail) \in Nat
  BY DEF FirstGone
<1>1. ASSUME NoneOurs(2, n - 1), tenant'.sub = s, ~Pending' PROVE RecordThen(s, n - 1)
  <2>1. NoneOurs(1 + 1, n - 1)
    BY <1>1
  <2>2. NoneThen(1, (n - 1) - 1)
    <3>1. 1 \in Nat /\ n - 1 \in Nat /\ 1 >= 1 /\ n - 1 <= Len(mail)
      BY <1>0
    <3> QED BY <2>1, <3>1, NoneMoved
  <2> QED BY <1>1, <2>2 DEF RecordThen
<1>2. ASSUME NEW j \in 1..n - 1, Completes(mail[j], s), NoneOurs(j + 1, n - 1)
      PROVE  RecordThen(s, n - 1)
  <2>1. CASE j = 1
    <3>1. NoneOurs(2, n - 1)
      BY <1>2, <2>1
    <3> QED BY <1>1, <1>2, <2>1, <3>1
  <2>2. CASE j # 1
    <3>1. /\ j - 1 \in 1..Len(mail') /\ (j - 1) + 1 = j /\ j - 1 \in 1..(n - 1) - 1
          /\ j \in Nat /\ j >= 1 /\ n - 1 \in Nat /\ n - 1 <= Len(mail)
      BY <1>0, <2>2 DEF FirstGone
    <3>2. Completes(mail'[j - 1], s)
      BY <1>2, <3>1 DEF FirstGone, Completes
    <3>3. NoneThen(j, (n - 1) - 1)
      BY <1>2, <3>1, NoneMoved
    <3>4. NoneThen((j - 1) + 1, (n - 1) - 1)
      BY <3>1, <3>3
    <3> QED BY <3>1, <3>2, <3>4 DEF RecordThen
  <2> QED BY <2>1, <2>2
<1>3. CASE tenant.sub = s /\ ~Pending /\ NoneOurs(1, n - 1)
  <2>1. 1 \in 1..n - 1 /\ \A k \in 2..n - 1 : k \in 1..n - 1
    OBVIOUS
  <2>2. ~Ours(mail[1]) /\ NoneOurs(2, n - 1)
    BY <1>3, <2>1 DEF NoneOurs
  <2> QED BY <1>1, <1>3, <2>2
<1> QED
  BY <1>2, <1>3 DEF OnRecord

-----------------------------------------------------------------------------
(* Where no event is added or taken                                        *)

LEMMA EachEndsKept ==
  ASSUME IInv, EachEnds, UNCHANGED mail, tenant'.id = tenant.id,
         \A s \in Sub : Live(s) => Live(s)'
  PROVE  EachEnds'
<1>1. \A j \in 1..Len(mail) : mail[j].sub \in Sub
  BY DEF IInv, MailIsTrue, EventIsTrue, Opened
<1>2. \A j \in 1..Len(mail) : Live(mail[j].sub) => subs'[mail[j].sub].status = "active"
  BY <1>1 DEF Live
<1> QED
  BY <1>2 DEF EachEnds, NoneOurs, Ours, EndOf, Live

LEMMA AccountKept ==
  ASSUME IInv, LiveOnRecord, PaidIsFollowed, UNCHANGED mail, tenant'.id = tenant.id,
         \A s \in Sub : Live(s)' <=> Live(s),
         \A s \in Sub : Live(s) => subs'[s].owner = subs[s].owner,
         \A s : tenant.sub = s /\ ~Pending => tenant'.sub = s /\ ~Pending',
         tenant'.paid => tenant.paid,
         Pending /\ hook.seen.paid =>
            (Pending /\ hook.seen.paid)' \/ LiveOf(tenant.id) # {} \/ ~tenant'.paid
  PROVE  LiveOnRecord' /\ PaidIsFollowed'
<1>0. Len(mail) \in Nat
  BY LenProperties DEF IInv, ShapeOK
<1>1. ASSUME NEW s, NEW n \in Nat, OnRecord(s, n) PROVE RecordThen(s, n)
  <2>1. \A k \in n..n - 1 : FALSE
    OBVIOUS
  <2> QED BY <1>1, <2>1, RecordKept
<1>2. LiveOnRecord'
  <2>1. ASSUME NEW s \in Sub, Live(s)', subs'[s].owner = tenant'.id
        PROVE  RecordThen(s, Len(mail') + 1)
    <3>1. OnRecord(s, Len(mail) + 1) /\ Len(mail) + 1 \in Nat
      BY <1>0, <2>1 DEF LiveOnRecord
    <3> QED BY <1>1, <3>1
  <2> QED BY <2>1, Then
<1>3. PaidIsFollowed'
  <2>1. CASE LiveOf(tenant.id) # {}
    <3>1. \E s \in Sub : Live(s)' /\ subs'[s].owner = tenant'.id
      BY <2>1 DEF LiveOf
    <3> QED BY <3>1, Then
  <2>2. ASSUME NEW i \in 1..Len(mail), mail[i].kind = "ended", mail[i].owner = tenant.id,
               OnRecord(mail[i].sub, i)
        PROVE  PaidIsFollowed'
    <3>1. RecordThen(mail'[i].sub, i)
      BY <1>1, <2>2
    <3> QED BY <2>2, <3>1, Then
  <2>3. CASE Pending /\ hook.seen.paid
    BY <2>1, <2>3, Then
  <2> QED BY <2>1, <2>2, <2>3, Then DEF PaidIsFollowed
<1> QED
  BY <1>2, <1>3

-----------------------------------------------------------------------------
(* Where Stripe adds events                                                *)

LEMMA AccountedAtStripe ==
  ASSUME IInv, IInv', EachEnds, tenant.here => LiveOnRecord /\ PaidIsFollowed, NEW s \in Sub,
         NEW kinds \in {<<"updated">>, <<"ended">>, <<"updated", "completed">>},
         Restates(s, kinds),
         \A r \in Sub : r # s => (Live(r)' <=> Live(r)),
         \A r \in Sub : subs'[r].owner = subs[r].owner,
         \/ kinds = <<"updated">> /\ (Live(s)' <=> Live(s))
         \/ kinds = <<"ended">> /\ ~Live(s)'
         \/ /\ kinds = <<"updated", "completed">> /\ ~Live(s) /\ Live(s)'
            /\ LiveOf(subs[s].owner) = {}
  PROVE  EachEnds' /\ (tenant'.here => LiveOnRecord' /\ PaidIsFollowed')
<1> DEFINE n == Len(mail)
           m == Len(mail')
           id == tenant.id
<1>1. /\ n \in Nat /\ m = n + Len(kinds) /\ Len(kinds) \in 1..2 /\ m \in Nat
      /\ \A j \in 1..n : mail'[j] = mail[j]
      /\ tenant' = tenant /\ hook' = hook
  BY DEF Restates, Sent
<1>2. ASSUME NEW j \in n + 1..m
      PROVE  /\ mail'[j].sub = s /\ mail'[j].owner = subs[s].owner
             /\ mail'[j].kind = kinds[j - n]
  <2>1. j - n \in 1..Len(kinds) /\ n + (j - n) = j
    BY <1>1
  <2>2. mail'[j] = [kind |-> kinds[j - n], sub |-> s, plan |-> subs'[s].plan,
                    seats |-> subs'[s].seats, owner |-> subs'[s].owner]
    BY <2>1 DEF Restates, Sent
  <2> QED BY <2>2
<1>3. \A j \in 1..n : mail[j].sub \in Sub /\ subs[mail[j].sub].owner = mail[j].owner
  BY DEF IInv, MailIsTrue, EventIsTrue, Opened
<1>4. Pending' <=> Pending
  BY <1>1 DEF Pending
<1> HIDE DEF n, m, id
(* What is new is not of the workspace, or is of one newly paid for.       *)
<1>5. \/ \A k \in n + 1..m : ~OursThen(k)
      \/ /\ kinds = <<"updated", "completed">> /\ subs[s].owner = id /\ Live(s)'
         /\ LiveOf(id) = {} /\ m = n + 2 /\ mail'[m].kind = "completed" /\ mail'[m].sub = s
         /\ mail'[n + 1].kind = "updated"
  <2>1. CASE kinds = <<"updated">> \/ kinds = <<"ended">>
    <3>1. Len(kinds) = 1 /\ kinds[1] # "completed"
      BY <2>1
    <3>2. \A k \in n + 1..m : k - n = 1
      BY <1>1, <3>1
    <3> QED BY <1>2, <3>1, <3>2 DEF OursThen
  <2>2. CASE kinds = <<"updated", "completed">> /\ subs[s].owner # id
    BY <1>1, <1>2, <2>2 DEF OursThen, id
  <2>3. CASE kinds = <<"updated", "completed">> /\ subs[s].owner = id
    <3>1. Len(kinds) = 2 /\ kinds[1] = "updated" /\ kinds[2] = "completed"
      BY <2>3
    <3>2. m = n + 2 /\ m \in n + 1..m /\ m - n = 2 /\ n + 1 \in n + 1..m /\ (n + 1) - n = 1
      BY <1>1, <3>1
    <3>3. mail'[m].kind = "completed" /\ mail'[m].sub = s /\ mail'[n + 1].kind = "updated"
      BY <1>2, <3>1, <3>2
    <3>4. Live(s)' /\ LiveOf(id) = {}
      BY <2>3
    <3> QED BY <2>3, <3>2, <3>3, <3>4
  <2> QED BY <2>1, <2>2, <2>3
<1>6. ASSUME NEW a \in Nat, NEW b \in Nat, a >= 1, b <= n, NoneOurs(a, b) PROVE NoneThen(a, b)
  <2>1. ASSUME NEW k \in a..b PROVE ~OursThen(k)
    <3>1. k \in 1..n
      BY <1>1, <1>6
    <3> QED BY <1>1, <1>6, <3>1 DEF NoneOurs, Ours, OursThen
  <2> QED BY <2>1 DEF NoneThen
<1>7. ASSUME NEW a \in Nat, a >= 1, a <= n + 1, NoneOurs(a, n), \A k \in n + 1..m : ~OursThen(k)
      PROVE  NoneThen(a, m)
  <2>1. ASSUME NEW k \in a..m PROVE ~OursThen(k)
    <3>1. CASE k <= n
      <4>1. k \in a..n /\ NoneThen(a, n)
        BY <1>1, <1>6, <1>7, <3>1
      <4> QED BY <4>1 DEF NoneThen
    <3>2. CASE k > n
      <4>1. k \in n + 1..m
        BY <1>1, <3>2
      <4> QED BY <1>7, <4>1
    <3> QED BY <1>1, <3>1, <3>2
  <2> QED BY <2>1 DEF NoneThen
<1>8. ASSUME NEW t, NEW i \in Nat, i <= n + 1, OnRecord(t, i) PROVE RecordThen(t, i)
  <2>1. \A k \in 1..i - 1 : mail'[k] = mail[k]
    BY <1>1, <1>8
  <2>2. \A k \in i..i - 1 : FALSE
    OBVIOUS
  <2> QED BY <1>1, <1>4, <1>8, <2>1, <2>2, RecordKept
<1>9. ASSUME NEW t, OnRecord(t, n + 1), \A k \in n + 1..m : ~OursThen(k)
      PROVE  RecordThen(t, m + 1)
  <2>1. /\ n + 1 \in Nat /\ m + 1 \in Nat /\ n + 1 <= m + 1
        /\ \A k \in 1..(n + 1) - 1 : mail'[k] = mail[k]
        /\ \A k \in n + 1..(m + 1) - 1 : ~OursThen(k)
    BY <1>1, <1>9
  <2> QED BY <1>1, <1>4, <1>9, <2>1, RecordKept
<1>10. EachEnds'
  <2>1. ASSUME NEW j \in 1..m, OursThen(j)
        PROVE  \/ Live(mail[j].sub)' /\ NoneThen(j + 1, m)
               \/ \E i \in j + 1..m : EndOf(mail'[i], mail'[j].sub) /\ NoneThen(j + 1, i - 1)
    <3>1. CASE j > n
      <4>1. j \in n + 1..m
        BY <1>1, <3>1
      <4>2. /\ kinds = <<"updated", "completed">> /\ Live(s)' /\ m = n + 2
            /\ mail'[n + 1].kind = "updated" /\ mail'[m].sub = s
        BY <1>5, <2>1, <4>1
      <4>3. j = m
        <5>1. j # n + 1
          BY <2>1, <4>2 DEF OursThen
        <5> QED BY <1>1, <4>1, <4>2, <5>1
      <4>4. NoneThen(j + 1, m)
        BY <1>1, <4>3 DEF NoneThen
      <4> QED BY <4>2, <4>3, <4>4
    <3>2. CASE j <= n
      <4>1. j \in 1..n /\ mail'[j] = mail[j] /\ Ours(mail[j])
        BY <1>1, <2>1, <3>2 DEF Ours, OursThen
      <4> DEFINE c == mail[j].sub
      <4>2. c \in Sub /\ subs[c].owner = id
        BY <1>3, <4>1 DEF Ours, id
      <4>3. CASE \E i \in j + 1..n : EndOf(mail[i], c) /\ NoneOurs(j + 1, i - 1)
        <5>1. PICK i \in j + 1..n : EndOf(mail[i], c) /\ NoneOurs(j + 1, i - 1)
          BY <4>3
        <5>2. i \in j + 1..m /\ i \in 1..n /\ i - 1 \in Nat /\ i - 1 <= n
              /\ j + 1 \in Nat /\ j + 1 >= 1
          BY <1>1, <4>1
        <5>3. NoneThen(j + 1, i - 1) /\ EndOf(mail'[i], mail'[j].sub)
          BY <1>1, <1>6, <4>1, <5>1, <5>2
        <5> QED BY <5>2, <5>3
      <4>4. CASE Live(c) /\ NoneOurs(j + 1, n)
        <5>1. LiveOf(id) # {}
          BY <4>2, <4>4 DEF LiveOf
        <5>2. \A k \in n + 1..m : ~OursThen(k)
          BY <1>5, <5>1
        <5>3. j + 1 \in Nat /\ j + 1 >= 1 /\ j + 1 <= n + 1 /\ n <= n
          BY <1>1, <4>1
        <5>4. CASE kinds = <<"ended">> /\ c = s
          <6>1. n + 1 \in n + 1..m /\ n + 1 \in j + 1..m /\ (n + 1) - n = 1 /\ (n + 1) - 1 = n
            BY <1>1, <4>1
          <6>2. mail'[n + 1].kind = "ended" /\ mail'[n + 1].sub = s
            BY <1>2, <5>4, <6>1
          <6>3. NoneThen(j + 1, n)
            BY <1>1, <1>6, <4>4, <5>3
          <6>4. NoneThen(j + 1, (n + 1) - 1)
            BY <6>1, <6>3
          <6>5. EndOf(mail'[n + 1], mail'[j].sub)
            BY <4>1, <5>4, <6>2 DEF EndOf
          <6> QED BY <6>1, <6>4, <6>5
        <5>5. CASE ~(kinds = <<"ended">> /\ c = s)
          <6>1. NoneThen(j + 1, m)
            BY <1>7, <4>4, <5>2, <5>3
          <6>2. subs'[c].status = "active"
            BY <4>2, <4>4, <5>5 DEF Live
          <6> QED BY <4>1, <6>1, <6>2 DEF Live
        <5> QED BY <5>4, <5>5
      <4> QED BY <4>1, <4>3, <4>4 DEF EachEnds, n
    <3> QED BY <1>1, <3>1, <3>2
  <2> QED BY <2>1, Then DEF m
<1>11. ASSUME tenant'.here PROVE LiveOnRecord'
  <2>1. ASSUME NEW t \in Sub, Live(t)', subs'[t].owner = tenant'.id PROVE RecordThen(t, m + 1)
    <3>1. subs[t].owner = id
      BY <1>1, <2>1 DEF id
    <3>2. CASE \A k \in n + 1..m : ~OursThen(k)
      <4>1. Live(t)
        <5>1. CASE t # s
          BY <2>1, <5>1
        <5>2. CASE t = s
          <6>1. kinds # <<"updated", "completed">>
            <7>1. ASSUME kinds = <<"updated", "completed">> PROVE FALSE
              <8>1. Len(kinds) = 2 /\ kinds[2] = "completed"
                BY <7>1
              <8>2. n + 2 \in n + 1..m /\ (n + 2) - n = 2
                BY <1>1, <8>1
              <8> QED BY <1>1, <1>2, <3>1, <3>2, <5>2, <8>1, <8>2 DEF OursThen, id
            <7> QED BY <7>1
          <6> QED BY <2>1, <5>2, <6>1
        <5> QED BY <5>1, <5>2
      <4>2. OnRecord(t, n + 1)
        BY <1>1, <1>11, <3>1, <4>1 DEF LiveOnRecord, n, id
      <4> QED BY <1>9, <3>2, <4>2
    <3>3. CASE /\ kinds = <<"updated", "completed">> /\ subs[s].owner = id /\ Live(s)'
               /\ LiveOf(id) = {} /\ m = n + 2 /\ mail'[m].kind = "completed" /\ mail'[m].sub = s
               /\ mail'[n + 1].kind = "updated"
      <4>1. ~Live(t)
        BY <3>1, <3>3 DEF LiveOf
      <4>2. t = s
        BY <2>1, <4>1
      <4>3. m \in 1..(m + 1) - 1 /\ NoneThen(m + 1, (m + 1) - 1)
        BY <1>1, <3>3 DEF NoneThen
      <4> QED BY <3>3, <4>2, <4>3 DEF RecordThen, Completes
    <3> QED BY <1>5, <3>2, <3>3
  <2> QED BY <2>1, Then DEF m
<1>12. ASSUME tenant'.here PROVE PaidIsFollowed'
  <2>1. CASE \E t \in Sub : Live(t)' /\ subs'[t].owner = tenant'.id
    BY <2>1, Then
  <2>2. ASSUME NEW i \in 1..n, mail[i].kind = "ended", mail[i].owner = id,
               OnRecord(mail[i].sub, i)
        PROVE  PaidIsFollowed'
    <3>1. i \in 1..m /\ i \in Nat /\ i <= n + 1 /\ mail'[i] = mail[i]
      BY <1>1
    <3>2. RecordThen(mail'[i].sub, i)
      BY <1>8, <2>2, <3>1
    <3>3. mail'[i].kind = "ended" /\ mail'[i].owner = tenant'.id
      BY <1>1, <2>2, <3>1 DEF id
    <3> QED BY <3>1, <3>2, <3>3, Then DEF m
  <2>3. CASE Pending /\ hook.seen.paid
    <3>1. (Pending /\ hook.seen.paid)'
      BY <1>1, <1>4, <2>3
    <3> QED BY <3>1, Then
  <2>4. CASE LiveOf(id) # {}
    <3>1. PICK t \in Sub : Live(t) /\ subs[t].owner = id
      BY <2>4 DEF LiveOf
    <3>2. CASE Live(t)'
      BY <1>1, <2>1, <3>1, <3>2 DEF id
    <3>3. CASE ~Live(t)'
      <4>1. t = s /\ kinds = <<"ended">>
        BY <3>1, <3>3
      <4>2. OnRecord(s, n + 1)
        BY <1>1, <1>12, <3>1, <4>1 DEF LiveOnRecord, n, id
      <4>3. n + 1 \in n + 1..m /\ n + 1 \in 1..m /\ n + 1 \in Nat /\ n + 1 <= n + 1
            /\ (n + 1) - n = 1
        <5>1. n \in Nat /\ m \in Nat /\ m >= n + 1
          BY <1>1
        <5> QED BY <5>1
      <4>4. RecordThen(s, n + 1)
        BY <1>8, <4>2, <4>3
      <4>5. /\ mail'[n + 1].kind = "ended" /\ mail'[n + 1].owner = tenant'.id
            /\ mail'[n + 1].sub = s
        BY <1>1, <1>2, <3>1, <4>1, <4>3 DEF id
      <4> QED BY <4>3, <4>4, <4>5, Then DEF m
    <3> QED BY <3>2, <3>3
  <2> QED BY <1>1, <1>12, <2>2, <2>3, <2>4, Then DEF PaidIsFollowed, n, id
<1> QED
  BY <1>10, <1>11, <1>12

-----------------------------------------------------------------------------
(* Where an event is handled                                               *)

LEMMA EachEndsMoved ==
  ASSUME IInv, EachEnds, FirstGone, UNCHANGED subs, tenant'.id = tenant.id
  PROVE  EachEnds'
<1>0. Len(mail) \in Nat /\ Len(mail') = Len(mail) - 1
  BY DEF FirstGone
<1>1. ASSUME NEW j \in 1..Len(mail'), OursThen(j)
      PROVE  \/ Live(mail[j].sub)' /\ NoneThen(j + 1, Len(mail'))
             \/ \E i \in j + 1..Len(mail') :
                   EndOf(mail'[i], mail'[j].sub) /\ NoneThen(j + 1, i - 1)
  <2>1. j + 1 \in 1..Len(mail) /\ mail'[j] = mail[j + 1]
    BY <1>0 DEF FirstGone
  <2>2. Ours(mail[j + 1])
    BY <1>1, <2>1 DEF Ours, OursThen
  <2>3. CASE Live(mail[j + 1].sub) /\ NoneOurs((j + 1) + 1, Len(mail))
    <3>1. j + 1 \in Nat /\ j + 1 >= 1 /\ Len(mail) <= Len(mail)
      BY <1>0
    <3>2. NoneThen(j + 1, Len(mail'))
      BY <1>0, <2>3, <3>1, NoneMoved
    <3>3. Live(mail[j].sub)'
      BY <2>1, <2>3 DEF Live
    <3> QED BY <3>2, <3>3
  <2>4. CASE \E i \in (j + 1) + 1..Len(mail) :
                EndOf(mail[i], mail[j + 1].sub) /\ NoneOurs((j + 1) + 1, i - 1)
    <3>1. PICK i \in (j + 1) + 1..Len(mail) :
                EndOf(mail[i], mail[j + 1].sub) /\ NoneOurs((j + 1) + 1, i - 1)
      BY <2>4
    <3>2. /\ i - 1 \in j + 1..Len(mail') /\ i - 1 \in 1..Len(mail') /\ (i - 1) + 1 = i
          /\ j + 1 \in Nat /\ j + 1 >= 1 /\ i - 1 \in Nat /\ i - 1 <= Len(mail)
      BY <1>0
    <3>3. NoneThen(j + 1, (i - 1) - 1)
      BY <3>1, <3>2, NoneMoved
    <3>4. EndOf(mail'[i - 1], mail'[j].sub)
      BY <2>1, <3>1, <3>2 DEF FirstGone
    <3> QED BY <3>2, <3>3, <3>4
  <2> QED BY <2>1, <2>2, <2>3, <2>4 DEF EachEnds
<1> QED
  BY <1>1, Then

(* What is on record, or told later, is so once the first event is handled.*)
LEMMA AccountMoved ==
  ASSUME IInv, LiveOnRecord, FirstGone, UNCHANGED subs, tenant'.id = tenant.id,
         \A s \in LiveOf(tenant.id) :
            /\ Completes(mail[1], s) => tenant'.sub = s /\ ~Pending'
            /\ tenant.sub = s /\ ~Pending /\ ~Ours(mail[1]) => tenant'.sub = s /\ ~Pending'
  PROVE  LiveOnRecord'
<1>0. Len(mail) \in Nat /\ Len(mail) >= 1 /\ Len(mail') = Len(mail) - 1
  BY DEF FirstGone
<1>1. ASSUME NEW s \in Sub, Live(s)', subs'[s].owner = tenant'.id
      PROVE  RecordThen(s, Len(mail') + 1)
  <2>1. Live(s) /\ subs[s].owner = tenant.id
    BY <1>1 DEF Live
  <2>2. s \in LiveOf(tenant.id) /\ OnRecord(s, Len(mail) + 1)
    BY <2>1 DEF LiveOf, LiveOnRecord
  <2>3. /\ Len(mail) + 1 \in Nat /\ Len(mail) + 1 >= 2 /\ Len(mail) + 1 <= Len(mail) + 1
        /\ (Len(mail) + 1) - 1 = Len(mail') + 1
    BY <1>0
  <2>4. RecordThen(s, (Len(mail) + 1) - 1)
    BY <2>2, <2>3, RecordMoved
  <2> QED BY <2>3, <2>4
<1> QED
  BY <1>1, Then

LEMMA FollowedMoved ==
  ASSUME IInv, FirstGone, UNCHANGED subs, tenant'.id = tenant.id,
         NEW i \in 2..Len(mail), mail[i].kind = "ended", mail[i].owner = tenant.id,
         OnRecord(mail[i].sub, i),
         Completes(mail[1], mail[i].sub) /\ NoneOurs(2, i - 1) =>
            tenant'.sub = mail[i].sub /\ ~Pending',
         tenant.sub = mail[i].sub /\ ~Pending /\ ~Ours(mail[1]) =>
            tenant'.sub = mail[i].sub /\ ~Pending'
  PROVE  PaidIsFollowed'
<1>0. Len(mail) \in Nat /\ Len(mail') = Len(mail) - 1
  BY DEF FirstGone
<1>1. /\ i - 1 \in 1..Len(mail') /\ (i - 1) + 1 = i
      /\ i \in Nat /\ i >= 2 /\ i <= Len(mail) + 1
  BY <1>0
<1>2. mail'[i - 1] = mail[i]
  BY <1>1 DEF FirstGone
<1>3. RecordThen(mail[i].sub, i - 1)
  BY <1>1, RecordMoved
<1> QED
  BY <1>1, <1>2, <1>3, Then

LEMMA AccountedDelivered ==
  ASSUME IInv, EndsAreReal, EachEnds, tenant.here => LiveOnRecord /\ PaidIsFollowed,
         "recovered" \notin odd, "overtaken" \notin odd', "retried" \notin odd',
         NEW i \in 1..Len(mail), HandleCompleted(i) \/ HandleUpdated(i) \/ StartDowngrade(i)
  PROVE  EachEnds' /\ (tenant'.here => LiveOnRecord' /\ PaidIsFollowed')
<1>1. Delivered(i) /\ UNCHANGED subs
  BY DEF HandleCompleted, HandleUpdated, StartDowngrade
<1>2. i = 1 /\ FirstGone /\ hook.pc = "idle" /\ ~Pending
  BY <1>1, InTurn DEF Pending
<1>3. tenant \in Row /\ \A j \in 1..Len(mail) : /\ mail[j].sub \in Sub
                                               /\ subs[mail[j].sub].owner = mail[j].owner
  BY DEF IInv, TypeOK, MailIsTrue, EventIsTrue, Opened
<1>4. /\ 1 \in 1..Len(mail) /\ mail[1].sub \in Sub
      /\ subs[mail[1].sub].owner = mail[1].owner /\ mail[1].sub # NoSub
  BY <1>2, <1>3 DEF Sub, NoSub
<1>5. tenant'.here = tenant.here /\ tenant'.id = tenant.id
  BY <1>3 DEF HandleCompleted, HandleUpdated, StartDowngrade, Mirror, Row
<1>6. EachEnds'
  BY <1>1, <1>2, <1>5, EachEndsMoved
<1>7. ASSUME tenant.here, HandleCompleted(i) PROVE LiveOnRecord' /\ PaidIsFollowed'
  <2>1. LiveOnRecord /\ PaidIsFollowed /\ mail[1].kind = "completed" /\ hook' = hook
    BY <1>2, <1>7 DEF HandleCompleted
  <2>2. ~Pending'
    BY <1>2, <2>1 DEF Pending
  <2>3. CASE Concerns(mail[1])
    <3>1. mail[1].owner = tenant.id /\ Ours(mail[1])
      BY <2>1, <2>3 DEF Concerns, Ours
    <3>2. tenant'.sub = mail[1].sub
      <4>1. tenant' = [Mirror(tenant, mail[1]) EXCEPT
                         !.paid = TRUE, !.trial = IF tenant.trial = "none" THEN "running" ELSE @]
        BY <1>2, <1>7, <2>3 DEF HandleCompleted
      <4> QED BY <1>3, <4>1 DEF Mirror, Row
    <3>3. \A s : Completes(mail[1], s) => tenant'.sub = s /\ ~Pending'
      BY <2>2, <3>2 DEF Completes
    <3>4. LiveOnRecord'
      BY <1>1, <1>2, <1>5, <2>1, <3>1, <3>3, AccountMoved
    <3>5. CASE Live(mail[1].sub)
      <4>1. \E s \in Sub : Live(s)' /\ subs'[s].owner = tenant'.id
        BY <1>1, <1>4, <1>5, <3>1, <3>5 DEF Live
      <4> QED BY <3>4, <4>1, Then
    <3>6. CASE \E k \in 1 + 1..Len(mail) : EndOf(mail[k], mail[1].sub) /\ NoneOurs(1 + 1, k - 1)
      <4>1. PICK k \in 1 + 1..Len(mail) : EndOf(mail[k], mail[1].sub) /\ NoneOurs(1 + 1, k - 1)
        BY <3>6
      <4>2. k \in 2..Len(mail) /\ k \in 1..Len(mail) /\ 1 \in 1..k - 1 /\ k - 1 = k - 1
        BY <1>2 DEF FirstGone
      <4>3. OnRecord(mail[k].sub, k)
        BY <2>1, <4>1, <4>2 DEF OnRecord, Completes, EndOf
      <4>4. mail[k].kind = "ended" /\ mail[k].owner = tenant.id
        BY <1>3, <1>4, <3>1, <4>1, <4>2 DEF EndOf
      <4>5. PaidIsFollowed'
        BY <1>1, <1>2, <1>5, <3>1, <3>3, <4>2, <4>3, <4>4, FollowedMoved
      <4> QED BY <3>4, <4>5
    <3> QED BY <1>4, <3>1, <3>5, <3>6 DEF EachEnds
  <2>4. CASE ~Concerns(mail[1])
    <3>1. tenant' = tenant /\ mail[1].owner # tenant.id /\ ~Ours(mail[1])
      BY <1>2, <1>7, <2>4 DEF HandleCompleted, Concerns, Ours
    <3>2. \A s : tenant.sub = s => tenant'.sub = s /\ ~Pending'
      BY <2>2, <3>1
    <3>3. \A s \in LiveOf(tenant.id) : ~Completes(mail[1], s)
      BY <1>4, <3>1 DEF LiveOf, Completes
    <3>4. LiveOnRecord'
      BY <1>1, <1>2, <1>5, <2>1, <3>2, <3>3, AccountMoved
    <3>5. CASE LiveOf(tenant.id) # {}
      <4>1. \E s \in Sub : Live(s)' /\ subs'[s].owner = tenant'.id
        BY <1>1, <1>5, <3>5 DEF Live, LiveOf
      <4> QED BY <3>4, <4>1, Then
    <3>6. ASSUME NEW k \in 1..Len(mail), mail[k].kind = "ended", mail[k].owner = tenant.id,
                 OnRecord(mail[k].sub, k)
          PROVE  PaidIsFollowed'
      <4>1. k \in 2..Len(mail)
        BY <2>1, <3>6
      <4>2. ~Completes(mail[1], mail[k].sub)
        BY <1>3, <1>4, <3>1, <3>6 DEF Completes
      <4> QED BY <1>1, <1>2, <1>5, <3>2, <3>6, <4>1, <4>2, FollowedMoved
    <3>7. CASE ~tenant.paid
      BY <3>1, <3>4, <3>7, Then
    <3> QED BY <1>2, <2>1, <3>4, <3>5, <3>6, <3>7 DEF PaidIsFollowed
  <2> QED BY <2>3, <2>4
<1>8. ASSUME tenant.here, HandleUpdated(i) PROVE LiveOnRecord' /\ PaidIsFollowed'
  <2>1. LiveOnRecord /\ PaidIsFollowed /\ mail[1].kind = "updated" /\ hook' = hook
    BY <1>2, <1>8 DEF HandleUpdated
  <2>2. ~Pending' /\ ~Ours(mail[1]) /\ \A s : ~Completes(mail[1], s)
    BY <1>2, <2>1 DEF Pending, Ours, Completes
  <2>3. tenant'.paid = tenant.paid /\ (tenant.sub # NoSub => tenant'.sub = tenant.sub)
    BY <1>2, <1>3, <1>8 DEF HandleUpdated, Mirror, Row
  <2>4. \A s \in Sub : tenant.sub = s => tenant'.sub = s /\ ~Pending'
    BY <2>2, <2>3 DEF Sub, NoSub
  <2>5. LiveOnRecord'
    BY <1>1, <1>2, <1>5, <2>1, <2>2, <2>4, AccountMoved DEF LiveOf
  <2>6. CASE LiveOf(tenant.id) # {}
    <3>1. \E s \in Sub : Live(s)' /\ subs'[s].owner = tenant'.id
      BY <1>1, <1>5, <2>6 DEF Live, LiveOf
    <3> QED BY <2>5, <3>1, Then
  <2>7. ASSUME NEW k \in 1..Len(mail), mail[k].kind = "ended", mail[k].owner = tenant.id,
               OnRecord(mail[k].sub, k)
        PROVE  PaidIsFollowed'
    <3>1. k \in 2..Len(mail) /\ mail[k].sub \in Sub
      BY <1>3, <2>1, <2>7
    <3> QED BY <1>1, <1>2, <1>5, <2>2, <2>4, <2>7, <3>1, FollowedMoved
  <2>8. CASE ~tenant.paid
    BY <2>3, <2>5, <2>8, Then
  <2> QED BY <1>2, <2>1, <2>5, <2>6, <2>7, <2>8 DEF PaidIsFollowed
<1>9. ASSUME tenant.here, StartDowngrade(i) PROVE LiveOnRecord' /\ PaidIsFollowed'
  <2>1. LiveOnRecord /\ PaidIsFollowed /\ mail[1].kind = "ended" /\ tenant' = tenant
    BY <1>2, <1>9 DEF StartDowngrade
  <2>2. ~Ours(mail[1]) /\ \A s : ~Completes(mail[1], s)
    BY <2>1 DEF Ours, Completes
  <2>3. Stopped(mail[1].sub)
    BY <1>4, <2>1 DEF EndsAreReal
  <2>4. /\ Concerns(mail[1]) /\ tenant.sub \in {NoSub, mail[1].sub} =>
              Pending' /\ hook'.seen = tenant
        /\ ~(Concerns(mail[1]) /\ tenant.sub \in {NoSub, mail[1].sub}) => ~Pending'
    BY <1>2, <1>9, <2>1 DEF StartDowngrade, Pending
  <2>5. \A s \in LiveOf(tenant.id) : tenant.sub = s => ~Pending'
    BY <2>3, <2>4 DEF LiveOf, Live, Stopped, Sub, NoSub
  <2>6. LiveOnRecord'
    BY <1>1, <1>2, <1>5, <2>1, <2>2, <2>5, AccountMoved
  <2>7. CASE LiveOf(tenant.id) # {}
    <3>1. \E s \in Sub : Live(s)' /\ subs'[s].owner = tenant'.id
      BY <1>1, <1>5, <2>7 DEF Live, LiveOf
    <3> QED BY <2>6, <3>1, Then
  <2>8. CASE tenant.paid /\ Concerns(mail[1]) /\ tenant.sub \in {NoSub, mail[1].sub}
    <3>1. (Pending /\ hook.seen.paid)'
      BY <2>4, <2>8
    <3> QED BY <2>6, <3>1, Then
  <2>9. ASSUME ~(Concerns(mail[1]) /\ tenant.sub \in {NoSub, mail[1].sub}),
               NEW k \in 1..Len(mail), mail[k].kind = "ended", mail[k].owner = tenant.id,
               OnRecord(mail[k].sub, k)
        PROVE  PaidIsFollowed'
    <3>1. ~Pending'
      BY <2>4, <2>9
    <3>2. k # 1
      <4>1. ASSUME k = 1 PROVE FALSE
        <5>1. tenant.sub = mail[1].sub
          BY <2>9, <4>1 DEF OnRecord
        <5> QED BY <1>9, <2>9, <4>1, <5>1 DEF Concerns
      <4> QED BY <4>1
    <3>3. k \in 2..Len(mail)
      BY <3>2
    <3> QED BY <1>1, <1>2, <1>5, <2>1, <2>2, <2>9, <3>1, <3>3, FollowedMoved
  <2>10. CASE ~tenant.paid
    BY <2>1, <2>6, <2>10, Then
  <2> QED BY <1>2, <2>1, <2>6, <2>7, <2>8, <2>9, <2>10 DEF PaidIsFollowed
<1> QED
  BY <1>5, <1>6, <1>7, <1>8, <1>9

LEMMA AccountedStep ==
  Sizes /\ IInv /\ IInv' /\ DeletionClears /\ EndsAreReal /\ OneLive /\ Accounted /\ [Next]_vars
     => Accounted'
<1> SUFFICES ASSUME Sizes, IInv, IInv', DeletionClears, EndsAreReal, OneLive, Accounted,
                    [Next]_vars, InOrder'
             PROVE  EachEnds' /\ (tenant'.here => LiveOnRecord' /\ PaidIsFollowed')
  BY DEF Accounted
<1>1. odd \subseteq odd'
  BY LapsedStays DEF vars
<1>2. /\ "overtaken" \notin odd' /\ "retried" \notin odd' /\ "doubled" \notin odd'
      /\ "recovered" \notin odd' /\ "recovered" \notin odd /\ "doubled" \notin odd
      /\ EachEnds /\ (tenant.here => LiveOnRecord /\ PaidIsFollowed)
  BY <1>1 DEF InOrder, Accounted
<1>3. tenant \in Row /\ hook \in Hooks
  BY DEF IInv, TypeOK, ShapeOK
<1>4. CASE Register
  <2>1. /\ tenant'.id = tenant.id + 1 /\ ~tenant'.paid /\ UNCHANGED <<subs, mail>>
    BY <1>4 DEF Register, NoTenant
  <2>2. \A s \in Sub : subs[s].status # "none" => subs[s].owner # tenant.id + 1
    BY <1>3, SubsTyped DEF DeletionClears, Opened, Row
  <2>3. \A j \in 1..Len(mail) : mail[j].owner # tenant.id + 1
    BY <2>2 DEF IInv, MailIsTrue, EventIsTrue, Opened
  <2>4. \A j \in 1..Len(mail') : ~OursThen(j)
    BY <2>1, <2>3 DEF OursThen
  <2>5. \A s \in Sub : Live(s)' => subs'[s].owner # tenant'.id
    BY <2>1, <2>2 DEF Live
  <2> QED BY <2>1, <2>4, <2>5, Then
<1>5. CASE Erase
  <2>1. ~tenant'.here /\ tenant'.id = tenant.id /\ UNCHANGED <<subs, mail>>
    BY <1>5 DEF Erase, NoTenant
  <2> QED BY <1>2, <2>1, EachEndsKept DEF Live
<1>6. ASSUME UNCHANGED mail, tenant'.here = tenant.here, tenant'.id = tenant.id,
             \A s \in Sub : Live(s)' <=> Live(s),
             \A s \in Sub : Live(s) => subs'[s].owner = subs[s].owner,
             tenant.here => /\ \A s : tenant.sub = s /\ ~Pending => tenant'.sub = s /\ ~Pending'
                            /\ tenant'.paid => tenant.paid
                            /\ Pending /\ hook.seen.paid =>
                                  \/ (Pending /\ hook.seen.paid)'
                                  \/ LiveOf(tenant.id) # {} \/ ~tenant'.paid
      PROVE  EachEnds' /\ (tenant'.here => LiveOnRecord' /\ PaidIsFollowed')
  <2>1. EachEnds'
    BY <1>2, <1>6, EachEndsKept
  <2>2. tenant'.here => LiveOnRecord' /\ PaidIsFollowed'
    BY <1>2, <1>6, AccountKept
  <2> QED BY <2>1, <2>2
<1>7. CASE Still
  <2>1. /\ UNCHANGED <<subs, mail, hook>> /\ tenant'.here = tenant.here /\ tenant'.id = tenant.id
        /\ tenant'.sub = tenant.sub /\ tenant'.paid = tenant.paid
    BY <1>7 DEF Still
  <2>2. Pending' <=> Pending
    BY <2>1 DEF Pending
  <2> QED BY <1>6, <2>1, <2>2 DEF Live
<1>8. ASSUME NEW s \in Sub, NEW o \in Offer, Checkout(s, o[1], o[2])
      PROVE  EachEnds' /\ (tenant'.here => LiveOnRecord' /\ PaidIsFollowed')
  <2>1. /\ ~Live(s) /\ ~Live(s)' /\ \A r \in Sub : r # s => subs'[r] = subs[r]
        /\ UNCHANGED <<tenant, mail, hook>>
    BY <1>8, LiveSame
  <2>2. /\ \A r \in Sub : Live(r)' <=> Live(r)
        /\ \A r \in Sub : Live(r) => subs'[r].owner = subs[r].owner
    BY <2>1 DEF Live
  <2>3. Pending' <=> Pending
    BY <2>1 DEF Pending
  <2> QED BY <1>6, <2>1, <2>2, <2>3
<1>9. ASSUME NEW s \in Sub, Pay(s) \/ Closes(s) \/ Revised(s)
      PROVE  EachEnds' /\ (tenant'.here => LiveOnRecord' /\ PaidIsFollowed')
  <2>1. CASE Pay(s)
    BY <1>2, <2>1, LiveAfter, AccountedAtStripe
  <2>2. CASE Closes(s)
    BY <1>2, <2>2, LiveAfter, AccountedAtStripe
  <2>3. CASE Revised(s)
    BY <1>2, <2>3, LiveAfter, AccountedAtStripe
  <2> QED BY <1>9, <2>1, <2>2, <2>3
<1>10. ASSUME NEW s \in Sub, Recovers(s) PROVE FALSE
  BY <1>2, <1>10 DEF Recovers
<1>11. ASSUME NEW s \in LiveOf(tenant.id), Adopted(s)
       PROVE  EachEnds' /\ (tenant'.here => LiveOnRecord' /\ PaidIsFollowed')
  <2>1. /\ UNCHANGED <<subs, mail, hook>> /\ tenant.here /\ tenant'.here /\ tenant'.id = tenant.id
        /\ tenant'.sub = s /\ s \in Sub /\ Live(s) /\ subs[s].owner = tenant.id
    BY <1>11 DEF Adopted, LiveOf
  <2>2. EachEnds'
    BY <1>2, <2>1, EachEndsKept DEF Live
  <2>3. Pending' <=> Pending
    BY <2>1 DEF Pending
  <2>4. ASSUME NEW t \in Sub, Live(t)', subs'[t].owner = tenant'.id
        PROVE  RecordThen(t, Len(mail') + 1)
    <3>1. Live(t) /\ subs[t].owner = tenant.id
      BY <2>1, <2>4 DEF Live
    <3>2. t = s
      BY <1>2, <2>1, <3>1 DEF OneLive
    <3>3. OnRecord(t, Len(mail) + 1)
      BY <1>2, <2>1, <3>1 DEF LiveOnRecord
    <3>4. /\ Len(mail) \in Nat /\ Len(mail) + 1 \in Nat /\ Len(mail) + 1 <= Len(mail) + 1
          /\ \A k \in Len(mail) + 1..(Len(mail) + 1) - 1 : ~OursThen(k)
      <4>1. Len(mail) \in Nat
        BY LenProperties DEF IInv, ShapeOK
      <4>2. \A k \in Len(mail) + 1..(Len(mail) + 1) - 1 : FALSE
        BY <4>1
      <4> QED BY <4>1, <4>2
    <3>5. RecordThen(t, Len(mail) + 1)
      BY <2>1, <2>3, <3>2, <3>3, <3>4, RecordKept
    <3> QED BY <2>1, <3>5
  <2>5. LiveOnRecord'
    BY <2>4, Then
  <2>6. \E t \in Sub : Live(t)' /\ subs'[t].owner = tenant'.id
    BY <2>1 DEF Live
  <2>7. PaidIsFollowed'
    BY <2>6, Then
  <2> QED BY <2>2, <2>5, <2>7
<1>12. ASSUME NEW i \in 1..Len(mail), HandleCompleted(i) \/ HandleUpdated(i) \/ StartDowngrade(i)
       PROVE  EachEnds' /\ (tenant'.here => LiveOnRecord' /\ PaidIsFollowed')
  BY <1>2, <1>12, AccountedDelivered
<1>13. CASE AskStripe \/ StripeUnreachable
  <2>1. UNCHANGED <<tenant, subs, mail>> /\ hook.pc = "ask"
    BY <1>13 DEF AskStripe, StripeUnreachable
  <2>2. \/ hook'.pc = "write" /\ hook'.seen = hook.seen
        \/ hook' = NoHook /\ OtherLive(hook.seen.id, hook.sub) # {}
    BY <1>3, <1>13 DEF AskStripe, StripeUnreachable, Hooks
  <2>3. /\ Pending' => Pending
        /\ Pending /\ hook.seen.paid => (Pending /\ hook.seen.paid)' \/ LiveOf(tenant.id) # {}
    <3>1. CASE hook'.pc = "write" /\ hook'.seen = hook.seen
      BY <2>1, <3>1 DEF Pending
    <3>2. CASE hook' = NoHook /\ OtherLive(hook.seen.id, hook.sub) # {}
      BY <2>1, <3>2 DEF Pending, NoHook, OtherLive
    <3> QED BY <2>2, <3>1, <3>2
  <2> QED BY <1>6, <2>1, <2>3 DEF Live
<1>14. CASE WriteDowngrade
  <2>1. UNCHANGED <<subs, mail>> /\ hook.pc = "write" /\ hook' = NoHook
    BY <1>14 DEF WriteDowngrade
  <2>2. tenant'.here = tenant.here /\ tenant'.id = tenant.id
    BY <1>14, DowngradeEffect
  <2>3. ~Pending'
    BY <2>1 DEF Pending, NoHook
  <2>4. CASE ~(tenant.here /\ tenant.id = hook.seen.id)
    <3>1. tenant' = tenant
      BY <1>14, <2>4 DEF WriteDowngrade
    <3>2. tenant.here => ~Pending
      BY <2>4 DEF Pending
    <3> QED BY <1>6, <2>1, <2>2, <2>3, <3>1, <3>2 DEF Live
  <2>5. CASE tenant.here /\ tenant.id = hook.seen.id
    <3>1. tenant' = Downgraded(tenant, hook.seen) /\ Pending
      BY <1>14, <2>1, <2>5 DEF WriteDowngrade, Pending
    <3>2. tenant'.paid = IF hook.seen.paid THEN FALSE ELSE tenant.paid
      BY <1>3, <3>1 DEF Downgraded, Row
    <3> QED BY <1>6, <2>1, <2>2, <3>1, <3>2 DEF Live
  <2> QED BY <2>4, <2>5
<1> QED
  BY <1>4, <1>5, <1>7, <1>8, <1>9, <1>10, <1>11, <1>12, <1>13, <1>14, StepKinds

------------------------------------------------------------------

-----------------------------------------------------------------------------
(* Every invariant of payment, together.                                   *)
Money == DeletionClears /\ Grant /\ EndsAreReal /\ Served /\ OneLive /\ Accounted

LEMMA InitMoney == Sizes /\ Init => Money
<1> SUFFICES ASSUME Sizes, Init PROVE Money
  OBVIOUS
<1>1. Len(mail) = 0 /\ \A i \in 1..Len(mail) : FALSE
  BY DEF Init
<1>2. \A s \in Sub : ~Live(s) /\ ~Opened(s) /\ ~Billable(s)
  BY DEF Init, Live, Opened, Billable, Unopened
<1>3. ~tenant.here /\ tenant.sub = NoSub /\ owner.pc = "idle" /\ hook.pc = "idle"
  BY DEF Init, NoTenant, Idle, NoHook
<1>4. DeletionClears
  BY <1>2, <1>3 DEF DeletionClears
<1>5. Grant /\ EndsAreReal /\ Accounted
  BY <1>1, <1>3 DEF Grant, LastSays, TenantTold, StoreCharged, EndsAreReal, Accounted, EachEnds
<1>6. Served /\ OneLive
  BY <1>2 DEF Served, OneLive
<1> QED
  BY <1>4, <1>5, <1>6 DEF Money

LEMMA MoneyStep == Sizes /\ IInv /\ IInv' /\ Money /\ [Next]_vars => Money'
BY DeletionStep, GrantStep, EndsAreRealStep, ServedStep, OneLiveStep, AccountedStep DEF Money

LEMMA MoneyMeans ==
  IInv /\ Money => GrantMatchesBilling /\ PaidMeansBilled /\ BilledMeansPaid
<1> SUFFICES ASSUME IInv, Money, Quiet
             PROVE  GrantMatchesBilling /\ PaidMeansBilled /\ BilledMeansPaid
  BY DEF GrantMatchesBilling, PaidMeansBilled, BilledMeansPaid
<1>1. /\ \A i \in 1..Len(mail) : FALSE
      /\ owner.pc = "idle" /\ hook.pc = "idle" /\ tenant.here
  BY DEF Quiet, Idle, NoHook
<1>2. GrantMatchesBilling
  <2>1. \A s \in Sub : s # NoSub
    BY DEF Sub, NoSub
  <2> QED BY <1>1, <2>1 DEF Money, Grant, TenantTold, GrantMatchesBilling
<1>3. PaidMeansBilled
  BY <1>1 DEF Money, Accounted, InOrder, PaidIsFollowed, Pending, PaidMeansBilled
<1>4. BilledMeansPaid
  BY <1>1 DEF Money, Served, Completes, LiveOf, BilledMeansPaid
<1> QED
  BY <1>2, <1>3, <1>4

LEMMA MoneyHolds ==
  ASSUME Sizes PROVE Spec => [](IInv /\ Money)
<1>1. Init => IInv /\ Money
  BY InitIInv, InitMoney
<1>2. IInv /\ Money /\ [Next]_vars => (IInv /\ Money)'
  BY NextIInv, MoneyStep
<1> QED
  BY <1>1, <1>2, PTL DEF Spec

(* What the parts of the invariant say of the properties.                  *)
LEMMA InitDeletionClears == Init => DeletionClears
BY DEF Init, DeletionClears, Idle, NoTenant, Opened, Billable, Unopened

LEMMA DeletionMeans == DeletionClears => DeletedIsNotBilled
BY DEF DeletionClears, DeletedIsNotBilled, LiveOf, Live, Billable

LEMMA IInvMeans == IInv => TypeOK /\ PaidHasSubscription
BY DEF IInv, PaidIsBilled, PaidHasSubscription, Disturbed

-----------------------------------------------------------------------------
(* The theorems                                                            *)

(* Refinement: a workspace is given only what was billed for, and loses it *)
(* only after an end (billing/entitlement.py, api/billing.py), however     *)
(* Stripe's events, the owner's requests and crashes interleave, until an  *)
(* event is handled out of turn or the tenant changes under a handler that *)
(* waits for Stripe.                                                       *)
THEOREM BillingKeepsItsPromise ==
  ASSUME Sizes PROVE Spec => GivenWasBilled
<1>1. Init => IInv
  BY InitIInv
<1>2. IInv /\ [Next]_vars => IInv'
  BY NextIInv
<1>3. Init => Promise!Init
  BY InitPromise
<1>4. IInv /\ IInv' /\ [Next]_vars => [Promise!Next]_(Promise!vars)
  BY NextPromise
<1> QED
  BY <1>1, <1>2, <1>3, <1>4, PTL DEF Spec, GivenWasBilled, Promise!Spec

(* Nothing is billed for a workspace that was deleted (api/tenants.py),    *)
(* unless a checkout was paid after it or Stripe billed something never    *)
(* recorded.                                                               *)
THEOREM DeletionEndsBilling ==
  ASSUME Sizes PROVE Spec => []DeletedIsNotBilled
<1>1. Init => IInv
  BY InitIInv
<1>2. IInv /\ [Next]_vars => IInv'
  BY NextIInv
<1>3. Init => DeletionClears
  BY InitDeletionClears
<1>4. IInv /\ DeletionClears /\ [Next]_vars => DeletionClears'
  BY DeletionStep
<1>5. DeletionClears => DeletedIsNotBilled
  BY DeletionMeans
<1> QED
  BY <1>1, <1>2, <1>3, <1>4, <1>5, PTL DEF Spec

(* Whoever has a paid workspace has a subscription on record, so that      *)
(* changes of the plan go through Stripe and are charged.                  *)
THEOREM PaidIsOnRecord ==
  ASSUME Sizes PROVE Spec => []PaidHasSubscription
<1>1. Init => IInv
  BY InitIInv
<1>2. IInv /\ [Next]_vars => IInv'
  BY NextIInv
<1>3. IInv => PaidHasSubscription
  BY IInvMeans
<1> QED
  BY <1>1, <1>2, <1>3, PTL DEF Spec

(* Once every event is handled, a workspace has the plan and the seats its *)
(* subscription is billed for (_apply_subscription, set_mailbox_seats and  *)
(* change_plan), unless events came out of order or a change raced one.    *)
THEOREM GrantIsWhatIsBilled ==
  ASSUME Sizes PROVE Spec => []GrantMatchesBilling
BY MoneyHolds, MoneyMeans, PTL

(* Once every event is handled, a workspace is only paid for while Stripe  *)
(* bills it (_downgrade_to_guard), unless it had two subscriptions or one  *)
(* came back to life, or an event came out of order or again.              *)
THEOREM PaidIsBilledFor ==
  ASSUME Sizes PROVE Spec => []PaidMeansBilled
BY MoneyHolds, MoneyMeans, PTL

(* Once every event is handled, a customer Stripe bills has the protection *)
(* paid for (_activate_paid_plan and _has_another_live_subscription).      *)
THEOREM BilledIsPaid ==
  ASSUME Sizes PROVE Spec => []BilledMeansPaid
BY MoneyHolds, MoneyMeans, PTL
=============================================================================

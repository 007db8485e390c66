------------------------------ MODULE Billing ------------------------------
(***************************************************************************)
(* One company's money: its workspaces on one domain, its subscriptions at *)
(* Stripe, the events Stripe sends about them and the owner's own requests *)
(* (api/billing.py, and the plan, signup and deletion handlers of          *)
(* api/tenants.py and api/auth.py).                                        *)
(*                                                                         *)
(* A handler is cut where it waits for Stripe: the tenant it has loaded is *)
(* then a snapshot, and its commit writes the columns it changed.          *)
(***************************************************************************)
EXTENDS Entitlement, FiniteSets

CONSTANTS
    MaxSubs,        \* bound: checkouts opened, numbered in order
    MaxSeats,       \* extra seats on a subscription: 0..MaxSeats
    MaxTenants,     \* workspaces registered on the domain, one after another
    Offer,          \* the pairs of plan and extra seats put in a checkout
    MaxChanges,     \* bound: the owner's changes, here and in the portal
    MaxFaults,      \* bound: crashes, failed calls, events retried or reordered
    MaxMail         \* bound: events on their way

Sub == 1..MaxSubs
NoSub == 0

VARIABLES
    tenant,     \* the domain's tenant row
    ledger,     \* the domain's row in the trial ledger exists
    trials,     \* trials given to the domain (history)
    subs,       \* the subscriptions at Stripe
    mail,       \* events Stripe has yet to deliver, oldest first
    owner,      \* the owner's request in progress
    hook,       \* the downgrade in progress
    billed,     \* the plans and seats billed for so far (history)
    odd,        \* which rare things have happened (history)
    spent       \* how much of each bound is used

vars == <<tenant, ledger, trials, subs, mail, owner, hook, billed, odd, spent>>

NoTenant == [here |-> FALSE, id |-> 0, plan |-> "guard", paid |-> FALSE,
             trial |-> "none", seats |-> 0, sub |-> NoSub, active |-> TRUE]
Unopened == [status |-> "none", plan |-> "essential", seats |-> 0, owner |-> 0]
Idle == [pc |-> "idle", kind |-> "none", sub |-> NoSub, plan |-> "guard", seats |-> 0]
NoHook == [pc |-> "idle", sub |-> NoSub, seen |-> NoTenant]

Init ==
    /\ tenant = NoTenant /\ ledger = FALSE /\ trials = 0
    /\ subs = [s \in Sub |-> Unopened]
    /\ mail = <<>> /\ owner = Idle /\ hook = NoHook
    /\ billed = {} /\ odd = {}
    /\ spent = [changes |-> 0, faults |-> 0]

Within(what, bound) ==
    /\ spent[what] < bound
    /\ spent' = [spent EXCEPT ![what] = @ + 1]

(* What Stripe bills, and what it will still let us change.                *)
Live(s) == subs[s].status = "active"
Billable(s) == subs[s].status \in {"active", "unpaid"}
Items(id, p, n) == {<<id, "plan", p>>, <<id, "seats", n>>}

(* find_live_subscription_for_tenant: a search by the tenant id in the     *)
(* subscription's metadata.                                                *)
LiveOf(id) == {s \in Sub : Live(s) /\ subs[s].owner = id}

Event(kind, s) == [kind |-> kind, sub |-> s, plan |-> subs[s].plan,
                   seats |-> subs[s].seats, owner |-> subs[s].owner]

(* What the webhook makes of a subscription's status.                      *)
Kind(status) == IF status \in {"ended", "unpaid"} THEN "ended" ELSE "updated"

(* _apply_subscription: plan, seats and id, never payment_method_ok.       *)
MirrorPlan(t, e) == [t EXCEPT !.plan = e.plan, !.sub = e.sub]
Mirror(t, e) == [t EXCEPT !.plan = e.plan, !.seats = e.seats, !.sub = e.sub]

-----------------------------------------------------------------------------
(* The workspace                                                           *)

(* Signup starts a trial on the top plan, once per domain.                 *)
Register ==
    /\ ~tenant.here /\ tenant.id < MaxTenants /\ owner = Idle
    /\ LET fresh == [NoTenant EXCEPT !.here = TRUE, !.id = tenant.id + 1] IN
       IF ledger
       THEN /\ tenant' = fresh
            /\ UNCHANGED <<ledger, trials>>
       ELSE /\ tenant' = [fresh EXCEPT !.plan = "complete", !.trial = "running"]
            /\ ledger' = TRUE
            /\ trials' = trials + 1
    /\ UNCHANGED <<subs, mail, owner, hook, billed, odd, spent>>

TrialEnds ==
    /\ tenant.here /\ tenant.trial = "running"
    /\ tenant' = [tenant EXCEPT !.trial = "over"]
    /\ UNCHANGED <<ledger, trials, subs, mail, owner, hook, billed, odd, spent>>

(* change_plan of a tenant without a subscription.                         *)
PickPlan(p) ==
    /\ owner = Idle /\ tenant.here /\ tenant.sub = NoSub
    /\ p = "guard" \/ tenant.trial = "running" \/ tenant.paid
    /\ p # tenant.plan
    /\ Within("changes", MaxChanges)
    /\ tenant' = [tenant EXCEPT !.plan = p]
    /\ UNCHANGED <<ledger, trials, subs, mail, owner, hook, billed, odd>>

-----------------------------------------------------------------------------
(* Stripe                                                                  *)

(* create_checkout: refused while our record or Stripe shows a             *)
(* subscription; one that only Stripe knows is adopted. The returned page  *)
(* can be paid at any later time.                                          *)
Checkout(s, p, n) ==
    /\ owner = Idle /\ tenant.here /\ tenant.sub = NoSub
    /\ LiveOf(tenant.id) = {}
    /\ s \in Sub /\ s = 1 + Cardinality({r \in Sub : subs[r].status # "none"})
    /\ subs' = [subs EXCEPT ![s] = [status |-> "open", plan |-> p, seats |-> n,
                                    owner |-> tenant.id]]
    /\ UNCHANGED <<tenant, ledger, trials, mail, owner, hook, billed, odd, spent>>

(* _adopt_existing_subscription.                                           *)
Adopt(s) ==
    /\ tenant' = [Mirror(tenant, Event("adopted", s)) EXCEPT !.paid = TRUE]
    /\ odd' = odd \cup (IF hook = NoHook THEN {} ELSE {"raced"})

AdoptAtCheckout ==
    /\ owner = Idle /\ tenant.here /\ tenant.sub = NoSub
    /\ \E s \in LiveOf(tenant.id) : Adopt(s)
    /\ UNCHANGED <<ledger, trials, subs, mail, owner, hook, billed, spent>>

Bills(s) == billed' = billed \cup Items(subs'[s].owner, subs'[s].plan, subs'[s].seats)

Says(kinds, s) ==
    /\ Len(mail) + Len(kinds) <= MaxMail
    /\ mail' = mail \o [i \in 1..Len(kinds) |->
                       [kind |-> kinds[i], sub |-> s, plan |-> subs'[s].plan,
                        seats |-> subs'[s].seats, owner |-> subs'[s].owner]]

(* The customer pays a checkout page.                                      *)
Pay(s) ==
    /\ subs[s].status = "open"
    /\ subs' = [subs EXCEPT ![s].status = "active"]
    /\ odd' = odd \cup (IF LiveOf(subs[s].owner) # {} THEN {"doubled"} ELSE {})
                  \cup (IF tenant.here /\ tenant.id = subs[s].owner /\ owner.kind # "delete"
                        THEN {} ELSE {"late"})
    /\ Says(<<"updated", "completed">>, s)
    /\ Bills(s)
    /\ UNCHANGED <<tenant, ledger, trials, owner, hook, spent>>

(* Cancelled in the portal, or given up on after failed payments.          *)
Ends(s) ==
    /\ Billable(s)
    /\ subs' = [subs EXCEPT ![s].status = "ended"]
    /\ Says(<<Kind("ended")>>, s)
    /\ UNCHANGED <<tenant, ledger, trials, owner, hook, billed, odd, spent>>

(* Dunning that marks a subscription unpaid, and a payment that brings it  *)
(* back.                                                                   *)
GoesUnpaid(s) ==
    /\ Live(s)
    /\ Within("changes", MaxChanges)
    /\ subs' = [subs EXCEPT ![s].status = "unpaid"]
    /\ Says(<<Kind("unpaid")>>, s)
    /\ UNCHANGED <<tenant, ledger, trials, owner, hook, billed, odd>>

Recovers(s) ==
    /\ subs[s].status = "unpaid"
    /\ subs' = [subs EXCEPT ![s].status = "active"]
    /\ odd' = odd \cup {"recovered"}
                  \cup (IF LiveOf(subs[s].owner) # {} THEN {"doubled"} ELSE {})
    /\ Says(<<"updated">>, s)
    /\ Bills(s)
    /\ UNCHANGED <<tenant, ledger, trials, owner, hook, spent>>

(* Plan or seats changed in the portal or the Stripe dashboard.            *)
PortalChange(s, p, n) ==
    /\ Live(s) /\ <<p, n>> # <<subs[s].plan, subs[s].seats>>
    /\ Within("changes", MaxChanges)
    /\ subs' = [subs EXCEPT ![s].plan = p, ![s].seats = n]
    /\ odd' = odd \cup (IF owner.pc = "store" THEN {"crossed"} ELSE {})
    /\ Says(<<"updated">>, s)
    /\ Bills(s)
    /\ UNCHANGED <<tenant, ledger, trials, owner, hook>>

-----------------------------------------------------------------------------
(* The webhook                                                             *)

Remove(i) == SubSeq(mail, 1, i - 1) \o SubSeq(mail, i + 1, Len(mail))

(* Delivery i is handled and answered, out of turn or not; or the answer   *)
(* is lost and Stripe will deliver it again.                               *)
Delivered(i) ==
    /\ i \in 1..Len(mail)
    /\ IF i > 1 \/ hook.pc # "idle"
       THEN /\ mail' = Remove(i)
            /\ Within("faults", MaxFaults)
            /\ odd' = odd \cup {"overtaken"}
       ELSE \/ mail' = Remove(i) /\ UNCHANGED <<spent, odd>>
            \/ /\ mail' = Append(Remove(i), mail[i])
               /\ Within("faults", MaxFaults)
               /\ odd' = odd \cup {"retried"}

Concerns(e) == tenant.here /\ tenant.id = e.owner

(* _activate_paid_plan.                                                    *)
HandleCompleted(i) ==
    /\ Delivered(i)
    /\ LET e == mail[i] IN
       /\ e.kind = "completed"
       /\ IF Concerns(e)
          THEN LET first == tenant.trial = "none" IN
               /\ tenant' = [Mirror(tenant, e) EXCEPT
                               !.paid = TRUE,
                               !.trial = IF first THEN "running" ELSE @]
               /\ ledger' = TRUE
               /\ trials' = IF first THEN trials + 1 ELSE trials
          ELSE UNCHANGED <<tenant, ledger, trials>>
    /\ UNCHANGED <<subs, owner, hook, billed>>

(* customer.subscription.created and .updated.                             *)
HandleUpdated(i) ==
    /\ Delivered(i)
    /\ LET e == mail[i] IN
       /\ e.kind = "updated"
       /\ tenant' = IF Concerns(e) /\ tenant.sub \in {NoSub, e.sub}
                    THEN Mirror(tenant, e) ELSE tenant
    /\ UNCHANGED <<ledger, trials, subs, owner, hook, billed>>

(* _downgrade_to_guard reads the tenant, asks Stripe for another live      *)
(* subscription, and writes.                                               *)
StartDowngrade(i) ==
    /\ hook.pc = "idle"
    /\ Delivered(i)
    /\ LET e == mail[i] IN
       /\ e.kind = "ended"
       /\ hook' = IF Concerns(e) /\ tenant.sub \in {NoSub, e.sub}
                  THEN [pc |-> "ask", sub |-> e.sub, seen |-> tenant] ELSE hook
    /\ UNCHANGED <<tenant, ledger, trials, subs, owner, billed>>

(* _has_another_live_subscription.                                         *)
OtherLive(id, s) == LiveOf(id) \ {s}

AskStripe ==
    /\ hook.pc = "ask"
    /\ hook' = IF OtherLive(hook.seen.id, hook.sub) = {}
               THEN [hook EXCEPT !.pc = "write"] ELSE NoHook
    /\ UNCHANGED <<tenant, ledger, trials, subs, mail, owner, billed, odd, spent>>

(* A failed lookup counts as "no other subscription".                      *)
StripeUnreachable ==
    /\ hook.pc = "ask"
    /\ Within("faults", MaxFaults)
    /\ hook' = [hook EXCEPT !.pc = "write"]
    /\ odd' = odd \cup (IF OtherLive(hook.seen.id, hook.sub) = {} THEN {} ELSE {"unasked"})
    /\ UNCHANGED <<tenant, ledger, trials, subs, mail, owner, billed>>

(* The commit writes a column only if it differs from the one loaded.      *)
Downgraded(now, seen) ==
    [now EXCEPT !.plan  = IF seen.plan = "guard" THEN @ ELSE "guard",
                !.paid  = IF seen.paid THEN FALSE ELSE @,
                !.sub   = IF seen.sub = NoSub THEN @ ELSE NoSub,
                !.seats = IF seen.seats = 0 THEN @ ELSE 0]

WriteDowngrade ==
    /\ hook.pc = "write"
    /\ hook' = NoHook
    /\ tenant' = IF tenant.here /\ tenant.id = hook.seen.id
                 THEN Downgraded(tenant, hook.seen) ELSE tenant
    /\ UNCHANGED <<ledger, trials, subs, mail, owner, billed, odd, spent>>

-----------------------------------------------------------------------------
(* The owner's requests that change a subscription                         *)

AskChangeStoredFirst(kind, p, n) ==
    /\ owner = Idle /\ tenant.here /\ tenant.sub # NoSub
    /\ kind = "plan" /\ p # tenant.plan /\ n = tenant.seats
    /\ Within("changes", MaxChanges)
    /\ owner' = [pc |-> "store", kind |-> kind, sub |-> tenant.sub, plan |-> p,
                 seats |-> n]
    /\ UNCHANGED <<tenant, ledger, trials, subs, mail, hook, billed, odd>>

(* set_mailbox_seats and change_plan of a subscriber.                      *)
AskChange(kind, p, n) ==
    /\ owner = Idle /\ tenant.here /\ tenant.sub # NoSub
    /\ \/ kind = "seats" /\ n # tenant.seats /\ p = tenant.plan
       \/ kind = "plan" /\ p # tenant.plan /\ n = tenant.seats
    /\ Within("changes", MaxChanges)
    /\ owner' = [pc |-> "resolve", kind |-> kind, sub |-> tenant.sub, plan |-> p,
                 seats |-> n]
    /\ UNCHANGED <<tenant, ledger, trials, subs, mail, hook, billed, odd>>

(* _live_subscription: the recorded one if Stripe still bills on it, else  *)
(* the one Stripe knows, adopted; else the request is refused.             *)
Resolve ==
    /\ owner.pc = "resolve"
    /\ LET others == LiveOf(tenant.id) \ {owner.sub} IN
       \/ /\ Billable(owner.sub)
          /\ owner' = [owner EXCEPT !.pc = "charge"]
          /\ UNCHANGED <<tenant, odd>>
       \/ /\ ~Billable(owner.sub)
          /\ \E s \in others : /\ Adopt(s)
                               /\ owner' = [owner EXCEPT !.pc = "charge", !.sub = s]
       \/ /\ ~Billable(owner.sub) /\ others = {}
          /\ owner' = Idle
          /\ UNCHANGED <<tenant, odd>>
    /\ UNCHANGED <<ledger, trials, subs, mail, hook, billed, spent>>

(* update_subscription: Stripe takes the money and applies the change...   *)
Charge ==
    /\ owner.pc = "charge" /\ Billable(owner.sub)
    /\ LET s == owner.sub IN
       /\ subs' = [subs EXCEPT ![s].plan  = IF owner.kind = "plan" THEN owner.plan ELSE @,
                               ![s].seats = IF owner.kind = "seats" THEN owner.seats ELSE @]
       /\ Says(<<"updated">>, s)
       /\ Bills(s)
    /\ owner' = [owner EXCEPT !.pc = "store"]
    /\ UNCHANGED <<tenant, ledger, trials, hook, odd, spent>>

(* ... or declines it as a whole.                                          *)
Decline ==
    /\ owner.pc = "charge"
    /\ owner' = Idle
    /\ UNCHANGED <<tenant, ledger, trials, subs, mail, hook, billed, odd, spent>>

Changed(t) ==
    [t EXCEPT !.plan  = IF owner.kind = "plan" THEN owner.plan ELSE @,
              !.seats = IF owner.kind = "seats" THEN owner.seats ELSE @]

Store ==
    /\ owner.pc = "store"
    /\ tenant' = Changed(tenant)
    /\ odd' = odd \cup (IF tenant.sub = owner.sub THEN {} ELSE {"crossed"})
    /\ owner' = Idle
    /\ UNCHANGED <<ledger, trials, subs, mail, hook, billed, spent>>

(* The process dies, or its commit fails, after Stripe was asked.          *)
Dies ==
    /\ owner.pc \in {"charge", "store", "erase"}
    /\ Within("faults", MaxFaults)
    /\ owner' = Idle
    /\ UNCHANGED <<tenant, ledger, trials, subs, mail, hook, billed, odd>>

(* delete_tenant cancels the recorded subscription before it erases.       *)
AskDelete ==
    /\ owner = Idle /\ tenant.here
    /\ Within("changes", MaxChanges)
    /\ owner' = [Idle EXCEPT !.pc = "cancel", !.kind = "delete", !.sub = tenant.sub]
    /\ odd' = odd \cup (IF \A s \in Sub \ {tenant.sub} :
                               ~(Billable(s) /\ subs[s].owner = tenant.id)
                         THEN {} ELSE {"unrecorded"})
    /\ UNCHANGED <<tenant, ledger, trials, subs, mail, hook, billed>>

MustCancel == owner.sub # NoSub /\ Billable(owner.sub)

CancelAtStripe ==
    /\ owner.pc = "cancel"
    /\ owner' = [owner EXCEPT !.pc = "erase"]
    /\ IF MustCancel
       THEN /\ subs' = [subs EXCEPT ![owner.sub].status = "ended"]
            /\ Says(<<"ended">>, owner.sub)
       ELSE UNCHANGED <<subs, mail>>
    /\ UNCHANGED <<tenant, ledger, trials, hook, billed, odd, spent>>

CannotCancel ==
    /\ owner.pc = "cancel" /\ owner.sub # NoSub
    /\ Within("faults", MaxFaults)
    /\ owner' = Idle
    /\ UNCHANGED <<tenant, ledger, trials, subs, mail, hook, billed, odd>>

(* The rows go; the trial ledger stays.                                    *)
Erase ==
    /\ owner.pc = "erase"
    /\ tenant' = [NoTenant EXCEPT !.id = tenant.id]
    /\ owner' = Idle
    /\ UNCHANGED <<ledger, trials, subs, mail, hook, billed, odd, spent>>

-----------------------------------------------------------------------------
Deliver == \E i \in 1..Len(mail) :
              HandleCompleted(i) \/ HandleUpdated(i) \/ StartDowngrade(i)
Downgrade == AskStripe \/ StripeUnreachable \/ WriteDowngrade

Request == \/ \E p \in PaidPlan \cup {"guard"} : PickPlan(p)
           \/ \E s \in Sub, o \in Offer : Checkout(s, o[1], o[2])
           \/ \E p \in PaidPlan, n \in 0..MaxSeats, kind \in {"seats", "plan"} :
                AskChange(kind, p, n)
           \/ AdoptAtCheckout \/ Resolve \/ Charge \/ Decline \/ Store \/ Dies
           \/ AskDelete \/ CancelAtStripe \/ CannotCancel \/ Erase

Stripe == \E s \in Sub :
            \/ Pay(s) \/ Ends(s) \/ GoesUnpaid(s) \/ Recovers(s)
            \/ \E p \in PaidPlan, n \in 0..MaxSeats : PortalChange(s, p, n)

Next == Register \/ TrialEnds \/ Request \/ Stripe \/ Deliver \/ Downgrade

Spec == Init /\ [][Next]_vars
-----------------------------------------------------------------------------
(* Properties                                                              *)

SubOrNone == Sub \cup {NoSub}
Row == [here : BOOLEAN, id : 0..MaxTenants, plan : PaidPlan \cup {"guard"},
        paid : BOOLEAN, trial : {"none", "running", "over"}, seats : 0..MaxSeats,
        sub : SubOrNone, active : BOOLEAN]

(* Every variable keeps its shape.                                         *)
TypeOK ==
    /\ tenant \in Row
    /\ ledger \in BOOLEAN /\ trials \in Nat
    /\ subs \in [Sub -> [status : {"none", "open", "active", "unpaid", "ended"},
                         plan : PaidPlan, seats : 0..MaxSeats, owner : 0..MaxTenants]]
    /\ hook.pc \in {"idle", "ask", "write"} /\ hook.sub \in SubOrNone /\ hook.seen \in Row
    /\ owner.pc \in {"idle", "resolve", "charge", "store", "cancel", "erase"}

Quiet == mail = <<>> /\ owner = Idle /\ hook = NoHook /\ tenant.here

(* Once every event is handled, a workspace has the plan and the seats its *)
(* recorded live subscription is billed for, even when the process died    *)
(* between the charge and the commit, unless events came out of order or a *)
(* change at Stripe raced one here.                                        *)
GrantMatchesBilling ==
    Quiet /\ odd \cap {"overtaken", "raced", "crossed", "retried", "late"} = {} =>
        \A s \in Sub : tenant.sub = s /\ Live(s) =>
            tenant.plan = subs[s].plan /\ tenant.seats = subs[s].seats

(* Once every event is handled, a workspace is only paid for while Stripe  *)
(* bills it, unless two subscriptions lived side by side, one came back to *)
(* life, or an event was delivered out of order or again.                  *)
PaidMeansBilled ==
    Quiet /\ odd \cap {"overtaken", "retried", "doubled", "recovered"} = {} =>
        (tenant.paid => LiveOf(tenant.id) # {})

(* Once every event is handled, a customer Stripe bills has the protection *)
(* paid for, unless the subscription had gone unpaid and come back.        *)
BilledMeansPaid ==
    Quiet /\ odd \cap {"recovered", "overtaken", "unasked"} = {} =>
        (LiveOf(tenant.id) # {} => tenant.paid)

(* Nothing is billed for a workspace that was deleted, unless a checkout   *)
(* was paid after it or Stripe billed something never recorded.            *)
DeletedIsNotBilled ==
    ~tenant.here /\ odd \cap {"late", "unrecorded", "doubled"} = {} =>
        LiveOf(tenant.id) = {}

(* Whoever has a paid workspace has a subscription on record, so plan      *)
(* changes go through Stripe and are charged.                              *)
PaidHasSubscription ==
    odd \cap {"overtaken", "raced"} = {} => (tenant.paid => tenant.sub # NoSub)

(* Refinement: a workspace is given what was billed for, and loses it only *)
(* after an end, until an event is handled out of turn or the tenant       *)
(* changes under a handler that waits for Stripe.                          *)
Disturbed == odd \cap {"overtaken", "raced"} # {}

Promise == INSTANCE PaidAccess WITH
    Item   <- UNION {Items(id, p, n) : id \in 1..MaxTenants, p \in PaidPlan,
                                       n \in 0..MaxSeats},
    billed <- billed,
    ended  <- \/ Disturbed \/ "recovered" \in odd
              \/ tenant.id > (IF tenant.here THEN 1 ELSE 0)
              \/ \E s \in Sub : subs[s].status \in {"unpaid", "ended"},
    access <- IF tenant.here /\ tenant.paid /\ tenant.plan # "guard" /\ ~Disturbed
              THEN Items(tenant.id, tenant.plan, tenant.seats) ELSE {}

GivenWasBilled == Promise!Spec

(* "One trial per registrable domain, ever" (api/auth.py).                 *)
OneTrialPerDomain == trials <= 1

(* A retried event changes nothing once the subscription has ended         *)
(* ("Idempotent — Stripe retries webhooks", api/billing.py).               *)
RetriesAreHarmless ==
    Quiet /\ odd \cap {"overtaken", "doubled"} = {} =>
        (tenant.paid => LiveOf(tenant.id) # {})

(* "What we grant always matches what the customer is billed for"          *)
(* (api/billing.py), with events in order and nothing racing.              *)
AlwaysMatches ==
    Quiet /\ odd \subseteq {"recovered"} => (LiveOf(tenant.id) # {} => tenant.paid)
=============================================================================

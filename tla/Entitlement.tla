---------------------------- MODULE Entitlement ----------------------------
(***************************************************************************)
(* What a tenant is entitled to: the single answer the API and the workers *)
(* share (billing/entitlement.py, billing/features.py, the seat table of   *)
(* billing/pricing.py).                                                    *)
(*                                                                         *)
(* A tenant is a record with at least the fields plan, paid (its           *)
(* payment_method_ok), trial ("none", "running" or "over"), seats          *)
(* (extra_mailbox_seats) and active (not suspended by an operator).        *)
(***************************************************************************)
EXTENDS Naturals, Sequences

CONSTANT Included       \* PLAN_MAILBOX_SEATS: the seats each plan includes

PaidPlan == {"essential", "complete"}
Plan == PaidPlan \cup {"guard", "solo"}

MailboxEntitled(t) ==
    /\ t.active
    /\ t.plan # "guard"
    /\ t.trial = "running" \/ t.paid

EffectivePlan(t) == IF MailboxEntitled(t) THEN t.plan ELSE "guard"

MailboxCapacity(t) ==
    IF EffectivePlan(t) = "guard" THEN 0 ELSE Included[t.plan] + t.seats

NewestMailboxes(t, order) ==
    {order[i] : i \in {k \in 1..Len(order) : k > Len(order) - MailboxCapacity(t)}}

(* The oldest mailboxes, up to the capacity; `order` lists all of them by  *)
(* creation.                                                               *)
EntitledMailboxes(t, order) ==
    {order[i] : i \in {k \in 1..Len(order) : k <= MailboxCapacity(t)}}

(* _PLAN_FAMILIES: A payment fraud, B links, C takeover, D domains.        *)
Families(plan) ==
    CASE plan = "guard"    -> {"D"}
      [] plan = "complete" -> {"A", "B", "C", "D"}
      [] OTHER             -> {"A", "B", "D"}

IsComplete(t) == EffectivePlan(t) = "complete"
=============================================================================

----------------------------- MODULE PaidAccess -----------------------------
(***************************************************************************)
(* What billing promises, without Stripe, webhooks or requests: a          *)
(* workspace is given only what has been billed for, and loses it only     *)
(* after something it paid for has ended.                                  *)
(***************************************************************************)
CONSTANT Item           \* what can be billed for: plans and numbers of seats

VARIABLES
    billed,     \* the items billed for so far
    ended,      \* whether a subscription has ended or a workspace has gone
    access      \* the items the workspace has

vars == <<billed, ended, access>>

Init == billed = {} /\ ended = FALSE /\ access = {}

(* The customer buys, or changes what is bought.                           *)
Buy(items) ==
    /\ billed' = billed \cup items
    /\ UNCHANGED <<ended, access>>

End == ended' = TRUE /\ UNCHANGED <<billed, access>>

(* Anything billed for may be given, in place of what was given before.    *)
Give(items) ==
    /\ items # {}
    /\ items \subseteq billed
    /\ access' = items
    /\ UNCHANGED <<billed, ended>>

Withdraw ==
    /\ ended
    /\ access' = {}
    /\ UNCHANGED <<billed, ended>>

(* The workspace is deleted.                                               *)
Close == ended' = TRUE /\ access' = {} /\ UNCHANGED billed

Next == \/ \E items \in SUBSET Item : Buy(items) \/ Give(items)
        \/ End
        \/ Withdraw
        \/ Close

Spec == Init /\ [][Next]_vars
=============================================================================

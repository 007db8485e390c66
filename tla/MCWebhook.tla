------------------------------ MODULE MCWebhook ------------------------------
(* TLC instances of Webhook: two or three deliveries to two receivers and  *)
(* a schedule of two attempts.                                             *)
EXTENDS Webhook, TLC

CONSTANTS d1, d2, d3, siem, other

ThreeToTwo == (d1 :> siem) @@ (d2 :> siem) @@ (d3 :> other)
TwoToTwo == (d1 :> siem) @@ (d2 :> other)

FromZero(s) == [n \in 0..(Len(s) - 1) |-> s[n + 1]]
ShortSchedule == FromZero(<<0, 1>>)
=============================================================================

----------------------------- MODULE MCAlertNotify -----------------------------
(* TLC instance of AlertNotify. The alerts are interchangeable. The button *)
(* is pressed beside one alert while it is raised and delivered, and over  *)
(* all of them once they have been delivered; the jobs that deliver work   *)
(* over all of them beside one another.                                    *)
EXTENDS AlertNotify, FiniteSets, TLC

Alerts == Permutations(Alert)

Existing == {a \in Alert : state[a] # "none"} \cup UNION {raised[j] : j \in Job}

Unpressed == \A j \in Button : pc[j] = "idle"

AllDelivered ==
    /\ \A a \in Alert : delivery[a] = "sent" /\ told[a] = 1
    /\ \A j \in Job : raised[j] = {}

Casts == Cardinality(Existing) <= 1 \/ Unpressed \/ AllDelivered
=============================================================================

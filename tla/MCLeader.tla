------------------------------ MODULE MCLeader ------------------------------
(* TLC instances of Leader: two replicas, which differ only in their name. *)
EXTENDS Leader
=============================================================================

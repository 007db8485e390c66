------------------------------- MODULE Leader -------------------------------
(***************************************************************************)
(* Single-writer election for one background loop (workers/leader.py).     *)
(*                                                                         *)
(* Every process runs run_as_leader for the same key.  Leadership is a     *)
(* Postgres session-level advisory lock: it lives exactly as long as the   *)
(* session that took it, and the session can end while the process that    *)
(* owns the connection keeps running the guarded loop.  A leader notices   *)
(* only when its next check of the connection fails.  Time is a discrete   *)
(* clock (Tick), so what the checks bound is a number of ticks.            *)
(***************************************************************************)
EXTENDS Naturals, FiniteSets

CONSTANTS
    Process,        \* replicas that run run_as_leader for this key
    Nobody,         \* the advisory lock is free
    CheckSeconds,   \* CHECK_SECONDS, in ticks; also the timeout of one check
    RetrySeconds,   \* RETRY_SECONDS, in ticks
    CancelBound,    \* ticks a cancelled body may take to finish cleaning up
    MaxFaults,      \* bound: session deaths, cut links, refused attempts
    MaxStops,       \* bound: kills and shutdowns
    MaxDetached     \* bound: polls one process has running at once

ASSUME LeaderAssumption ==
    /\ Nobody \notin Process
    /\ CheckSeconds \in Nat \ {0}
    /\ RetrySeconds \in Nat \ {0}
    /\ CancelBound \in Nat
    /\ MaxFaults \in Nat /\ MaxStops \in Nat /\ MaxDetached \in Nat

VARIABLES
    holder,     \* whose live server session holds the advisory lock
    reach,      \* reach[p]: p's lock connection still gets through to the server
    pc,         \* pc[p]: where run_as_leader is in process p
    body,       \* body[p]: the guarded loop is running in p
    detached,   \* detached[p]: mailbox polls started by p's loop, still running
    answered,   \* answered[p]: the server has answered the check in flight
    timer,      \* timer[p]: ticks spent in the current wait
    overlap,    \* overlap[p]: ticks p's loop has run without the lock beside another copy
    faults,     \* faults so far
    stops       \* kills and shutdowns so far

vars == <<holder, reach, pc, body, detached, answered, timer, overlap, faults, stops>>

Phase == {"try", "sleep", "lead", "check", "cancel", "exit", "down"}

(* How long a process may stay in a phase before its timeout fires.  An    *)
(* attempt to take the lock is one round trip and takes no tick.           *)
Limit(phase) ==
    CASE phase \in {"lead", "check"} -> CheckSeconds
      [] phase \in {"cancel", "exit"} -> CancelBound
      [] phase = "sleep" -> RetrySeconds
      [] phase = "try" -> 0
      [] phase = "down" -> 0

TypeOK ==
    /\ holder \in Process \cup {Nobody}
    /\ reach \in [Process -> BOOLEAN]
    /\ pc \in [Process -> Phase]
    /\ body \in [Process -> BOOLEAN]
    /\ detached \in [Process -> 0..MaxDetached]
    /\ answered \in [Process -> BOOLEAN]
    /\ timer \in [Process -> Nat]
    /\ overlap \in [Process -> Nat]
    /\ faults \in 0..MaxFaults
    /\ stops \in 0..MaxStops

Init ==
    /\ holder = Nobody
    /\ reach = [p \in Process |-> TRUE]
    /\ pc = [p \in Process |-> "try"]
    /\ body = [p \in Process |-> FALSE]
    /\ detached = [p \in Process |-> 0]
    /\ answered = [p \in Process |-> FALSE]
    /\ timer = [p \in Process |-> 0]
    /\ overlap = [p \in Process |-> 0]
    /\ faults = 0
    /\ stops = 0

GoTo(p, phase) ==
    /\ pc' = [pc EXCEPT ![p] = phase]
    /\ timer' = [timer EXCEPT ![p] = 0]

Fault == faults < MaxFaults /\ faults' = faults + 1

-----------------------------------------------------------------------------
(* hold() took the lock: _lead starts the body. *)
Acquire(p) ==
    /\ pc[p] = "try"
    /\ holder = Nobody
    /\ holder' = p
    /\ reach' = [reach EXCEPT ![p] = TRUE]
    /\ body' = [body EXCEPT ![p] = TRUE]
    /\ overlap' = [overlap EXCEPT ![p] = 0]
    /\ GoTo(p, "lead")
    /\ UNCHANGED <<detached, answered, faults, stops>>

(* hold() yielded None because another session has the lock: a follower.   *)
Follow(p) ==
    /\ pc[p] = "try"
    /\ holder # Nobody
    /\ GoTo(p, "sleep")
    /\ UNCHANGED <<holder, reach, body, detached, answered, overlap, faults, stops>>

(* hold() yielded None because the database raised.  A lock taken before   *)
(* the error is given back in the finally clause.                          *)
AttemptFails(p) ==
    /\ pc[p] = "try"
    /\ Fault
    /\ GoTo(p, "sleep")
    /\ UNCHANGED <<holder, reach, body, detached, answered, overlap, stops>>

(* wait_for(stop.wait(), retry_seconds) timed out.                         *)
NeverRetry(p) == FALSE /\ UNCHANGED vars

Retry(p) ==
    /\ pc[p] = "sleep"
    /\ timer[p] = RetrySeconds
    /\ GoTo(p, "try")
    /\ UNCHANGED <<holder, reach, body, detached, answered, overlap, faults, stops>>

-----------------------------------------------------------------------------
(* asyncio.wait({task}, timeout=check_seconds) timed out: SELECT 1.        *)
StartCheck(p) ==
    /\ pc[p] = "lead"
    /\ body[p]
    /\ timer[p] = CheckSeconds
    /\ answered' = [answered EXCEPT ![p] = FALSE]
    /\ GoTo(p, "check")
    /\ UNCHANGED <<holder, reach, body, detached, overlap, faults, stops>>

(* The server runs SELECT 1 on the session, if that session still exists.  *)
ServerAnswers(p) ==
    /\ pc[p] = "check"
    /\ holder = p
    /\ reach[p]
    /\ ~answered[p]
    /\ answered' = [answered EXCEPT ![p] = TRUE]
    /\ UNCHANGED <<holder, reach, pc, body, detached, timer, overlap, faults, stops>>

(* _still_holds returned True: back to waiting, unless the body has ended. *)
CheckPassesUnanswered(p) ==
    /\ pc[p] = "check"
    /\ answered' = [answered EXCEPT ![p] = FALSE]
    /\ GoTo(p, IF body[p] THEN "lead" ELSE "cancel")
    /\ UNCHANGED <<holder, reach, body, detached, overlap, faults, stops>>

CheckPasses(p) ==
    /\ pc[p] = "check"
    /\ answered[p]
    /\ answered' = [answered EXCEPT ![p] = FALSE]
    /\ GoTo(p, IF body[p] THEN "lead" ELSE "cancel")
    /\ UNCHANGED <<holder, reach, body, detached, overlap, faults, stops>>

(* _still_holds returned False, on an error or on its timeout: _lead       *)
(* returns and its finally clause cancels the body.                        *)
CheckFailsUnlockingFirst(p) ==
    /\ pc[p] = "check"
    /\ timer[p] = CheckSeconds \/ holder # p \/ ~reach[p]
    /\ answered' = [answered EXCEPT ![p] = FALSE]
    /\ holder' = IF holder = p /\ reach[p] THEN Nobody ELSE holder
    /\ GoTo(p, "cancel")
    /\ UNCHANGED <<reach, body, detached, overlap, faults, stops>>

CheckFails(p) ==
    /\ pc[p] = "check"
    /\ timer[p] = CheckSeconds \/ holder # p \/ ~reach[p]
    /\ answered' = [answered EXCEPT ![p] = FALSE]
    /\ GoTo(p, "cancel")
    /\ UNCHANGED <<holder, reach, body, detached, overlap, faults, stops>>

(* The body returned or raised by itself; a check in flight goes on.       *)
BodyEnds(p) ==
    /\ pc[p] \in {"lead", "check"}
    /\ body[p]
    /\ Fault
    /\ body' = [body EXCEPT ![p] = FALSE]
    /\ IF pc[p] = "lead" THEN GoTo(p, "cancel") ELSE UNCHANGED <<pc, timer>>
    /\ UNCHANGED <<holder, reach, detached, answered, overlap, stops>>

(* The cancelled body has finished; hold()'s finally clause unlocks, if    *)
(* the statement can still reach the session, and closes the connection.   *)
Unlock(p) == IF holder = p /\ reach[p] THEN Nobody ELSE holder

StandDown(p) ==
    /\ pc[p] \in {"cancel", "exit"}
    /\ body' = [body EXCEPT ![p] = FALSE]
    /\ holder' = Unlock(p)
    /\ IF pc[p] = "exit"
         THEN /\ GoTo(p, "down")
              /\ detached' = [detached EXCEPT ![p] = 0]
         ELSE /\ GoTo(p, "sleep")
              /\ UNCHANGED detached
    /\ UNCHANGED <<reach, answered, overlap, faults, stops>>

-----------------------------------------------------------------------------
(* The server ends the session that holds the lock: a Postgres restart, an *)
(* idle-session timeout, pg_terminate_backend.  The lock is free at once.  *)
SessionDies(p) ==
    /\ holder = p
    /\ Fault
    /\ holder' = Nobody
    /\ UNCHANGED <<reach, pc, body, detached, answered, timer, overlap, stops>>

(* The network between p and the server goes silent; the session stays.    *)
LinkCut(p) ==
    /\ holder = p
    /\ reach[p]
    /\ Fault
    /\ reach' = [reach EXCEPT ![p] = FALSE]
    /\ UNCHANGED <<holder, pc, body, detached, answered, timer, overlap, stops>>

(* TCP keepalive: the server ends a session nobody is at the other end of. *)
Reap(p) ==
    /\ holder = p
    /\ ~reach[p] \/ pc[p] \notin {"lead", "check", "cancel", "exit"}
    /\ holder' = Nobody
    /\ UNCHANGED <<reach, pc, body, detached, answered, timer, overlap, faults, stops>>

(* SIGKILL, or the machine: every task of p is gone, its session lingers.  *)
Kill(p) ==
    /\ pc[p] # "down"
    /\ stops < MaxStops
    /\ stops' = stops + 1
    /\ body' = [body EXCEPT ![p] = FALSE]
    /\ detached' = [detached EXCEPT ![p] = 0]
    /\ answered' = [answered EXCEPT ![p] = FALSE]
    /\ GoTo(p, "down")
    /\ UNCHANGED <<holder, reach, overlap, faults>>

(* The lifespan's shutdown: stop is set and the run_as_leader task is      *)
(* cancelled wherever it is waiting.                                       *)
Shutdown(p) ==
    /\ pc[p] \notin {"down", "exit"}
    /\ stops < MaxStops
    /\ stops' = stops + 1
    /\ answered' = [answered EXCEPT ![p] = FALSE]
    /\ CASE pc[p] \in {"lead", "check"} ->
              GoTo(p, "exit") /\ UNCHANGED detached
         [] pc[p] = "cancel" ->
              pc' = [pc EXCEPT ![p] = "exit"] /\ UNCHANGED <<timer, detached>>
         [] OTHER ->
              GoTo(p, "down") /\ detached' = [detached EXCEPT ![p] = 0]
    /\ UNCHANGED <<holder, reach, body, overlap, faults>>

Restart(p) ==
    /\ pc[p] = "down"
    /\ GoTo(p, "try")
    /\ UNCHANGED <<holder, reach, body, detached, answered, overlap, faults, stops>>

-----------------------------------------------------------------------------
(* run_imap_poll_cycle starts one task per mailbox and waits for them with *)
(* asyncio.wait, which does not cancel them when the loop is cancelled.    *)
StartPoll(p) ==
    /\ body[p]
    /\ pc[p] \in {"lead", "check"}
    /\ detached[p] < MaxDetached
    /\ detached' = [detached EXCEPT ![p] = @ + 1]
    /\ UNCHANGED <<holder, reach, pc, body, answered, timer, overlap, faults, stops>>

(* Mutant: a poll's end is counted twice.                                  *)
FinishPollTwice(p) ==
    /\ detached' = [detached EXCEPT ![p] = @ - 1]
    /\ UNCHANGED <<holder, reach, pc, body, answered, timer, overlap, faults, stops>>

FinishPoll(p) ==
    /\ detached[p] > 0
    /\ detached' = [detached EXCEPT ![p] = @ - 1]
    /\ UNCHANGED <<holder, reach, pc, body, answered, timer, overlap, faults, stops>>

(* One tick: no process may be past a timeout that is due.                 *)
Tick ==
    /\ \A p \in Process : pc[p] = "down" \/ timer[p] < Limit(pc[p])
    /\ timer' = [p \in Process |-> IF pc[p] = "down" THEN 0 ELSE timer[p] + 1]
    /\ overlap' = [p \in Process |->
                   IF body[p] /\ holder # p
                     THEN IF \E q \in Process \ {p} : body[q]
                            THEN overlap[p] + 1 ELSE overlap[p]
                     ELSE 0]
    /\ UNCHANGED <<holder, reach, pc, body, detached, answered, faults, stops>>

Elect(p) == Acquire(p) \/ Follow(p) \/ AttemptFails(p) \/ Retry(p)
Guard(p) == \/ StartCheck(p) \/ ServerAnswers(p) \/ CheckPasses(p)
            \/ CheckFails(p) \/ BodyEnds(p) \/ StandDown(p)
Environment(p) == \/ SessionDies(p) \/ LinkCut(p) \/ Reap(p)
                  \/ Kill(p) \/ Shutdown(p) \/ Restart(p)
Work(p) == StartPoll(p) \/ FinishPoll(p)

Next ==
    \/ Tick
    \/ \E p \in Process : Elect(p) \/ Guard(p) \/ Environment(p) \/ Work(p)

Spec == Init /\ [][Next]_vars

(* What the event loops and the server do keep doing: time passes, due     *)
(* timeouts fire, a round trip on a live link completes, keepalive reaps.  *)
(* Faults, kills and restarts are never required.                          *)
Fairness ==
    /\ WF_vars(Tick)
    /\ \A p \in Process :
         /\ WF_vars(Acquire(p)) /\ WF_vars(Follow(p)) /\ WF_vars(Retry(p))
         /\ WF_vars(StartCheck(p)) /\ WF_vars(ServerAnswers(p))
         /\ WF_vars(CheckPasses(p)) /\ WF_vars(CheckFails(p))
         /\ WF_vars(StandDown(p)) /\ WF_vars(Reap(p))

FairSpec == Spec /\ Fairness

-----------------------------------------------------------------------------
(* One check is answered, its reply travels, the loop waits, the next      *)
(* check times out and the body is cancelled: the longest a loop can run   *)
(* after its lock was freed at the server.                                 *)
OverlapLimit == 3 * CheckSeconds + CancelBound

(* Two copies of a loop run side by side for a bounded time only: the one  *)
(* whose lock connection died is stopped by its own checks (_lead).        *)
OverlapBounded == \A p \in Process : overlap[p] <= OverlapLimit

(* While every lock session stays up there is one copy of the loop, across *)
(* hand-overs, failed checks, shutdowns and kills.                         *)
ExclusiveWithoutFaults ==
    faults = 0 => \A p, q \in Process : body[p] /\ body[q] => p = q

(* As long as some process is up, the loop runs somewhere again and again: *)
(* no dead session and no follower leaves the work without a leader.       *)
LeaderRecurs ==
    []<>(\/ \E p \in Process : body[p]
         \/ \A p \in Process : pc[p] = "down")

(* main.py:218-220 says that exactly one process polls: the polls a leader *)
(* started do not go on in it while another process leads.                 *)
PollsEndWithLeadership ==
    \A p, q \in Process :
        p # q /\ detached[p] > 0 /\ body[q] => body[p]
=============================================================================

---------------------------- MODULE LeaderProofs ----------------------------
(***************************************************************************)
(* For any set of replicas and any timeouts: the types, the bound on how   *)
(* long two copies of a loop overlap, and that there is one copy while no  *)
(* lock session has failed.                                                *)
(***************************************************************************)
EXTENDS Leader, TLAPS

Leading == {"lead", "check", "cancel", "exit"}

(* A loop runs only in a process that took the lock and has not left it.   *)
BodyInPhase == \A p \in Process : body[p] => pc[p] \in Leading

(* Tick never takes a process past the timeout it is waiting for.          *)
TimersDue ==
    \A p \in Process :
        /\ pc[p] \in {"lead", "check"} => timer[p] <= CheckSeconds
        /\ pc[p] \in {"cancel", "exit"} => timer[p] <= CancelBound

(* How far the overlap of one process can have grown, by phase: an answer  *)
(* shows that the session was alive after the check began, and a loop that *)
(* waits was last answered at most one check and one wait ago.             *)
OverlapByPhase(p) ==
    /\ overlap[p] <= OverlapLimit
    /\ body[p] =>
        /\ holder = p => overlap[p] = 0
        /\ pc[p] = "lead" => overlap[p] <= CheckSeconds + timer[p]
        /\ pc[p] = "check" /\ ~answered[p] => overlap[p] <= 2 * CheckSeconds + timer[p]
        /\ pc[p] = "check" /\ answered[p] => overlap[p] <= timer[p]
        /\ pc[p] \in {"cancel", "exit"} => overlap[p] <= 3 * CheckSeconds + timer[p]

(* Before the first fault every loop still holds its lock, reachably.      *)
HeldWithoutFaults ==
    faults = 0 => \A p \in Process : reach[p] /\ (body[p] => holder = p)

IInv ==
    /\ TypeOK
    /\ BodyInPhase
    /\ TimersDue
    /\ \A p \in Process : OverlapByPhase(p)
    /\ HeldWithoutFaults

USE LeaderAssumption DEF LeaderAssumption

(* The first state satisfies the inductive invariant.                      *)
LEMMA InitIInv == Init => IInv
  BY DEF Init, IInv, TypeOK, BodyInPhase, TimersDue, OverlapByPhase,
         HeldWithoutFaults, OverlapLimit, Phase, Leading

(* Every step preserves the variables' types.                              *)
LEMMA TypeStep == TypeOK /\ [Next]_vars => TypeOK'
<1> SUFFICES ASSUME TypeOK, [Next]_vars PROVE TypeOK'
  OBVIOUS
<1> USE DEF TypeOK, GoTo, Fault
<1>1. CASE Tick
  BY <1>1 DEF Tick
<1>2. ASSUME NEW p \in Process, Elect(p) PROVE TypeOK'
  <2>1. CASE Acquire(p)
    BY <2>1 DEF Acquire, Phase
  <2>2. CASE Follow(p)
    BY <2>2 DEF Follow, Phase
  <2>3. CASE AttemptFails(p)
    BY <2>3 DEF AttemptFails, Phase
  <2>4. CASE Retry(p)
    BY <2>4 DEF Retry, Phase
  <2> QED
    BY <1>2, <2>1, <2>2, <2>3, <2>4 DEF Elect
<1>3. ASSUME NEW p \in Process, Guard(p) PROVE TypeOK'
  <2>1. CASE StartCheck(p)
    BY <2>1 DEF StartCheck, Phase
  <2>2. CASE ServerAnswers(p)
    BY <2>2 DEF ServerAnswers, Phase
  <2>3. CASE CheckPasses(p)
    BY <2>3 DEF CheckPasses, Phase
  <2>4. CASE CheckFails(p)
    BY <2>4 DEF CheckFails, Phase
  <2>5. CASE BodyEnds(p)
    BY <2>5 DEF BodyEnds, Phase
  <2>6. CASE StandDown(p)
    BY <2>6 DEF StandDown, Unlock, Phase
  <2> QED
    BY <1>3, <2>1, <2>2, <2>3, <2>4, <2>5, <2>6 DEF Guard
<1>4. ASSUME NEW p \in Process, Environment(p) PROVE TypeOK'
  <2>1. CASE SessionDies(p)
    BY <2>1 DEF SessionDies, Phase
  <2>2. CASE LinkCut(p)
    BY <2>2 DEF LinkCut, Phase
  <2>3. CASE Reap(p)
    BY <2>3 DEF Reap, Phase
  <2>4. CASE Kill(p)
    BY <2>4 DEF Kill, Phase
  <2>5. CASE Shutdown(p)
    BY <2>5 DEF Shutdown, Phase
  <2>6. CASE Restart(p)
    BY <2>6 DEF Restart, Phase
  <2> QED
    BY <1>4, <2>1, <2>2, <2>3, <2>4, <2>5, <2>6 DEF Environment
<1>5. ASSUME NEW p \in Process, Work(p) PROVE TypeOK'
  BY <1>5 DEF Work, StartPoll, FinishPoll
<1>6. CASE UNCHANGED vars
  BY <1>6 DEF vars
<1> QED
  BY <1>1, <1>2, <1>3, <1>4, <1>5, <1>6 DEF Next

(* Every step preserves the rest of the inductive invariant.               *)
LEMMA StepIInv == IInv /\ [Next]_vars => IInv'
<1> SUFFICES ASSUME IInv, [Next]_vars PROVE IInv'
  OBVIOUS
<1> DEFINE Rest == /\ BodyInPhase /\ TimersDue
                   /\ \A p \in Process : OverlapByPhase(p)
                   /\ HeldWithoutFaults
<1>t. TypeOK'
  BY TypeStep DEF IInv
<1> USE DEF IInv, TypeOK, BodyInPhase, TimersDue, OverlapByPhase,
            HeldWithoutFaults, OverlapLimit, Leading, GoTo, Fault
<1>1. ASSUME Tick PROVE Rest'
  <2>1. BodyInPhase' /\ HeldWithoutFaults'
    BY <1>1 DEF Tick
  <2>2. TimersDue'
    BY <1>1 DEF Tick, Limit
  <2>3. ASSUME NEW p \in Process PROVE OverlapByPhase(p)'
    <3>1. CASE ~body[p] \/ holder = p
      BY <1>1, <3>1 DEF Tick
    <3>2. CASE body[p] /\ holder # p
      <4>1. overlap'[p] <= overlap[p] + 1 /\ overlap'[p] \in Nat
        BY <1>1, <3>2 DEF Tick
      <4>2. pc[p] # "down" /\ timer'[p] = timer[p] + 1 /\ timer[p] < Limit(pc[p])
        BY <1>1, <3>2 DEF Tick
      <4> QED
        BY <1>1, <3>2, <4>1, <4>2 DEF Tick, Limit
    <3> QED
      BY <3>1, <3>2
  <2> QED
    BY <2>1, <2>2, <2>3
<1>2. ASSUME NEW p \in Process, Elect(p) PROVE Rest'
  BY <1>2 DEF Elect, Acquire, Follow, AttemptFails, Retry
<1>3. ASSUME NEW p \in Process, Guard(p) PROVE Rest'
  <2>1. CASE StartCheck(p) \/ ServerAnswers(p)
    BY <2>1 DEF StartCheck, ServerAnswers
  <2>2. CASE CheckPasses(p)
    BY <2>2 DEF CheckPasses
  <2>3. CASE CheckFails(p)
    BY <2>3 DEF CheckFails
  <2>4. CASE BodyEnds(p)
    BY <2>4 DEF BodyEnds
  <2>5. CASE StandDown(p)
    BY <2>5 DEF StandDown, Unlock
  <2> QED
    BY <1>3, <2>1, <2>2, <2>3, <2>4, <2>5 DEF Guard
<1>4. ASSUME NEW p \in Process, Environment(p) PROVE Rest'
  <2>1. CASE SessionDies(p) \/ LinkCut(p) \/ Restart(p)
    BY <2>1 DEF SessionDies, LinkCut, Restart
  <2>2. CASE Reap(p)
    BY <2>2 DEF Reap
  <2>3. CASE Kill(p)
    BY <2>3 DEF Kill
  <2>4. CASE Shutdown(p)
    BY <2>4 DEF Shutdown
  <2> QED
    BY <1>4, <2>1, <2>2, <2>3, <2>4 DEF Environment
<1>5. ASSUME NEW p \in Process, Work(p) PROVE Rest'
  BY <1>5 DEF Work, StartPoll, FinishPoll
<1>6. ASSUME UNCHANGED vars PROVE Rest'
  BY <1>6 DEF vars
<1>7. Rest'
  BY <1>1, <1>2, <1>3, <1>4, <1>5, <1>6 DEF Next
<1> QED
  BY <1>t, <1>7

LEMMA InvariantIInv == Spec => []IInv
  BY InitIInv, StepIInv, PTL DEF Spec

(* Every reachable state of the election is well typed.                    *)
THEOREM TypeCorrect == Spec => []TypeOK
<1>1. IInv => TypeOK
  BY DEF IInv
<1> QED
  BY <1>1, InvariantIInv, PTL

(* However many replicas there are and however they fail, a loop whose     *)
(* lock was freed stops within three checks and its own clean-up (_lead).  *)
THEOREM OverlapIsBounded == Spec => []OverlapBounded
<1>1. IInv => OverlapBounded
  BY DEF IInv, OverlapByPhase, OverlapBounded
<1> QED
  BY <1>1, InvariantIInv, PTL

(* Without a failed lock session two processes never run the loop at the   *)
(* same time: a leader unlocks only after its body has finished.           *)
THEOREM OneLoopWithoutFaults == Spec => []ExclusiveWithoutFaults
<1>1. IInv => ExclusiveWithoutFaults
  BY DEF IInv, HeldWithoutFaults, ExclusiveWithoutFaults
<1> QED
  BY <1>1, InvariantIInv, PTL
=============================================================================

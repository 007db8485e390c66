------------------------------- MODULE Limits -------------------------------
(***************************************************************************)
(* How often a caller may try: the sliding window of each endpoint, the    *)
(* account lockout and the one-time codes of the second factor             *)
(* (security/limits.py, and the code window of auth/security.py), on two   *)
(* instances that share Redis or fall back to their own memory.            *)
(***************************************************************************)
EXTENDS Naturals, FiniteSets, Sequences

CONSTANTS
    Instance,       \* replicas of the server
    Limit,          \* RULES: requests per window
    Window,         \* RULES: seconds per window
    Threshold,      \* AccountLockout.THRESHOLD
    Backoff,        \* AccountLockout.BACKOFFS
    CodeTtl,        \* ReplayGuard: how long a code is remembered
    Drift,          \* verify_totp: steps accepted on each side
    MaxTime,        \* bound: the clock
    MaxOutages,     \* bound: Redis failures
    MaxAdmitted,    \* bound: requests admitted
    MaxGuesses,     \* bound: wrong guesses in a row
    MaxAccepted     \* bound: codes accepted

VARIABLES
    now,
    up,         \* Redis answers
    hits,       \* admitted requests: by store, pairs <<instant, token>>
    fails,      \* wrong guesses counted: by store
    lockedTil,  \* the end of the lock: by store
    seen,       \* codes remembered: by store, pairs <<code, forgotten at>>
    admitted,   \* when requests were admitted, and by which store (history)
    guesses,    \* when a password was wrong, since the last success (history)
    accepted,   \* codes that were accepted, in order (history)
    odd,
    trying,     \* the instance that checks a password, and whether it is free
    outages

vars == <<now, up, hits, fails, lockedTil, seen, admitted, guesses, accepted, odd, trying,
          outages>>

Redis == "redis"
Place == Instance \cup {Redis}
At(i) == IF up THEN Redis ELSE i

Init ==
    /\ now = 0 /\ up = TRUE
    /\ hits = [p \in Place |-> {}]
    /\ fails = [p \in Place |-> 0]
    /\ lockedTil = [p \in Place |-> 0]
    /\ seen = [p \in Place |-> {}]
    /\ admitted = <<>> /\ guesses = <<>> /\ accepted = <<>> /\ odd = {}
    /\ trying = {} /\ outages = 0

Tick ==
    /\ now < MaxTime /\ now' = now + 1
    /\ UNCHANGED <<up, hits, fails, lockedTil, seen, admitted, guesses, accepted, odd,
                   trying, outages>>

RedisFails ==
    /\ up /\ outages < MaxOutages
    /\ up' = FALSE /\ outages' = outages + 1
    /\ odd' = odd \cup {"failover"}
    /\ UNCHANGED <<now, hits, fails, lockedTil, seen, admitted, guesses, accepted, trying>>

RedisReturns ==
    /\ ~up /\ up' = TRUE
    /\ UNCHANGED <<now, hits, fails, lockedTil, seen, admitted, guesses, accepted, odd,
                   trying, outages>>

-----------------------------------------------------------------------------
(* The sliding window: what is older than the window is dropped, and a     *)
(* request is admitted if there is room. Redis drops what is exactly a     *)
(* window old, memory keeps it. Each request is a member of its own.       *)
Recent(s, p) == {h \in s : IF p = Redis THEN h[1] + Window > now ELSE h[1] + Window >= now}

Request(i) ==
    /\ Len(admitted) < MaxAdmitted
    /\ LET p == At(i)
           recent == Recent(hits[p], p) IN
       IF Cardinality(recent) >= Limit
       THEN /\ hits' = [hits EXCEPT ![p] = recent]
            /\ UNCHANGED admitted
       ELSE /\ hits' = [hits EXCEPT ![p] = recent \cup {<<now, Len(admitted) + 1>>}]
            /\ admitted' = Append(admitted, <<now, p>>)
    /\ UNCHANGED <<now, up, fails, lockedTil, seen, guesses, accepted, odd, trying, outages>>

(* login looks at the lock, checks the password, and then counts.          *)
Locked(i) == lockedTil[At(i)] > now

StartLogin(i) ==
    /\ i \notin trying /\ ~Locked(i)
    /\ Len(guesses) < MaxGuesses
    /\ trying' = trying \cup {i}
    /\ odd' = IF trying = {} THEN odd ELSE odd \cup {"beside"}
    /\ UNCHANGED <<now, up, hits, fails, lockedTil, seen, admitted, guesses, accepted,
                   outages>>

(* record_failure: every fifth failure moves to a longer lock.             *)
Tier(n) == LET t == (n - Threshold) \div Threshold
           IN 1 + (IF t < Len(Backoff) - 1 THEN t ELSE Len(Backoff) - 1)
LockUntil(n) == now + Backoff[Tier(n)]

WrongPassword(i) ==
    /\ i \in trying
    /\ LET p == At(i)
           n == fails[p] + 1 IN
       /\ fails' = [fails EXCEPT ![p] = n]
       /\ lockedTil' = IF n >= Threshold THEN [lockedTil EXCEPT ![p] = LockUntil(n)]
                                         ELSE lockedTil
    /\ guesses' = Append(guesses, now)
    /\ trying' = trying \ {i}
    /\ UNCHANGED <<now, up, hits, seen, admitted, accepted, odd, outages>>

RightPassword(i) ==
    /\ i \in trying
    /\ fails' = [fails EXCEPT ![At(i)] = 0]
    /\ lockedTil' = [lockedTil EXCEPT ![At(i)] = 0]
    /\ guesses' = <<>>
    /\ trying' = trying \ {i}
    /\ UNCHANGED <<now, up, hits, seen, admitted, accepted, odd, outages>>

(* Redis forgets the count an hour after the last failure.                 *)
CountExpires ==
    /\ fails[Redis] > 0 /\ lockedTil[Redis] + Backoff[Len(Backoff)] <= now
    /\ fails' = [fails EXCEPT ![Redis] = 0]
    /\ guesses' = <<>>
    /\ UNCHANGED <<now, up, hits, lockedTil, seen, admitted, accepted, odd, trying, outages>>

(* A code of step c is right for the steps around c, and used once: it is  *)
(* remembered for two minutes.                                             *)
InWindow(c) == c <= now + Drift /\ now <= c + Drift
RememberedBriefly(s) == {e \in s : e[2] > now + CodeTtl - Drift}
Remembered(s) == {e \in s : e[2] > now}

UseCode(i, c) ==
    /\ InWindow(c)
    /\ LET p == At(i)
           kept == Remembered(seen[p]) IN
       IF \E e \in kept : e[1] = c
       THEN /\ seen' = [seen EXCEPT ![p] = kept]
            /\ UNCHANGED accepted
       ELSE /\ seen' = [seen EXCEPT ![p] = kept \cup {<<c, now + CodeTtl>>}]
            /\ accepted' = Append(accepted, c)
    /\ Len(accepted) < MaxAccepted
    /\ UNCHANGED <<now, up, hits, fails, lockedTil, admitted, guesses, odd, trying, outages>>

-----------------------------------------------------------------------------
Next ==
    \/ Tick \/ RedisFails \/ RedisReturns \/ CountExpires
    \/ \E i \in Instance :
         \/ Request(i) \/ StartLogin(i) \/ WrongPassword(i) \/ RightPassword(i)
         \/ \E c \in 0..MaxTime : UseCode(i, c)

Spec == Init /\ [][Next]_vars
-----------------------------------------------------------------------------
(* Properties                                                              *)

(* Every variable keeps its shape, and a lock is never longer than the     *)
(* longest backoff.                                                        *)
TypeOK ==
    /\ now \in 0..MaxTime /\ up \in BOOLEAN
    /\ \A p \in Place : /\ Cardinality(hits[p]) <= Limit
                        /\ lockedTil[p] <= now + Backoff[Len(Backoff)]
    /\ trying \subseteq Instance

(* However requests are spread over instances, no window admits more than  *)
(* its limit while Redis answers, and no more than the limit for each      *)
(* store when it does not.                                                 *)
WindowHolds ==
    \A k \in 1..Len(admitted) :
        LET inside == {m \in 1..Len(admitted) : admitted[m][1] >= admitted[k][1]
                                               /\ admitted[m][1] < admitted[k][1] + Window}
        IN Cardinality(inside) <= IF odd \cap {"failover"} = {} THEN Limit
                                  ELSE Limit * Cardinality(Place)

(* From the Threshold-th wrong guess in a row on, each waits out a lock,   *)
(* and a longer one after twice as many, unless attempts run side by side  *)
(* or Redis fails over.                                                    *)
GuessesWait ==
    odd = {} => \A k \in Threshold..(Len(guesses) - 1) :
                    guesses[k + 1] >= guesses[k] + Backoff[IF k < 2 * Threshold THEN 1 ELSE 2]

(* A second-factor code is accepted once, as long as Redis does not fail   *)
(* over: it is remembered for longer than it is right.                     *)
CodeUsedOnce ==
    odd \cap {"failover"} = {} =>
        \A m, n \in 1..Len(accepted) : accepted[m] = accepted[n] => m = n
=============================================================================

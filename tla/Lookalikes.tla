----------------------------- MODULE Lookalikes -----------------------------
(***************************************************************************)
(* The certificate watcher.  It matches every certificate of the feed with *)
(* its copy of the customers' domains and queues a match; one task takes   *)
(* the queue, probes the lookalike for a mail server, records it, and      *)
(* tells the customer before it commits when the lookalike is newly armed. *)
(* Another task reloads the copy.  Queue and copy live in the process.     *)
(***************************************************************************)
EXTENDS Integers, Sequences, SequencesExt, FiniteSets

CONSTANTS
    Domain, Tenant, Owner,  \* customers' domains, each with its tenant
    Candidate, Imitates,    \* other domains, and the pairs that are too close
    QueueSize,
    MaxCerts,               \* bound: certificates issued
    MaxMoves,               \* bound: changes of a mail server, tenants that leave
    MaxFaults               \* bound: failed probes, reloads and commits, crashes

VARIABLES
    claimed,    \* domains in the database
    gone,       \* tenants that left
    known,      \* the watcher's copy
    reloading,  \* the reload task runs
    up,         \* the feed is connected
    mx,         \* candidates with a mail server
    queue,      \* matches to record: <<candidate, domain>>
    job,        \* the match being recorded
    rows,       \* recorded lookalikes: <<tenant, candidate, armed>>
    told,       \* alerts delivered, per tenant and candidate
    owed,       \* matches that were noticed and not dropped, each domain of it
    certs, moves, faults

vars == <<claimed, gone, known, reloading, up, mx, queue, job, rows, told, owed,
          certs, moves, faults>>

Idle == [pc |-> "idle"]
Init ==
    /\ claimed = {} /\ gone = {} /\ known = {} /\ reloading = TRUE /\ up = TRUE
    /\ mx = {} /\ queue = <<>> /\ job = Idle /\ rows = {}
    /\ told = [p \in Tenant \X Candidate |-> 0] /\ owed = {}
    /\ certs = 0 /\ moves = 0 /\ faults = 0

Fault == faults < MaxFaults /\ faults' = faults + 1
Move == moves < MaxMoves /\ moves' = moves + 1

-----------------------------------------------------------------------------
(* Customers and the world.                                                *)
Claim(d) ==
    /\ d \notin claimed /\ Owner[d] \notin gone
    /\ claimed' = claimed \cup {d}
    /\ UNCHANGED <<gone, known, reloading, up, mx, queue, job, rows, told, owed,
                   certs, moves, faults>>

(* A deleted tenant takes its domains and its lookalikes along.            *)
Leave(t) ==
    /\ t \notin gone /\ Move
    /\ gone' = gone \cup {t}
    /\ claimed' = {d \in claimed : Owner[d] # t}
    /\ rows' = {r \in rows : r[1] # t}
    /\ UNCHANGED <<known, reloading, up, mx, queue, job, told, owed, certs, faults>>

TurnMail(c) ==
    /\ Move
    /\ mx' = IF c \in mx THEN mx \ {c} ELSE mx \cup {c}
    /\ UNCHANGED <<claimed, gone, known, reloading, up, queue, job, rows, told, owed,
                   certs, faults>>

LoseFeed ==
    /\ up /\ Fault
    /\ up' = FALSE
    /\ UNCHANGED <<claimed, gone, known, reloading, mx, queue, job, rows, told, owed,
                   certs, moves>>
Reconnect ==
    /\ ~up
    /\ up' = TRUE
    /\ UNCHANGED <<claimed, gone, known, reloading, mx, queue, job, rows, told, owed,
                   certs, moves, faults>>

-----------------------------------------------------------------------------
(* The watcher.  A certificate matches the first domain of the copy, which *)
(* is a set without an order, that its name imitates; a protected domain's *)
(* own certificate matches none.  A full queue drops the match.            *)
Imitated(c) == {d \in known : <<c, d>> \in Imitates}
Matches(c) == IF c \in known THEN {} ELSE Imitated(c)

Certificate(c) ==
    /\ certs < MaxCerts /\ certs' = certs + 1
    /\ \/ /\ ~up \/ Matches(c) = {} \/ Len(queue) = QueueSize
          /\ UNCHANGED <<queue, owed>>
       \/ \E d \in Matches(c) :
             /\ up /\ Len(queue) < QueueSize
             /\ queue' = Append(queue, <<c, d>>)
             /\ owed' = owed \cup {<<c, e>> : e \in Matches(c)}
    /\ UNCHANGED <<claimed, gone, known, reloading, up, mx, job, rows, told, moves, faults>>

Reload ==
    /\ reloading /\ known # claimed
    /\ known' = claimed
    /\ UNCHANGED <<claimed, gone, reloading, up, mx, queue, job, rows, told, owed,
                   certs, moves, faults>>

(* A failed reload is logged and tried again at the next interval.         *)
ReloadGoesOn == TRUE
ReloadFails ==
    /\ reloading /\ Fault
    /\ reloading' = ReloadGoesOn
    /\ UNCHANGED <<claimed, gone, known, up, mx, queue, job, rows, told, owed, certs, moves>>

-----------------------------------------------------------------------------
(* The task that records matches.  A probe that fails says no mail server. *)
Take(armed) ==
    /\ job = Idle /\ queue # <<>>
    /\ \/ armed = (Head(queue)[1] \in mx) /\ UNCHANGED faults
       \/ ~armed /\ Head(queue)[1] \in mx /\ Fault
    /\ job' = [pc |-> "probed", cand |-> Head(queue)[1], dom |-> Head(queue)[2], armed |-> armed]
    /\ queue' = Tail(queue)
    /\ UNCHANGED <<claimed, gone, known, reloading, up, mx, rows, told, owed, certs, moves>>

To == Owner[job.dom]
Existing == {r \in rows : r[1] = To /\ r[2] = job.cand}
WasArmed == \E r \in Existing : r[3]
NewlyArmed == job.armed /\ ~WasArmed

(* The tenants that protect the domain are read now.                       *)
Persist ==
    /\ job.pc = "probed"
    /\ job' = IF job.dom \notin claimed THEN Idle
              ELSE [job EXCEPT !.pc = IF NewlyArmed THEN "tell" ELSE "commit"]
    /\ UNCHANGED <<claimed, gone, known, reloading, up, mx, queue, rows, told, owed,
                   certs, moves, faults>>

Tell ==
    /\ job.pc = "tell"
    /\ told' = [told EXCEPT ![<<To, job.cand>>] = @ + 1]
    /\ job' = [job EXCEPT !.pc = "told"]
    /\ UNCHANGED <<claimed, gone, known, reloading, up, mx, queue, rows, owed,
                   certs, moves, faults>>

(* Once armed, a row stays armed.                                          *)
RecordedArmed == IF job.armed THEN (rows \ Existing) \cup {<<To, job.cand, TRUE>>} ELSE rows
Recorded == (rows \ Existing) \cup {<<To, job.cand, job.armed \/ WasArmed>>}
Commit ==
    /\ job.pc \in {"told", "commit"} /\ To \notin gone
    /\ rows' = Recorded
    /\ job' = Idle
    /\ UNCHANGED <<claimed, gone, known, reloading, up, mx, queue, told, owed,
                   certs, moves, faults>>

(* A tenant that is gone cannot be referred to; or the database fails.     *)
CommitFails ==
    /\ job.pc \in {"told", "commit"}
    /\ IF To \in gone THEN UNCHANGED faults ELSE Fault
    /\ job' = Idle
    /\ UNCHANGED <<claimed, gone, known, reloading, up, mx, queue, rows, told, owed,
                   certs, moves>>

(* A new process begins with an empty queue and a fresh copy.              *)
Crash ==
    /\ Fault
    /\ queue' = <<>> /\ job' = Idle /\ known' = claimed /\ up' = TRUE /\ reloading' = TRUE
    /\ UNCHANGED <<claimed, gone, mx, rows, told, owed, certs, moves>>

Drain == (\E armed \in BOOLEAN : Take(armed)) \/ Persist \/ Tell \/ Commit \/ CommitFails
Next ==
    \/ \E d \in Domain : Claim(d)
    \/ \E t \in Tenant : Leave(t)
    \/ \E c \in Candidate : TurnMail(c) \/ Certificate(c)
    \/ LoseFeed \/ Reconnect \/ Reload \/ ReloadFails \/ Crash
    \/ Drain

Fairness == WF_vars(Reload) /\ WF_vars(Drain)
Spec == Init /\ [][Next]_vars /\ Fairness

-----------------------------------------------------------------------------
TypeOK ==
    /\ claimed \subseteq Domain /\ gone \subseteq Tenant /\ known \subseteq Domain
    /\ \A d \in claimed : Owner[d] \notin gone
    /\ mx \subseteq Candidate /\ Len(queue) <= QueueSize /\ ToSet(queue) \subseteq Imitates
    /\ rows \subseteq Tenant \X Candidate \X BOOLEAN
    /\ \A r, q \in rows : r[1] = q[1] /\ r[2] = q[2] => r = q

(* A customer hears of a lookalike once: when it first has a mail server,  *)
(* whichever of its certificates shows it, and never again at a renewal.   *)
(* Between the message and the commit a failure can repeat it.             *)
Telling(t, c) == job.pc = "told" /\ To = t /\ job.cand = c
ToldOnceArmed ==
    faults = 0 => \A t \in Tenant \ gone, c \in Candidate :
        told[<<t, c>>] = (IF <<t, c, TRUE>> \in rows THEN 1 ELSE 0)
                         + (IF Telling(t, c) THEN 1 ELSE 0)

(* Without failures every match that was queued leaves its row, armed or   *)
(* not: it used to be counted and thrown away.                             *)
HasRow(t, c) == \E r \in rows : r[1] = t /\ r[2] = c
EveryMatchIsRecorded ==
    \A p \in Imitates :
        (\E i \in 1..Len(queue) : queue[i] = p) ~>
            (HasRow(Owner[p[2]], p[1]) \/ p[2] \notin claimed \/ faults > 0)

(* The domain of every later signup comes to be watched, failed reloads or *)
(* not.                                                                    *)
SignupsAreWatched == \A d \in Domain : d \in claimed ~> (d \in known \/ d \notin claimed)

(* "Record one lookalike certificate against every tenant it imitates."    *)
EveryImitatedIsRecorded ==
    queue = <<>> /\ job = Idle /\ faults = 0 =>
        \A p \in owed : p[2] \in claimed => HasRow(Owner[p[2]], p[1])
=============================================================================

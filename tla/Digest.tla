------------------------------- MODULE Digest -------------------------------
(***************************************************************************)
(* The monthly digest of one workspace: a job that runs often, decides by  *)
(* the day of the last digest, builds the month from the rows, writes to   *)
(* the administrators and stamps the workspace, while alerts and mail keep *)
(* arriving in transactions of their own.                                  *)
(***************************************************************************)
EXTENDS Integers, FiniteSets

CONSTANTS
    News,           \* alerts, and mails that ask for a payment
    Plain,          \* other mails
    Period,         \* thirty days, in ticks
    MaxTime,        \* bound: the last tick
    MaxFaults       \* bound: crashes and mails that do not go

VARIABLES
    now,
    last,           \* last_digest_at, or None
    made,           \* created_at of each row, or None
    stored,         \* rows whose transaction has committed
    late,           \* rows committed after a digest of their time was built
    job,            \* the job: idle, or the digest it has built
    built,          \* the tick the last digest was built, or None
    copies,         \* how many digests that went out tell of a row (up to 2)
    faults,
    odd             \* "crash", "mail"

vars == <<now, last, made, stored, late, job, built, copies, faults, odd>>

None == -1
Item == News \cup Plain
Idle == [at |-> "idle", until |-> None, items |-> {}]

Init ==
    /\ now = 0 /\ last = None /\ built = None
    /\ made = [i \in Item |-> None] /\ stored = {} /\ late = {}
    /\ job = Idle /\ copies = [i \in Item |-> 0]
    /\ faults = 0 /\ odd = {}

(* A workspace's first month counts from its creation.                     *)
Since == IF last = None THEN 0 ELSE last
Due == now - Since >= Period

(* What a digest is built from: every row made since the last one and      *)
(* before this instant.                                                    *)
Contains(t, from, to) == from <= t /\ t < to
Month(from, to) == {i \in stored : Contains(made[i], from, to)}

(* A month with no alert and no payment request gets no mail.              *)
WorthSending(items) == items \cap News # {}

Build ==
    /\ job = Idle /\ Due
    /\ LET items == Month(Since, now)
       IN  job' = [at |-> IF WorthSending(items) THEN "mail" ELSE "commit",
                   until |-> now, items |-> items]
    /\ built' = now
    /\ UNCHANGED <<now, last, made, stored, late, copies, faults, odd>>

Send ==
    /\ job.at = "mail"
    /\ job' = [job EXCEPT !.at = "commit"]
    /\ copies' = [i \in Item |-> IF i \in job.items /\ copies[i] < 2
                                 THEN copies[i] + 1 ELSE copies[i]]
    /\ UNCHANGED <<now, last, made, stored, late, built, faults, odd>>

(* The relay refuses: not tried again.                                     *)
MailFails ==
    /\ job.at = "mail" /\ faults < MaxFaults
    /\ faults' = faults + 1 /\ odd' = odd \cup {"mail"}
    /\ job' = [job EXCEPT !.at = "commit"]
    /\ UNCHANGED <<now, last, made, stored, late, built, copies>>

(* The instant the digest was built for is stamped, sent or not.           *)
Stamp(j) == j.until
Commit ==
    /\ job.at = "commit"
    /\ last' = Stamp(job)
    /\ job' = Idle
    /\ UNCHANGED <<now, made, stored, late, built, copies, faults, odd>>

Crash ==
    /\ job # Idle /\ faults < MaxFaults
    /\ faults' = faults + 1 /\ odd' = odd \cup {"crash"}
    /\ job' = Idle
    /\ UNCHANGED <<now, last, made, stored, late, built, copies>>

(* A row is made in a transaction and seen once that has committed.        *)
Make(i) ==
    /\ made[i] = None
    /\ made' = [made EXCEPT ![i] = now]
    /\ UNCHANGED <<now, last, stored, late, job, built, copies, faults, odd>>
Store(i) ==
    /\ made[i] # None /\ i \notin stored
    /\ stored' = stored \cup {i}
    /\ late' = IF built # None /\ made[i] < built THEN late \cup {i} ELSE late
    /\ UNCHANGED <<now, last, made, job, built, copies, faults, odd>>

Tick ==
    /\ now < MaxTime
    /\ now' = now + 1
    /\ UNCHANGED <<last, made, stored, late, job, built, copies, faults, odd>>

Next == \/ Build \/ Send \/ MailFails \/ Commit \/ Crash \/ Tick
        \/ \E i \in Item : Make(i) \/ Store(i)
Spec == Init /\ [][Next]_vars

-----------------------------------------------------------------------------
(* Types; no digest is stamped before the workspace has a month to report, *)
(* and only a digest that was built is stamped.                            *)
TypeOK ==
    /\ now \in 0 .. MaxTime
    /\ last \in Period .. MaxTime \cup {None} /\ last <= built
    /\ made \in [Item -> 0 .. MaxTime \cup {None}]
    /\ late \subseteq stored /\ stored \subseteq {i \in Item : made[i] # None}
    /\ job.at \in {"idle", "mail", "commit"} /\ job.items \subseteq stored
    /\ copies \in [Item -> 0 .. 2]

(* Consecutive months touch and do not overlap: nothing is told twice      *)
(* unless the process dies between the mails and the stamp.                *)
ToldInOneMonth == "crash" \notin odd => \A i \in Item : copies[i] <= 1

(* Nothing falls between two months, and downtime skips none: whatever was *)
(* made before the last stamp has been told, unless the mail failed or the *)
(* row's transaction was still open when its month was built.              *)
NothingFallsBetween ==
    odd = {} => \A i \in News :
        made[i] # None /\ made[i] < last => copies[i] = 1 \/ i \in late \/ i \notin stored

(* A quiet workspace is reconsidered next month, not at every cycle.       *)
OneBuildAMonthStep ==
    Build /\ "crash" \notin odd => built = None \/ now - built >= Period
OneBuildAMonth == [][OneBuildAMonthStep]_vars
=============================================================================

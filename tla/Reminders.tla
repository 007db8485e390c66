----------------------------- MODULE Reminders -----------------------------
(***************************************************************************)
(* The warnings before a workspace's access changes: a job of the          *)
(* scheduler reads every workspace, decides by the days left and by the    *)
(* mark of the last warning, writes to the administrators and commits the  *)
(* marks once at the end.  Meanwhile days pass, webhooks start or end a    *)
(* period, and the customer buys, cancels and resumes.                     *)
(***************************************************************************)
EXTENDS Integers, FiniteSets

CONSTANTS
    Marks,          \* RENEWAL_REMINDER_DAYS
    Length,         \* days in a period
    MaxPeriods,     \* bound: periods of the workspace
    MaxChanges,     \* bound: cancellations, resumptions
    MaxFaults       \* bound: crashes and mails that do not go

VARIABLES
    access,     \* "trial", "renewing", "ending" (to be cancelled), "free"
    left,       \* days left in the period
    mark,       \* renewal_reminder_days: the smallest mark told, None after a start
    period,     \* the period this is
    job,        \* the reminder job: idle, or what it read and decided
    ran,        \* it has run today
    told,       \* the warnings that went out: <<period, kind, days left>>
    twice,      \* warnings that went out again
    since,      \* the most days left that a run saw, once it is running out
    changes, faults,
    odd         \* "crash", "mail", "overlap", "calm"

vars == <<access, left, mark, period, job, ran, told, twice, since, changes, faults, odd>>

None == -1
Idle == [at |-> "idle", kind |-> "none", mark |-> None, left |-> 0, mail |-> FALSE]
Deadline == {"trial", "renewing", "ending"}

Init ==
    /\ access = "trial" /\ left = Length /\ mark = None /\ period = 1
    /\ job = Idle /\ ran = FALSE
    /\ told = {} /\ twice = {} /\ since = Length
    /\ changes = 0 /\ faults = 0 /\ odd = {}

(* The closest mark the days left have reached, or None.                   *)
Reached(n) == {d \in Marks : n <= d}
DueMark(n) ==
    IF Reached(n) = {} THEN None ELSE CHOOSE d \in Reached(n) : \A e \in Reached(n) : d <= e

(* Whether a warning goes: not the same mark again, and for a plan that    *)
(* will simply renew not once any has gone.                                *)
TellsAgain(kind, n, m) == DueMark(n) # None /\ (kind = "renewing" => m = None)
Tells(kind, n, m) ==
    /\ DueMark(n) # None
    /\ m = None \/ m > DueMark(n)
    /\ kind = "renewing" => m = None

(* What is remembered of it: a calm notice silences the rest of the period.*)
Remember(kind, n) == IF kind = "renewing" THEN 0 ELSE DueMark(n)

(* The job reads the workspaces.                                           *)
Read ==
    /\ job = Idle
    /\ job' = IF access \in Deadline /\ left >= 0 /\ Tells(access, left, mark)
              THEN [at |-> "mail", kind |-> access, mark |-> Remember(access, left),
                    left |-> left, mail |-> TRUE]
              ELSE [Idle EXCEPT !.at = "commit", !.left = left]
    /\ UNCHANGED <<access, left, mark, period, ran, told, twice, since, changes, faults, odd>>

(* The administrators are written to before anything is committed; a mail  *)
(* that does not go is logged and not tried again.                         *)
Warning == <<period, job.kind, job.left>>
Send ==
    /\ job.at = "mail"
    /\ job' = [job EXCEPT !.at = "commit"]
    /\ told' = told \cup {Warning}
    /\ twice' = IF Warning \in told THEN twice \cup {Warning} ELSE twice
    /\ UNCHANGED <<access, left, mark, period, ran, since, changes, faults, odd>>
MailFails ==
    /\ job.at = "mail" /\ faults < MaxFaults
    /\ faults' = faults + 1 /\ odd' = odd \cup {"mail"}
    /\ job' = [job EXCEPT !.at = "commit"]
    /\ UNCHANGED <<access, left, mark, period, ran, told, twice, since, changes>>

Commit ==
    /\ job.at = "commit"
    /\ mark' = IF job.mail THEN job.mark ELSE mark
    /\ job' = Idle /\ ran' = (ran \/ job.left = left)
    /\ odd' = IF job.kind = "renewing" THEN odd \cup {"calm"} ELSE odd
    /\ UNCHANGED <<access, left, period, told, twice, since, changes, faults>>

Crash ==
    /\ job # Idle /\ faults < MaxFaults
    /\ faults' = faults + 1 /\ odd' = odd \cup {"crash"}
    /\ job' = Idle
    /\ UNCHANGED <<access, left, mark, period, ran, told, twice, since, changes>>

-----------------------------------------------------------------------------
(* What starts and ends a period.                                          *)
Overlap == odd' = odd \cup (IF job # Idle THEN {"overlap"} ELSE {})
Start(a) ==
    /\ period < MaxPeriods
    /\ access' = a /\ left' = Length /\ period' = period + 1
    /\ mark' = None /\ since' = Length
    /\ UNCHANGED <<job, ran, told, twice, changes, faults>>
    /\ odd' = (odd \ {"calm"}) \cup (IF job # Idle THEN {"overlap"} ELSE {})

(* The first payment (_activate_paid_plan) and each renewal (invoice.paid) *)
(* start one and clear the mark.                                           *)
Buy == access \in {"trial", "free"} /\ Start("renewing")
Renew == access = "renewing" /\ left < 0 /\ Start("renewing")

(* The customer schedules the cancellation or takes it back: the webhook   *)
(* copies the flag and the date, and leaves the mark alone.  After the     *)
(* day's run, only the days that follow are seen by one.                   *)
Change(a, b) ==
    /\ access = a /\ left >= 0 /\ changes < MaxChanges
    /\ access' = b /\ changes' = changes + 1 /\ since' = IF ran THEN left - 1 ELSE left
    /\ Overlap
    /\ UNCHANGED <<left, mark, period, job, ran, told, twice, faults>>
Cancel == Change("renewing", "ending")
Resume == Change("ending", "renewing")

(* At the end of a trial nothing is written; a cancelled plan is           *)
(* downgraded by its webhook, which clears the mark.                       *)
Lose ==
    /\ access \in {"trial", "ending"} /\ left < 0
    /\ access' = "free"
    /\ mark' = IF access = "ending" THEN None ELSE mark
    /\ Overlap
    /\ UNCHANGED <<left, period, job, ran, told, twice, since, changes, faults>>

(* The job's cycle is shorter than a day.                                  *)
DayPasses ==
    /\ ran /\ left >= 0 /\ access \in Deadline
    /\ left' = left - 1 /\ ran' = FALSE
    /\ UNCHANGED <<access, mark, period, job, told, twice, since, changes, faults, odd>>

Next == \/ Read \/ Send \/ MailFails \/ Commit \/ Crash
        \/ Buy \/ Renew \/ Cancel \/ Resume \/ Lose \/ DayPasses
Spec == Init /\ [][Next]_vars

-----------------------------------------------------------------------------
(* Types; and the mark never runs ahead of the days: it is not smaller     *)
(* than the closest one reached, but for the 0 of a calm notice.           *)
TypeOK ==
    /\ access \in Deadline \cup {"free"} /\ left \in -1 .. Length
    /\ mark \in Marks \cup {None} /\ period \in 1 .. MaxPeriods
    /\ job.at \in {"idle", "mail", "commit"} /\ job.mark \in Marks \cup {None}
    /\ since \in -1 .. Length
    /\ odd = {} /\ access = "trial" => mark = None \/ mark >= left

(* Warning "cannot repeat": none goes out a second time unless the process *)
(* dies between the mail and the commit or a webhook writes the row        *)
(* meanwhile.                                                              *)
ToldOnce == odd \cap {"crash", "overlap"} = {} => twice = {}

(* Access that runs out was announced at every mark that remained, in      *)
(* that period; unless a mail failed, the job's row was written under it,  *)
(* or a calm notice had already gone.                                      *)
EndWasCountedDown ==
    access = "free" /\ odd \cap {"mail", "overlap", "calm"} = {} =>
        \A d \in {e \in Marks : e <= since} :
            \E w \in told : w[1] = period /\ w[2] \in {"trial", "ending"} /\ w[3] = d

(* A card that is simply going to be charged is one notice a period, and   *)
(* none after warnings of an end that was taken back.                      *)
RenewalIsCalm ==
    odd \cap {"crash", "overlap"} = {} =>
        \A w \in told, v \in told :
            w[1] = v[1] /\ w[2] = "renewing" /\ v # w => v[2] # "renewing" /\ v[3] <= w[3]

(* "Idempotent by construction: re-running the job - on the same tick,     *)
(* after a restart, or twice in a day - cannot repeat a warning."          *)
RestartDoesNotRepeat == "overlap" \notin odd => twice = {}

(* "Paid plan set to cancel.  Counts down": one that is cancelled and ends *)
(* has been told so, the mails and commits having worked.                  *)
CancellationIsCounted ==
    access = "free" /\ since > 0 /\ odd \cap {"mail", "overlap", "crash"} = {} =>
        \E w \in told : w[1] = period /\ w[2] \in {"trial", "ending"}
=============================================================================

----------------------------- MODULE Forwarding -----------------------------
(***************************************************************************)
(* Forwarded copies.  A mail server submits a copy to the secret addresses *)
(* of one or more tenants; the listener resolves each address when it is   *)
(* named and again when the data comes, attributes the copy to a mailbox   *)
(* of the tenant and analyses it unless it is a duplicate; the answer of   *)
(* the last recipient answers the submission.  A polled mailbox analyses   *)
(* the same mail on its own.                                               *)
(***************************************************************************)
EXTENDS Integers, Sequences, SequencesExt, FiniteSetsExt

CONSTANTS
    Tenant, Box, Boxes,     \* a tenant's mailboxes, as the database lists them
    Mail, Id, Content,      \* mails with their Message-ID and fingerprint
    Named,                  \* mailboxes a mail names in To and Cc
    Lands,                  \* mailboxes whose inbox it is in
    Envelope,               \* tenants its copy is submitted to
    Polled,                 \* mailboxes that are also polled
    MaxTries, MaxMoves, MaxFaults   \* bounds: submissions, lapses and
                                    \*   deletions, failures

VARIABLES
    gone, lapsed,   \* tenants that left, and whose access ended
    sub,            \* per mail: the submission as its sender sees it
    job,            \* per mail: the submission being handled
    poll,           \* per mailbox: the mail being analysed, or None
    polls,          \* mails each mailbox has polled
    stored,         \* message rows: <<mailbox, mail>>
    analysed,       \* analyses committed per mailbox and mail
    skipped,        \* copies accepted without an analysis: <<mail, tenant>>
    tries, moves, faults

vars == <<gone, lapsed, sub, job, poll, polls, stored, analysed, skipped,
          tries, moves, faults>>

None == "none"
Idle == [at |-> "idle", to |-> {}, k |-> 0, box |-> None, answer |-> None]
Init ==
    /\ gone = {} /\ lapsed = {}
    /\ sub = [m \in Mail |-> "new"] /\ job = [m \in Mail |-> Idle]
    /\ poll = [b \in Box |-> None] /\ polls = [b \in Box |-> {}]
    /\ stored = {} /\ analysed = [p \in Box \X Mail |-> 0] /\ skipped = {}
    /\ tries = 0 /\ moves = 0 /\ faults = 0

(* A re-delivery has the id and the content of a row of the mailbox; a     *)
(* reused id with other content is a new mail.                             *)
DuplicateById(b, m) == \E r \in stored : r[1] = b /\ Id[r[2]] = Id[m]
Duplicate(b, m) ==
    \E r \in stored : r[1] = b /\ Id[r[2]] = Id[m] /\ Content[r[2]] = Content[m]

Store(b, m) ==
    /\ stored' = stored \cup {<<b, m>>}
    /\ analysed' = [analysed EXCEPT ![<<b, m>>] = @ + 1]

(* An address resolves while its tenant is there; a tenant whose access    *)
(* ended, or without a mailbox, has its copies accepted and dropped.       *)
Resolves(t) == t \notin gone
Analysable(t) == t \notin lapsed /\ Boxes[t] # <<>>

-----------------------------------------------------------------------------
Leave(t) ==
    /\ t \notin gone /\ moves < MaxMoves
    /\ moves' = moves + 1
    /\ gone' = gone \cup {t}
    /\ stored' = {r \in stored : r[1] \notin ToSet(Boxes[t])}
    /\ UNCHANGED <<lapsed, sub, job, poll, polls, analysed, skipped, tries, faults>>
Lapse(t) ==
    /\ t \notin lapsed /\ moves < MaxMoves
    /\ moves' = moves + 1
    /\ lapsed' = lapsed \cup {t}
    /\ UNCHANGED <<gone, sub, job, poll, polls, stored, analysed, skipped, tries, faults>>

Arrive(m) ==
    /\ sub[m] = "new"
    /\ sub' = [sub EXCEPT ![m] = "waiting"]
    /\ UNCHANGED <<gone, lapsed, job, poll, polls, stored, analysed, skipped,
                   tries, moves, faults>>

(* Recipients: an address that resolves to no tenant is refused by itself; *)
(* the others are handled in their order.                                  *)
Recipient(m) == Envelope[m][job[m].k]
Submit(m) ==
    /\ sub[m] = "waiting" /\ job[m] = Idle /\ tries < MaxTries
    /\ tries' = tries + 1
    /\ LET to == {k \in DOMAIN Envelope[m] : Resolves(Envelope[m][k])} IN
       IF to = {}
       THEN sub' = [sub EXCEPT ![m] = "refused"] /\ UNCHANGED job
       ELSE /\ job' = [job EXCEPT ![m] = [Idle EXCEPT !.at = "data", !.to = to,
                                                       !.k = Min(to)]]
            /\ UNCHANGED sub
    /\ UNCHANGED <<gone, lapsed, poll, polls, stored, analysed, skipped, moves, faults>>

(* One recipient is answered; after the last the submission is.            *)
Answered(m, answer) ==
    LET j == job[m]
        left == {k \in j.to : k > j.k}
    IN
    IF left # {}
    THEN /\ job' = [job EXCEPT ![m] = [j EXCEPT !.at = "data", !.k = Min(left),
                                                !.box = None, !.answer = answer]]
         /\ UNCHANGED sub
    ELSE /\ job' = [job EXCEPT ![m] = Idle]
         /\ sub' = [sub EXCEPT ![m] = IF answer = "250" THEN "accepted" ELSE "refused"]

(* The mailbox the mail names, or the tenant's first.                      *)
Attributed(t, m) ==
    LET named == {k \in DOMAIN Boxes[t] : Boxes[t][k] \in Named[m]} IN
    IF named # {} THEN Boxes[t][Min(named)] ELSE Head(Boxes[t])

Resolve(m) ==
    LET t == Recipient(m) IN
    /\ job[m].at = "data"
    /\ \/ /\ ~Resolves(t)
          /\ Answered(m, "550") /\ UNCHANGED skipped
       \/ /\ Resolves(t) /\ ~Analysable(t)
          /\ Answered(m, "250")
          /\ skipped' = skipped \cup {<<m, t>>}
       \/ /\ Resolves(t) /\ Analysable(t) /\ Duplicate(Attributed(t, m), m)
          /\ Answered(m, "250") /\ UNCHANGED skipped
       \/ /\ Resolves(t) /\ Analysable(t) /\ ~Duplicate(Attributed(t, m), m)
          /\ job' = [job EXCEPT ![m].at = "read", ![m].box = Attributed(t, m)]
          /\ UNCHANGED <<sub, skipped>>
    /\ UNCHANGED <<gone, lapsed, poll, polls, stored, analysed, tries, moves, faults>>

CommitCopy(m) ==
    /\ job[m].at = "read" /\ Recipient(m) \notin gone
    /\ Store(job[m].box, m)
    /\ Answered(m, "250")
    /\ UNCHANGED <<gone, lapsed, poll, polls, skipped, tries, moves, faults>>

(* An exception answers the whole submission with an error; the sender     *)
(* bounces the mail or submits it again, as it does when the connection    *)
(* is lost.                                                                *)
Swallows(m) == Answered(m, "250")
Errs(m) ==
    /\ job' = [job EXCEPT ![m] = Idle]
    /\ sub' \in {[sub EXCEPT ![m] = "refused"], sub}
Fail(m) ==
    /\ job[m] # Idle
    /\ IF job[m].at = "read" /\ Recipient(m) \in gone
       THEN UNCHANGED faults
       ELSE faults < MaxFaults /\ faults' = faults + 1
    /\ Errs(m)
    /\ UNCHANGED <<gone, lapsed, poll, polls, stored, analysed, skipped, tries, moves>>

-----------------------------------------------------------------------------
(* The poller of a mailbox.                                                *)
Poll(b, m) ==
    /\ b \in Polled /\ b \in Lands[m] /\ sub[m] # "new" /\ poll[b] = None /\ m \notin polls[b]
    /\ IF Duplicate(b, m) THEN polls' = [polls EXCEPT ![b] = @ \cup {m}] /\ UNCHANGED poll
       ELSE poll' = [poll EXCEPT ![b] = m] /\ UNCHANGED polls
    /\ UNCHANGED <<gone, lapsed, sub, job, stored, analysed, skipped, tries, moves, faults>>
CommitPoll(b) ==
    /\ poll[b] # None
    /\ Store(b, poll[b])
    /\ polls' = [polls EXCEPT ![b] = @ \cup {poll[b]}]
    /\ poll' = [poll EXCEPT ![b] = None]
    /\ UNCHANGED <<gone, lapsed, sub, job, skipped, tries, moves, faults>>

Next ==
    \/ \E t \in Tenant : Leave(t) \/ Lapse(t)
    \/ \E m \in Mail : \/ Arrive(m) \/ Submit(m) \/ Resolve(m) \/ CommitCopy(m) \/ Fail(m)
                       \/ \E b \in Box : Poll(b, m)
    \/ \E b \in Box : CommitPoll(b)
Spec == Init /\ [][Next]_vars

-----------------------------------------------------------------------------
TypeOK ==
    /\ gone \subseteq Tenant /\ lapsed \subseteq Tenant
    /\ sub \in [Mail -> {"new", "waiting", "accepted", "refused"}]
    /\ stored \subseteq Box \X Mail
    /\ \A r \in stored : analysed[r[1], r[2]] > 0
    /\ \A m \in Mail : job[m] # Idle =>
          sub[m] = "waiting" /\ job[m].k \in job[m].to /\ job[m].to \subseteq DOMAIN Envelope[m]

(* A copy its sender was told is accepted has been analysed for every      *)
(* tenant it was submitted to that still has access and a mailbox, a       *)
(* reused Message-ID with new content included.                            *)
ReachedEveryTenant ==
    \A m \in Mail : sub[m] = "accepted" =>
        \A t \in ToSet(Envelope[m]) \ gone :
            <<m, t>> \in skipped \/ \E b \in ToSet(Boxes[t]) : analysed[b, m] > 0

(* What its sender was told is accepted has been analysed for everyone, a  *)
(* stored row was analysed, and a copy is handled only while its sender    *)
(* waits.                                                                  *)
AcceptedWasAnalysed == TypeOK /\ ReachedEveryTenant

(* "A genuine re-delivery is skipped before any analysis": a mail is       *)
(* analysed once for a tenant however often it is submitted, "whenever a   *)
(* mailbox is on both a live IMAP poll and a forwarding rule".             *)
AnalysedOnce ==
    \A t \in Tenant, m \in Mail : \A b, c \in ToSet(Boxes[t]) :
        /\ analysed[b, m] <= 1
        /\ b # c => analysed[b, m] + analysed[c, m] <= 1
=============================================================================

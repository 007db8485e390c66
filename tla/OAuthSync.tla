------------------------------- MODULE OAuthSync -------------------------------
(***************************************************************************)
(* The mail of one Gmail or Microsoft 365 mailbox under protection         *)
(* (workers/oauth_fetch.py): a push notification or a click flags the      *)
(* mailbox, the drain or the fallback poll lists it, each new message is   *)
(* analysed, notified, and then moved to quarantine or replaced by its     *)
(* protected copy through the provider's API (channels/mail/api_enforce.py)*)
(***************************************************************************)
EXTENDS Naturals, FiniteSets

CONSTANTS
    Mail,           \* messages
    Severity,       \* what a message may turn out to be
    Gmail,          \* the provider: Gmail, or else Graph
    Attempts,       \* MESSAGE_ATTEMPTS
    MaxStamps,      \* bound: stamps of the flag
    MaxFaults,      \* bound: provider calls and messages that fail
    MaxCrashes,     \* bound: restarts of the worker
    MaxClicks       \* bound: QUARANTINE clicks

VARIABLES
    kind,       \* what each message is, once it has arrived
    place,      \* where the original is
    copies,     \* protected copies of it in the mailbox
    stored,     \* committed Message rows
    told,       \* alerts that were delivered
    stamped,    \* Message.quarantined_at
    wanted,     \* Message.quarantine_requested_at
    flag,       \* Mailbox.sync_requested_at: 0 is NULL
    stamps,     \* stamps handed out so far
    pushes,     \* notifications the provider has yet to deliver
    announced,  \* messages whose notification was received (history)
    known,      \* _SEEN_REFS: memory of the worker
    tries,      \* _MESSAGE_FAILURES: memory of the worker
    job,        \* the sync that holds the mailbox's lock
    clicked,    \* messages somebody asked to quarantine (history)
    faults, crashes,
    odd         \* what went wrong on the way (history)

vars == <<kind, place, copies, stored, told, stamped, wanted, flag, stamps, pushes,
          announced, known, tries, job, clicked, faults, crashes, odd>>
provider == <<kind, place, copies, pushes, announced>>
rows == <<stored, told, stamped, wanted>>
bounds == <<clicked, faults, crashes>>

NoMail == "none"
Idle == [phase |-> "idle", from |-> 0, todo |-> {}, on |-> NoMail, done |-> {}]

Init ==
    /\ kind = [m \in Mail |-> NoMail]
    /\ place = [m \in Mail |-> "out"]
    /\ copies = [m \in Mail |-> 0]
    /\ stored = {} /\ told = {} /\ stamped = {} /\ wanted = {}
    /\ flag = 0 /\ stamps = 0 /\ pushes = {} /\ announced = {}
    /\ known = {} /\ tries = [m \in Mail |-> 0]
    /\ job = Idle /\ clicked = {} /\ faults = 0 /\ crashes = 0 /\ odd = {}

-----------------------------------------------------------------------------
(* The provider, and what it tells us.                                     *)
Arrive(m) ==
    /\ place[m] = "out"
    /\ \E k \in Severity : kind' = [kind EXCEPT ![m] = k]
    /\ place' = [place EXCEPT ![m] = "inbox"]
    /\ pushes' = pushes \cup {m}
    /\ UNCHANGED <<copies, announced, rows, flag, stamps, known, tries, job, bounds, odd>>

(* _fetch_mailbox: stamped afresh on every notification.                   *)
Push(m) ==
    /\ m \in pushes /\ stamps < MaxStamps
    /\ pushes' = pushes \ {m} /\ announced' = announced \cup {m}
    /\ stamps' = stamps + 1 /\ flag' = stamps'
    /\ UNCHANGED <<kind, place, copies, rows, known, tries, job, bounds, odd>>

PushLost(m) ==
    /\ m \in pushes /\ faults < MaxFaults
    /\ pushes' = pushes \ {m} /\ faults' = faults + 1
    /\ UNCHANGED <<kind, place, copies, announced, rows, flag, stamps, known, tries, job,
                   clicked, crashes, odd>>

(* The QUARANTINE button, where the API cannot decrypt: the decision is    *)
(* recorded, and the flag stamped only when it is empty.                   *)
Click(m) ==
    /\ m \in stored \ (stamped \cup wanted)
    /\ Cardinality(clicked) < MaxClicks /\ clicked' = clicked \cup {m}
    /\ flag = 0 => stamps < MaxStamps
    /\ wanted' = wanted \cup {m}
    /\ IF flag = 0 THEN stamps' = stamps + 1 /\ flag' = stamps'
                   ELSE UNCHANGED <<stamps, flag>>
    /\ UNCHANGED <<provider, stored, told, stamped, known, tries, job, faults, crashes, odd>>

-----------------------------------------------------------------------------
(* One sync at a time: _SYNC_LOCKS. The poll takes every mailbox, the      *)
(* drain those with a flag.                                                *)
Begin == /\ job = Idle
         /\ job' = [Idle EXCEPT !.phase = "listing", !.from = flag]
         /\ UNCHANGED <<provider, rows, flag, stamps, known, tries, bounds, odd>>
Drain == flag # 0 /\ Begin
Poll == flag = 0 /\ Begin

Listed == {m \in Mail : place[m] = "inbox"} \ known

List ==
    /\ job.phase = "listing"
    /\ job' = [job EXCEPT !.phase = "loop", !.todo = Listed]
    /\ UNCHANGED <<provider, rows, flag, stamps, known, tries, bounds, odd>>

(* No token, or the provider does not answer: the flag stays.              *)
ListFails ==
    /\ job.phase = "listing" /\ faults < MaxFaults
    /\ job' = Idle /\ faults' = faults + 1
    /\ UNCHANGED <<provider, rows, flag, stamps, known, tries, clicked, crashes, odd>>

First(m) == IF m \in stored THEN "commit"      \* pr.duplicate
            ELSE IF kind[m] = "clean" THEN "copy" ELSE "alert"

Take(m) ==
    /\ job.phase = "loop" /\ m \in job.todo
    /\ job' = [job EXCEPT !.on = m, !.todo = @ \ {m}, !.phase = First(m)]
    /\ UNCHANGED <<provider, rows, flag, stamps, known, tries, bounds, odd>>

On == job.on
GoTo(p) == job' = [job EXCEPT !.phase = p]

(* Notify first, enforce after: the row and its alert are committed before *)
(* anyone is told, and told before the message is touched.                 *)
NextTell == "tell"
AlertCommit ==
    /\ job.phase = "alert" /\ GoTo(NextTell)
    /\ stored' = stored \cup {On}
    /\ UNCHANGED <<provider, told, stamped, wanted, flag, stamps, known, tries, bounds, odd>>

Tell ==
    /\ job.phase = "tell"
    /\ told' = told \cup {On}
    /\ GoTo(IF kind[On] = "critical" THEN "hold" ELSE "copy")
    /\ UNCHANGED <<provider, stored, stamped, wanted, flag, stamps, known, tries, bounds, odd>>

(* gmail_quarantine, graph_quarantine: any failure means "not moved", and  *)
(* the copy is written instead.                                            *)
Hold ==
    /\ job.phase = "hold" /\ GoTo("mark")
    /\ place' = [place EXCEPT ![On] = IF @ = "inbox" THEN "held" ELSE @]
    /\ UNCHANGED <<kind, copies, pushes, announced, rows, flag, stamps, known, tries, bounds, odd>>

AfterNoMove == "copy"
HoldFails ==
    /\ job.phase = "hold" /\ faults < MaxFaults
    /\ GoTo(AfterNoMove) /\ faults' = faults + 1
    /\ odd' = odd \cup {"nomove"}
    /\ UNCHANGED <<provider, rows, flag, stamps, known, tries, clicked, crashes>>

(* gmail_replace, graph_replace: insert the copy, then remove the original.*)
Copy ==
    /\ job.phase = "copy" /\ GoTo("remove")
    /\ copies' = [copies EXCEPT ![On] = @ + 1]
    /\ UNCHANGED <<kind, place, pushes, announced, rows, flag, stamps, known, tries, bounds, odd>>

AfterNoCopyRemove == "remove"
AfterNoCopy == "commit"
CopyFails ==
    /\ job.phase = "copy" /\ faults < MaxFaults
    /\ GoTo(AfterNoCopy) /\ faults' = faults + 1
    /\ odd' = odd \cup {"nocopy"}
    /\ UNCHANGED <<provider, rows, flag, stamps, known, tries, clicked, crashes>>

Remove ==
    /\ job.phase = "remove" /\ GoTo("commit")
    /\ place' = [place EXCEPT ![On] = "gone"]
    /\ UNCHANGED <<kind, copies, pushes, announced, rows, flag, stamps, known, tries, bounds, odd>>

RemoveFails ==
    /\ job.phase = "remove" /\ faults < MaxFaults
    /\ GoTo("commit") /\ faults' = faults + 1
    /\ odd' = odd \cup {"beside"}
    /\ UNCHANGED <<provider, rows, flag, stamps, known, tries, clicked, crashes>>

(* The message's transaction: only now it counts as seen.                  *)
MessageDone ==
    /\ job.phase \in {"mark", "commit"}
    /\ stored' = stored \cup {On}
    /\ stamped' = IF job.phase = "mark" THEN stamped \cup {On} ELSE stamped
    /\ known' = known \cup {On}
    /\ job' = [job EXCEPT !.phase = "loop", !.on = NoMail]
    /\ UNCHANGED <<provider, told, wanted, flag, stamps, tries, bounds, odd>>

(* retry_failed_message: rolled back, tried again at the next listing, and *)
(* given up on after the last attempt.                                     *)
GivesUp(m) == tries[m] + 1 >= Attempts

MessageFails ==
    /\ job.phase \in {"alert", "tell", "copy", "mark", "commit"}
    /\ faults < MaxFaults /\ faults' = faults + 1
    /\ known' = IF GivesUp(On) THEN known \cup {On} ELSE known
    /\ tries' = [tries EXCEPT ![On] = IF GivesUp(On) THEN 0 ELSE @ + 1]
    /\ odd' = odd \cup (IF On \in stored THEN {"late"} ELSE {})
                  \cup (IF GivesUp(On) THEN {"given up"} ELSE {})
                  \cup (IF copies[On] > 0 THEN {"midwrite"} ELSE {})
    /\ job' = [job EXCEPT !.phase = "loop", !.on = NoMail]
    /\ UNCHANGED <<provider, rows, flag, stamps, clicked, crashes>>

(* _run_requested_quarantines, after the loop: Message.source_ref names the *)
(* original. Gmail labels a trashed message as well; Graph does not find   *)
(* one that was removed, nor one under its old id once it moved.           *)
Requested ==
    /\ job.phase = "loop" /\ job.todo = {}
    /\ job' = [job EXCEPT !.phase = "clicks", !.todo = wanted \ stamped]
    /\ UNCHANGED <<provider, rows, flag, stamps, known, tries, bounds, odd>>

Reaches(m) == place[m] = "inbox" \/ Gmail

RunClick(m) ==
    /\ job.phase = "clicks" /\ m \in job.todo
    /\ IF Reaches(m)
       THEN /\ place' = [place EXCEPT ![m] = IF @ = "inbox" THEN "held" ELSE @]
            /\ job' = [job EXCEPT !.todo = @ \ {m}, !.done = @ \cup {m}]
       ELSE UNCHANGED place /\ job' = [job EXCEPT !.todo = @ \ {m}]
    /\ UNCHANGED <<kind, copies, pushes, announced, rows, flag, stamps, known, tries,
                   bounds, odd>>

(* clear_sync_request: only the stamp this sync started from is cleared.   *)
Cleared == IF flag = job.from THEN 0 ELSE flag

Finish ==
    /\ job.phase = "clicks" /\ job.todo = {}
    /\ stamped' = stamped \cup job.done /\ wanted' = wanted \ job.done
    /\ flag' = Cleared
    /\ job' = Idle
    /\ UNCHANGED <<provider, stored, told, stamps, known, tries, bounds, odd>>

(* The worker's process dies: its memory and its open transaction go.      *)
Crash ==
    /\ crashes < MaxCrashes /\ crashes' = crashes + 1
    /\ job' = Idle /\ known' = {} /\ tries' = [m \in Mail |-> 0]
    /\ odd' = odd \cup {"crash"}
                  \cup (IF On # NoMail /\ copies[On] > 0 THEN {"midwrite"} ELSE {})
    /\ UNCHANGED <<provider, rows, flag, stamps, clicked, faults>>

-----------------------------------------------------------------------------
Step ==
    \/ Drain \/ List \/ AlertCommit \/ Tell \/ Hold \/ Copy \/ Remove \/ MessageDone
    \/ Requested \/ Finish
    \/ \E m \in Mail : Take(m) \/ RunClick(m)

Next ==
    \/ Step \/ Poll \/ ListFails \/ HoldFails \/ CopyFails \/ RemoveFails \/ MessageFails
    \/ Crash
    \/ \E m \in Mail : Arrive(m) \/ Push(m) \/ PushLost(m) \/ Click(m)

Fairness == /\ WF_vars(Step) /\ WF_vars(Poll)

Spec == Init /\ [][Next]_vars /\ Fairness
-----------------------------------------------------------------------------
(* Properties                                                              *)

(* Every variable keeps its shape; who was told has a row, and so has *)
(* what is quarantined or to be.                                           *)
TypeOK ==
    /\ kind \in [Mail -> Severity \cup {NoMail}]
    /\ place \in [Mail -> {"out", "inbox", "held", "gone"}]
    /\ flag \in 0..stamps /\ stamps <= MaxStamps
    /\ told \subseteq stored /\ stamped \cup wanted \subseteq stored
    /\ job.from <= stamps /\ job.todo \subseteq Mail

Handled(m) == m \in stored \/ ("given up" \in odd /\ m \in known)

(* A message whose notification was received is handled, or the mailbox is *)
(* still flagged, or the sync under way will come to it, or its last       *)
(* attempt failed and the fallback poll has it: a notification that lands  *)
(* while a sync runs is not answered by that sync (clear_sync_request).    *)
AnnouncedNotForgotten ==
    \A m \in announced :
        \/ Handled(m) \/ flag # 0 \/ tries[m] > 0 \/ "crash" \in odd
        \/ job.phase = "listing" \/ m \in job.todo \/ job.on = m

(* Whatever the provider refuses and wherever the worker dies, a message   *)
(* stays in the mailbox: as the original, in quarantine or as its copy.    *)
NothingLost ==
    \A m \in Mail : place[m] = "gone" => copies[m] > 0

(* Nobody finds a message moved or replaced before being told why: an      *)
(* alert is delivered before its message is touched, unless somebody who   *)
(* saw it asked for that.                                                  *)
ToldBeforeTouched ==
    \A m \in Mail : (place[m] \in {"held", "gone"} \/ copies[m] > 0)
                    /\ kind[m] # "clean" => m \in told \cup clicked

(* A critical message that was dealt with is out of the inbox, also when   *)
(* the provider refuses to move it, unless it refuses the copy too or the  *)
(* attempt failed after its alert was committed: the retry finds the row   *)
(* and enforces nothing.                                                   *)
CriticalEnforced ==
    odd \subseteq {"nomove"} /\ job = Idle =>
        \A m \in Mail : kind[m] = "critical" /\ m \in known => place[m] \in {"held", "gone"}

(* A message is rewritten once, however often it is listed, unless an      *)
(* attempt failed after the copy was in or the worker died then.           *)
OneCopy == "midwrite" \notin odd => \A m \in Mail : copies[m] <= 1

(* Every message that arrives is eventually analysed or given up on, with  *)
(* lost notifications, failures and restarts: the poll lists what no       *)
(* notification announced. Only a message already replaced by its copy     *)
(* when its transaction failed is not analysed again.                      *)
EveryMailAnalysed ==
    \A m \in Mail : place[m] = "inbox" ~> Handled(m) \/ (place[m] = "gone" /\ odd # {})

(* A message stamped as quarantined on request is not in the inbox         *)
(* (gmail_quarantine: "Take the message out of the inbox").                *)
QuarantinedIsOut ==
    \A m \in stamped : place[m] # "inbox" /\ copies[m] = 0

(* A click wakes the worker's fast path: until it is acted on, the mailbox *)
(* is flagged or a sync that will act on it is under way.                  *)
ClickWakes ==
    \A m \in wanted \ stamped : flag # 0 \/ (job # Idle /\ (job.phase = "clicks" => m \in job.todo \cup job.done))
=============================================================================

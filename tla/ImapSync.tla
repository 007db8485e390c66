------------------------------ MODULE ImapSync ------------------------------
(***************************************************************************)
(* One connected IMAP mailbox: the mail server's inbox, the database rows  *)
(* the worker keeps about it, and the syncs and history scans that run     *)
(* over it (workers/imap_fetch.py, channels/mail/imap_sync.py, the message *)
(* part of platform/pipeline.py).                                          *)
(*                                                                         *)
(* A job is one sync_mailbox or backfill_mailbox call at a time.  It       *)
(* interleaves with the other jobs, with arriving mail, with the mailbox's *)
(* owner and with crashes at every await: the fetch, the deduplication     *)
(* read, the row's commit, and each command sent to the mail server.       *)
(***************************************************************************)
EXTENDS Integers, FiniteSets

CONSTANTS
    Mail,           \* messages that arrive
    Critical,       \* those assessed CRITICAL: quarantined
    Flagged,        \* those that raise a lesser alert: replaced by a copy
    Linked,         \* clean mail with links: replaced by a copy, no alert
    Job,            \* sync and scan activities
    Scan,           \* the jobs that are history scans (backfill_mailbox)
    Locked,         \* the jobs that run under _SYNC_LOCKS (_sync_one)
    Protected,      \* the mailbox is Protected, not Monitored
    AutoRemove,     \* the plan removes dangerous mail automatically
    Limit,          \* DEFAULT_LIMIT: messages one fetch returns at most
    FirstTail,      \* FIRST_SYNC_TAIL: messages the first fetch starts from
    Attempts,       \* MESSAGE_ATTEMPTS
    MaxUid,         \* bound: UIDs the server hands out per numbering
    MaxEpoch,       \* bound: numberings of the folder (UIDVALIDITY values)
    MaxFaults,      \* bound: errors, refused commands and crashes
    MaxTouches      \* bound: mail the owner deletes or asks to quarantine, renumberings

ASSUME ImapSyncAssumption ==
    /\ Critical \subseteq Mail /\ Flagged \subseteq Mail /\ Linked \subseteq Mail
    /\ Critical \cap Flagged = {} /\ Linked \cap (Critical \cup Flagged) = {}
    /\ Scan \subseteq Job /\ Locked \subseteq Job
    /\ Protected \in BOOLEAN /\ AutoRemove \in BOOLEAN
    /\ Limit \in Nat \ {0} /\ FirstTail \in Nat \ {0} /\ Attempts \in Nat \ {0}
    /\ MaxUid \in Nat /\ MaxEpoch \in Nat \ {0}
    /\ MaxFaults \in Nat /\ MaxTouches \in Nat

NoUid == -1         \* None: no cursor yet, or nothing to retry
NoEpoch == 0        \* None: no UIDVALIDITY stored yet

VARIABLES
    \* the mail server
    inbox,          \* items in the folder: [uid, mail, copy]
    nextUid,        \* the UID the next item gets
    epoch,          \* UIDVALIDITY
    away,           \* mail that has been put in the quarantine folder
    \* the database
    cursor,         \* imap_last_uid
    cursorEpoch,    \* imap_uidvalidity
    rows,           \* stored messages: [mail, by, ref, asked, done]
    \* the worker process
    pc,             \* pc[j]: what job j awaits
    since,          \* since[j]: the cursor j read
    seenEpoch,      \* seenEpoch[j]: the UIDVALIDITY j fetched under
    highest,        \* highest[j]: highest UID of j's fetch, or its cursor
    todo,           \* todo[j]: fetched items j has not looked at
    cur,            \* cur[j]: the item j is at
    retry,          \* retry[j]: lowest UID that gets another poll
    pend,           \* pend[j]: requested quarantines j has still to run
    stamps,         \* stamps[j]: requested quarantines j has run, not committed
    fails,          \* fails[u]: _MESSAGE_FAILURES
    \* history and bounds
    delivered,      \* mail that has arrived
    discarded,      \* mail the owner deleted
    pressed,        \* mail the owner asked to quarantine
    gaveUp,         \* mail given up on after MESSAGE_ATTEMPTS failures
    faults, touches

server == <<inbox, nextUid, epoch, away>>
database == <<cursor, cursorEpoch, rows>>
locals == <<since, seenEpoch, highest, todo, cur, retry, pend, stamps>>
history == <<delivered, discarded, pressed, gaveUp, touches>>
vars == <<server, database, pc, locals, fails, history, faults>>

Uid == 1..MaxUid
Item == [uid : Uid, mail : Mail, copy : BOOLEAN]
Row == [mail : Mail, by : Job, ref : Uid, asked : BOOLEAN, done : BOOLEAN]
Place == {"idle", "fetch", "loop", "read", "act", "swap", "drop", "mark", "store", "asks"}

NoItem == [uid |-> 0]

TypeOK ==
    /\ inbox \subseteq Item /\ nextUid \in 1..(MaxUid + 1)
    /\ epoch \in 1..MaxEpoch /\ away \subseteq Mail
    /\ cursor \in -1..MaxUid /\ cursorEpoch \in 0..MaxEpoch
    /\ rows \subseteq Row
    /\ pc \in [Job -> Place]
    /\ since \in [Job -> -1..MaxUid] /\ highest \in [Job -> -1..MaxUid]
    /\ retry \in [Job -> -1..MaxUid] /\ seenEpoch \in [Job -> 0..MaxEpoch]
    /\ todo \in [Job -> SUBSET Item] /\ cur \in [Job -> Item \cup {NoItem}]
    /\ pend \in [Job -> SUBSET Row] /\ stamps \in [Job -> SUBSET Row]
    /\ fails \in [Uid -> 0..(Attempts - 1)]
    /\ delivered \subseteq Mail /\ discarded \subseteq Mail /\ pressed \subseteq Mail
    /\ gaveUp \subseteq Mail /\ faults \in 0..MaxFaults
    /\ touches \in 0..MaxTouches

Init ==
    /\ inbox = {} /\ nextUid = 1 /\ epoch = 1 /\ away = {}
    /\ cursor = NoUid /\ cursorEpoch = NoEpoch /\ rows = {}
    /\ pc = [j \in Job |-> "idle"]
    /\ since = [j \in Job |-> NoUid] /\ highest = [j \in Job |-> NoUid]
    /\ retry = [j \in Job |-> NoUid] /\ seenEpoch = [j \in Job |-> NoEpoch]
    /\ todo = [j \in Job |-> {}] /\ cur = [j \in Job |-> NoItem]
    /\ pend = [j \in Job |-> {}] /\ stamps = [j \in Job |-> {}]
    /\ fails = [u \in Uid |-> 0]
    /\ delivered = {} /\ discarded = {} /\ pressed = {} /\ gaveUp = {}
    /\ faults = 0 /\ touches = 0

GoTo(j, place) == pc' = [pc EXCEPT ![j] = place]
Fault == faults < MaxFaults /\ faults' = faults + 1

-----------------------------------------------------------------------------
(* The mail server: what arrives, and what the commands do.                *)
Deliver(m) ==
    /\ m \notin delivered
    /\ delivered' = delivered \cup {m}
    /\ nextUid <= MaxUid
    /\ inbox' = inbox \cup {[uid |-> nextUid, mail |-> m, copy |-> FALSE]}
    /\ nextUid' = nextUid + 1
    /\ UNCHANGED <<epoch, away, database, pc, locals, fails, discarded, pressed,
                   gaveUp, touches, faults>>

(* The server renumbers the folder: a new UIDVALIDITY, UIDs from 1.        *)
Renumber ==
    /\ epoch < MaxEpoch /\ touches < MaxTouches
    /\ epoch' = epoch + 1 /\ touches' = touches + 1
    /\ inbox' = {[i EXCEPT !.uid = Cardinality({k \in inbox : k.uid <= i.uid})] :
                   i \in inbox}
    /\ nextUid' = Cardinality(inbox) + 1
    /\ UNCHANGED <<away, database, pc, locals, fails, delivered, discarded, pressed,
                   gaveUp, faults>>

(* The owner deletes a message, or files it in another folder.             *)
Discard(i) ==
    /\ i \in inbox
    /\ touches < MaxTouches
    /\ touches' = touches + 1
    /\ inbox' = inbox \ {i}
    /\ discarded' = discarded \cup {i.mail}
    /\ UNCHANGED <<nextUid, epoch, away, database, pc, locals, fails, delivered,
                   pressed, gaveUp, faults>>

At(u) == {i \in inbox : i.uid = u}

(* MOVE, or COPY and delete.  A UID that is not in the folder is no error. *)
MoveAway(u) ==
    /\ inbox' = inbox \ At(u)
    /\ away' = away \cup {i.mail : i \in At(u)}
    /\ UNCHANGED <<nextUid, epoch>>

(* The fallback's COPY went through and its delete did not.                *)
CopyAway(u) ==
    /\ away' = away \cup {i.mail : i \in At(u)}
    /\ UNCHANGED <<inbox, nextUid, epoch>>

-----------------------------------------------------------------------------
(* A job begins, reads what it needs of the database, and fetches.         *)
Newest(items, n) ==
    {i \in items : Cardinality({k \in items : k.uid > i.uid}) < n}

HighestUid(items) == CHOOSE u \in {i.uid : i \in items} : \A i \in items : i.uid <= u

StartUnlocked(j) ==
    /\ pc[j] = "idle"
    /\ GoTo(j, "fetch")
    /\ since' = [since EXCEPT ![j] = cursor]
    /\ seenEpoch' = [seenEpoch EXCEPT ![j] = cursorEpoch]
    /\ UNCHANGED <<server, database, highest, todo, cur, retry, pend, stamps,
                   fails, history, faults>>

Start(j) ==
    /\ pc[j] = "idle"
    /\ j \in Locked => \A k \in Locked : pc[k] = "idle"
    /\ GoTo(j, "fetch")
    /\ since' = [since EXCEPT ![j] = cursor]
    /\ seenEpoch' = [seenEpoch EXCEPT ![j] = cursorEpoch]
    /\ UNCHANGED <<server, database, highest, todo, cur, retry, pend, stamps,
                   fails, history, faults>>

(* fetch_new: everything above the cursor; the recent tail when there is   *)
(* no cursor or the folder was renumbered; of that the newest Limit.       *)
Base(j) == IF seenEpoch[j] \notin {NoEpoch, epoch} THEN NoUid ELSE since[j]

WantedSkipsOne(j) ==
    IF Base(j) = NoUid THEN Newest(Newest(inbox, FirstTail), Limit)
    ELSE Newest({i \in inbox : i.uid > Base(j) + 1}, Limit)

Wanted(j) ==
    IF Base(j) = NoUid THEN Newest(Newest(inbox, FirstTail), Limit)
    ELSE Newest({i \in inbox : i.uid > Base(j)}, Limit)

Fetch(j) ==
    /\ pc[j] = "fetch" /\ j \notin Scan
    /\ GoTo(j, "loop")
    /\ seenEpoch' = [seenEpoch EXCEPT ![j] = epoch]
    /\ todo' = [todo EXCEPT ![j] = Wanted(j)]
    /\ highest' = [highest EXCEPT ![j] =
                     IF Wanted(j) = {} THEN Base(j) ELSE HighestUid(Wanted(j))]
    /\ UNCHANGED <<server, database, since, cur, retry, pend, stamps, fails,
                   history, faults>>

(* fetch_since: the scan reads the whole window, whatever the cursor says. *)
FetchHistory(j) ==
    /\ pc[j] = "fetch" /\ j \in Scan
    /\ GoTo(j, "loop")
    /\ todo' = [todo EXCEPT ![j] = inbox]
    /\ UNCHANGED <<server, database, since, seenEpoch, highest, cur, retry, pend,
                   stamps, fails, history, faults>>

-----------------------------------------------------------------------------
(* One message.  The lowest UID comes first.                               *)
Stored(m) == \E r \in rows : r.mail = m

IsNext(j, i) == i \in todo[j] /\ \A k \in todo[j] : i.uid <= k.uid

(* is_processed, protected_copy, or a stored row with the same content.    *)
Skip(j, i) ==
    /\ pc[j] = "loop" /\ IsNext(j, i)
    /\ i.copy \/ Stored(i.mail)
    /\ todo' = [todo EXCEPT ![j] = @ \ {i}]
    /\ UNCHANGED <<server, database, pc, since, seenEpoch, highest, cur, retry,
                   pend, stamps, fails, history, faults>>

(* analyse_event found no stored row; the analysis runs.                   *)
Analyse(j, i) ==
    /\ pc[j] = "loop" /\ IsNext(j, i)
    /\ ~i.copy /\ ~Stored(i.mail)
    /\ todo' = [todo EXCEPT ![j] = @ \ {i}]
    /\ cur' = [cur EXCEPT ![j] = i]
    /\ GoTo(j, "read")
    /\ UNCHANGED <<server, database, since, seenEpoch, highest, retry, pend,
                   stamps, fails, history, faults>>

(* The row and its alert are committed before anything is done to the      *)
(* message.  The tier decides what is done; a scan does nothing.  On the   *)
(* plan that removes mail automatically a CRITICAL row is also asked for.  *)
StoredRow(j) ==
    [mail |-> cur[j].mail, by |-> j, ref |-> cur[j].uid,
     asked |-> AutoRemove /\ Protected /\ cur[j].mail \in Critical, done |-> FALSE]

TreatmentInScan(j) ==
    IF ~Protected THEN "loop"
    ELSE CASE cur[j].mail \in Critical         -> "act"
           [] cur[j].mail \in Flagged \cup Linked -> "swap"
           [] OTHER                            -> "loop"

Treatment(j) ==
    IF j \in Scan \/ ~Protected THEN "loop"
    ELSE CASE cur[j].mail \in Critical         -> "act"
           [] cur[j].mail \in Flagged \cup Linked -> "swap"
           [] OTHER                            -> "loop"

Commit(j) ==
    /\ pc[j] = "read"
    /\ cur[j].mail \in Linked => Treatment(j) = "loop"
    /\ rows' = rows \cup {StoredRow(j)}
    /\ GoTo(j, Treatment(j))
    /\ UNCHANGED <<server, cursor, cursorEpoch, locals, fails, history, faults>>

(* Clean mail has no alert to commit first: it is replaced, then its row   *)
(* is committed with the message's transaction.                            *)
Rewrite(j) ==
    /\ pc[j] = "read"
    /\ cur[j].mail \in Linked /\ Treatment(j) = "swap"
    /\ GoTo(j, "swap")
    /\ UNCHANGED <<server, database, locals, fails, history, faults>>

Replaced(j) == GoTo(j, IF cur[j].mail \in Linked THEN "store" ELSE "loop")

Store(j) ==
    /\ pc[j] = "store"
    /\ rows' = rows \cup {StoredRow(j)}
    /\ GoTo(j, "loop")
    /\ UNCHANGED <<server, cursor, cursorEpoch, locals, fails, history, faults>>

(* quarantine_message: True, or False after a refusal or half a fallback.  *)
Quarantine(j) ==
    /\ pc[j] = "act"
    /\ \/ MoveAway(cur[j].uid) /\ GoTo(j, "mark") /\ UNCHANGED faults
       \/ CopyAway(cur[j].uid) /\ GoTo(j, "swap") /\ Fault
       \/ UNCHANGED server /\ GoTo(j, "swap") /\ Fault
    /\ UNCHANGED <<database, locals, fails, history>>

(* quarantined_at, committed with the message.                             *)
DoneForgotten(set) == rows

Done(set) ==
    {IF \E x \in set : x.mail = r.mail /\ x.by = r.by
       THEN [r EXCEPT !.done = TRUE, !.asked = FALSE] ELSE r : r \in rows}

Mark(j) ==
    /\ pc[j] = "mark"
    /\ rows' = {IF r.mail = cur[j].mail /\ r.by = j THEN [r EXCEPT !.done = TRUE]
                ELSE r : r \in rows}
    /\ GoTo(j, "loop")
    /\ UNCHANGED <<server, cursor, cursorEpoch, locals, fails, history, faults>>

(* Mutant: the original is deleted before the copy is there.               *)
AppendLast(j) ==
    /\ pc[j] = "swap"
    /\ \/ inbox' = inbox \ At(cur[j].uid) /\ UNCHANGED faults
       \/ UNCHANGED inbox /\ Fault
    /\ GoTo(j, "drop")
    /\ UNCHANGED <<nextUid, epoch, away, database, locals, fails, history>>

(* replace_message: APPEND the protected copy first ...                    *)
Append(j) ==
    /\ pc[j] = "swap"
    /\ \/ /\ nextUid <= MaxUid
          /\ inbox' = inbox \cup
                 {[uid |-> nextUid, mail |-> cur[j].mail, copy |-> TRUE]}
          /\ nextUid' = nextUid + 1
          /\ GoTo(j, "drop")
          /\ UNCHANGED <<epoch, away, faults>>
       \/ UNCHANGED server /\ Replaced(j) /\ Fault
    /\ UNCHANGED <<database, locals, fails, history>>

(* ... then delete and expunge the original.                               *)
Drop(j) ==
    /\ pc[j] = "drop"
    /\ \/ inbox' = inbox \ At(cur[j].uid) /\ UNCHANGED faults
       \/ UNCHANGED inbox /\ Fault
    /\ Replaced(j)
    /\ UNCHANGED <<nextUid, epoch, away, database, locals, fails, history>>

(* An exception in the message loop: rollback, and either another poll for *)
(* this message or none (retry_failed_message).  A scan just goes on.      *)
GivesUp(u) == fails[u] + 1 >= Attempts

LowestRetry(j, u) == IF retry[j] = NoUid \/ u < retry[j] THEN u ELSE retry[j]

Fail(j) ==
    /\ pc[j] \in {"read", "act", "swap", "mark", "store"}
    /\ Fault
    /\ GoTo(j, "loop")
    /\ LET u == cur[j].uid IN
         CASE j \in Scan -> UNCHANGED <<fails, retry, gaveUp>>
           [] j \notin Scan /\ ~GivesUp(u) ->
                /\ fails' = [fails EXCEPT ![u] = @ + 1]
                /\ retry' = [retry EXCEPT ![j] = LowestRetry(j, u)]
                /\ UNCHANGED gaveUp
           [] OTHER ->
                /\ fails' = [fails EXCEPT ![u] = 0]
                /\ gaveUp' = gaveUp \cup {cur[j].mail}
                /\ UNCHANGED retry
    /\ UNCHANGED <<server, database, since, seenEpoch, highest, todo, cur, pend,
                   stamps, delivered, discarded, pressed, touches>>

-----------------------------------------------------------------------------
(* After the loop: the requested quarantines, by the UID the row stored.   *)
Clear(j) ==
    /\ since' = [since EXCEPT ![j] = NoUid] /\ highest' = [highest EXCEPT ![j] = NoUid]
    /\ retry' = [retry EXCEPT ![j] = NoUid] /\ seenEpoch' = [seenEpoch EXCEPT ![j] = NoEpoch]
    /\ todo' = [todo EXCEPT ![j] = {}] /\ cur' = [cur EXCEPT ![j] = NoItem]
    /\ pend' = [pend EXCEPT ![j] = {}] /\ stamps' = [stamps EXCEPT ![j] = {}]

Requested == {r \in rows : r.asked /\ ~r.done}

EndLoop(j) ==
    /\ pc[j] = "loop" /\ todo[j] = {} /\ j \notin Scan
    /\ GoTo(j, "asks")
    /\ pend' = [pend EXCEPT ![j] = Requested]
    /\ UNCHANGED <<server, database, since, seenEpoch, highest, todo, cur, retry,
                   stamps, fails, history, faults>>

EndScan(j) ==
    /\ pc[j] = "loop" /\ todo[j] = {} /\ j \in Scan
    /\ GoTo(j, "idle")
    /\ Clear(j)
    /\ UNCHANGED <<server, database, fails, history, faults>>

RunRequested(j, r) ==
    /\ pc[j] = "asks" /\ r \in pend[j]
    /\ pend' = [pend EXCEPT ![j] = @ \ {r}]
    /\ \/ MoveAway(r.ref) /\ stamps' = [stamps EXCEPT ![j] = @ \cup {r}] /\ UNCHANGED faults
       \/ UNCHANGED <<server, stamps>> /\ Fault
    /\ UNCHANGED <<database, pc, since, seenEpoch, highest, todo, cur, retry, fails,
                   history>>

(* The cursor, committed at the very end with the requests' stamps.        *)
NextCursorPastFailure(j) == IF highest[j] = NoUid THEN cursor ELSE highest[j]

NextCursor(j) ==
    CASE highest[j] = NoUid -> cursor
      [] highest[j] # NoUid /\ retry[j] = NoUid -> highest[j]
      [] OTHER -> IF retry[j] - 1 < highest[j] THEN retry[j] - 1 ELSE highest[j]

Finish(j) ==
    /\ pc[j] = "asks" /\ pend[j] = {}
    /\ cursor' = NextCursor(j)
    /\ cursorEpoch' = seenEpoch[j]
    /\ rows' = Done(stamps[j])
    /\ GoTo(j, "idle")
    /\ Clear(j)
    /\ UNCHANGED <<server, fails, history, faults>>

(* A fetch that failed, or an exception outside the message loop: the job  *)
(* ends and its cursor is not stored.                                      *)
Abort(j) ==
    /\ pc[j] \in {"fetch", "asks"}
    /\ Fault
    /\ GoTo(j, "idle")
    /\ Clear(j)
    /\ UNCHANGED <<server, database, fails, history>>

(* The process dies and restarts: what was not committed is gone.          *)
Crash ==
    /\ \E j \in Job : pc[j] # "idle"
    /\ Fault
    /\ pc' = [j \in Job |-> "idle"]
    /\ since' = [j \in Job |-> NoUid] /\ highest' = [j \in Job |-> NoUid]
    /\ retry' = [j \in Job |-> NoUid] /\ seenEpoch' = [j \in Job |-> NoEpoch]
    /\ todo' = [j \in Job |-> {}] /\ cur' = [j \in Job |-> NoItem]
    /\ pend' = [j \in Job |-> {}] /\ stamps' = [j \in Job |-> {}]
    /\ fails' = [u \in Uid |-> 0]
    /\ UNCHANGED <<server, database, history>>

(* QUARANTINE pressed on an alert while no process here can decrypt: the   *)
(* row is the queue (api/tenants.py).                                      *)
Press(r) ==
    /\ r \in rows /\ ~r.done /\ r.mail \in Critical \cup Flagged
    /\ Protected
    /\ touches < MaxTouches
    /\ touches' = touches + 1
    /\ rows' = (rows \ {r}) \cup {[r EXCEPT !.asked = TRUE]}
    /\ pressed' = pressed \cup {r.mail}
    /\ UNCHANGED <<server, cursor, cursorEpoch, pc, locals, fails, delivered,
                   discarded, gaveUp, faults>>

Step(j) ==
    \/ Start(j) \/ Fetch(j) \/ FetchHistory(j)
    \/ \E i \in todo[j] : Skip(j, i) \/ Analyse(j, i)
    \/ Commit(j) \/ Rewrite(j) \/ Store(j) \/ Quarantine(j) \/ Mark(j) \/ Append(j) \/ Drop(j) \/ Fail(j)
    \/ EndLoop(j) \/ EndScan(j) \/ Finish(j) \/ Abort(j)
    \/ \E r \in pend[j] : RunRequested(j, r)

Next ==
    \/ \E m \in Mail : Deliver(m)
    \/ Renumber
    \/ \E i \in inbox : Discard(i)
    \/ \E r \in rows : Press(r)
    \/ \E j \in Job : Step(j)
    \/ Crash

Spec == Init /\ [][Next]_vars

(* The poll loop starts a sync of the mailbox every cycle and the event    *)
(* loop runs whatever is due; nothing makes mail, people or faults happen. *)
FairSpec == Spec /\ \A j \in Job \ Scan : WF_vars(Step(j))

-----------------------------------------------------------------------------
Idle == \A j \in Job : pc[j] = "idle"

(* What is stored of a message is its UID without the UIDVALIDITY it       *)
(* belongs to: after a renumbering it names another message, or none.      *)
Renumbered == epoch # 1

(* No message disappears: whatever is quarantined, replaced, retried or    *)
(* interrupted, mail its owner did not delete is in the inbox (as it came  *)
(* or as the protected copy) or in the quarantine folder, unless the folder*)
(* was renumbered.                                                         *)
MailKept ==
    \A m \in delivered \ discarded : m \in away \/ \E i \in inbox : i.mail = m
MailNeverLost == ~Renumbered => MailKept

(* The stored cursor never passes mail nobody has looked at: below it      *)
(* everything still in the inbox is analysed, or was given up on.          *)
CursorCoversAnalysed ==
    cursorEpoch = epoch =>
        \A i \in inbox :
            ~i.copy /\ i.uid <= cursor => Stored(i.mail) \/ i.mail \in gaveUp

(* A message is analysed and alerted on once, however often it is fetched  *)
(* and the folder renumbered.                                              *)
OneAlertPerMail == \A r, s \in rows : r.mail = s.mail => r = s

(* On the plan that removes mail automatically, a CRITICAL message still   *)
(* in the inbox once analysed is still in the queue of requested           *)
(* quarantines: no refusal, error or crash drops it.                       *)
AutoQueueDurable ==
    \A i \in inbox :
        /\ AutoRemove /\ Protected /\ ~i.copy
        /\ i.mail \in Critical /\ Stored(i.mail)
        => \E r \in rows : r.mail = i.mail /\ r.asked /\ ~r.done

(* quarantined_at is stamped only once the original is out of the inbox.   *)
StampedMeansGone ==
    \A r \in rows : r.done => ~\E i \in inbox : i.mail = r.mail /\ ~i.copy

(* Nothing is passed over: the cursor covers analysed mail only, a removal *)
(* that was asked for stays asked for, and one that is stamped is done,    *)
(* unless the folder was renumbered.                                       *)
NothingIsPassedOver ==
    ~Renumbered =>
        TypeOK /\ CursorCoversAnalysed /\ AutoQueueDurable /\ StampedMeansGone

(* Mail that arrives is analysed: its row is stored, or at least it has    *)
(* been replaced by its protected copy; unless it is deleted or given up,  *)
(* or the folder was renumbered.                                           *)
EventuallyAnalysed ==
    \A m \in Mail :
        m \in delivered ~> \/ Stored(m) \/ m \in discarded \/ m \in gaveUp \/ Renumbered
                          \/ \E i \in inbox : i.mail = m /\ i.copy

(* A requested quarantine is carried out, however often a sync fails and   *)
(* the folder is renumbered.                                               *)
RequestsCarriedOut ==
    \A m \in Mail :
        (\E r \in Requested : r.mail = m) ~> ~(\E r \in Requested : r.mail = m)

(* Mail whose removal somebody asked for: a person, or the plan, which asks*)
(* for CRITICAL mail that a history scan stores as for any other.          *)
ToBeRemoved == pressed \cup (IF AutoRemove /\ Protected THEN Critical ELSE {})

(* What only a history scan has stored, and nobody has asked to remove, is *)
(* left alone by every sync beside and after it: it is not filed as        *)
(* quarantined and is in the inbox as it came, unless its owner deleted it.*)
(* (Clean mail with links has no row while a sync replaces it: such a copy *)
(* may be of mail a scan beside that sync has stored meanwhile.)           *)
UnaskedStays ==
    \A r \in rows :
        /\ \A s \in rows : s.mail = r.mail => s.by \in Scan
        /\ r.mail \notin discarded \cup ToBeRemoved
        => /\ ~r.done
           /\ \E i \in inbox : i.mail = r.mail /\ (i.copy => r.mail \in Linked)

(* A history scan treats nothing: what it stored goes only if that was     *)
(* asked for, and what the scan asks for waits for a sync to take it out   *)
(* and is filed once it is out; unless the folder was renumbered.          *)
HistoryStays == ~Renumbered => UnaskedStays /\ AutoQueueDurable /\ StampedMeansGone

-----------------------------------------------------------------------------
(* imap_fetch.py:297-300: a transient failure is tried again, so CRITICAL  *)
(* mail the cursor has passed is not left in the inbox untreated.          *)
CriticalTreated ==
    Idle => \A i \in inbox :
        ~i.copy /\ i.mail \in Critical /\ i.uid <= cursor => i.mail \in gaveUp

(* imap_fetch.py:748: old mail is never quarantined.                       *)
OldMailNeverQuarantined ==
    \A r \in rows : r.by \in Scan /\ r.mail \notin pressed => ~r.done
=============================================================================

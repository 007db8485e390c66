------------------------------ MODULE OAuthToken ------------------------------
(***************************************************************************)
(* The permission to read one mailbox (api/channels.py: the consent link   *)
(* and its callback; channels/mail/oauth_refresh.py: keeping the token     *)
(* alive, and saying so when it cannot be), and the push subscription that *)
(* needs it (workers/push_subscriptions.py, the lifecycle events of        *)
(* api/webhooks.py).                                                       *)
(***************************************************************************)
EXTENDS Naturals, FiniteSets, Sequences

CONSTANTS
    Life,           \* GRAPH_LIFETIME, in passes of the subscription job
    CheckEvery,     \* GRAPH_CHECK_EVERY, in passes
    MaxLinks,       \* bound: consent links
    MaxRevokes,     \* bound: permissions withdrawn (mails are counted to one more)
    MaxDrops,       \* bound: subscriptions the provider drops
    MaxFaults       \* bound: calls that fail

VARIABLES
    honoured,   \* consents whose refresh token the provider accepts
    cred,       \* MailboxCredential: the consent it holds, 0 for none
    fresh,      \* its access token is not near its end
    reconnect,  \* Mailbox.needs_reconnect
    mails,      \* how often the admins were told that access was lost
    links,      \* consent links handed out
    used,       \* links whose use was recorded
    consents,   \* consents given, in order: the link of each
    calling,    \* callbacks that exchanged a code and have not committed
    work,       \* refreshes under way: by job, what was read
    revokes,
    odd,        \* refreshes that overlapped something (history)
    sub,        \* the provider has a subscription for the mailbox
    named,      \* Mailbox.push_subscription_id is set
    left,       \* passes until push_expires_at
    passed,     \* the subscription job has run in this interval
    deaf,       \* intervals without it while the mailbox could be read (history)
    drops, faults

token == <<honoured, cred, fresh, reconnect, mails, links, used, consents, calling, work,
           revokes, odd>>
push == <<sub, named, left, passed, deaf, drops>>
vars == <<token, push, faults>>

Loop == {"poll", "refresh"}

Init ==
    /\ honoured = {} /\ cred = 0 /\ fresh = FALSE /\ reconnect = FALSE /\ mails = 0
    /\ links = 0 /\ used = {} /\ consents = <<>> /\ calling = {}
    /\ work = [j \in Loop |-> {}] /\ revokes = 0 /\ odd = {}
    /\ sub = FALSE /\ named = FALSE /\ left = 0 /\ passed = FALSE /\ deaf = 0
    /\ drops = 0 /\ faults = 0

-----------------------------------------------------------------------------
(* oauth_authorize: a signed link, good for one use.                       *)
Authorize ==
    /\ links < MaxLinks /\ links' = links + 1
    /\ UNCHANGED <<honoured, cred, fresh, reconnect, mails, used, consents, calling, work,
                   revokes, odd, push, faults>>

(* oauth_callback: the use of the link is recorded before the code is      *)
(* exchanged; the tokens are written at the end. A link may come back      *)
(* again (the browser's history).                                          *)
AlreadyUsed(l) == l \in used

Callback(l) ==
    /\ ~AlreadyUsed(l) /\ Len(consents) < MaxLinks
    /\ used' = used \cup {l}
    /\ consents' = Append(consents, l)
    /\ honoured' = honoured \cup {Len(consents')}
    /\ calling' = calling \cup {Len(consents')}
    /\ UNCHANGED <<cred, fresh, reconnect, mails, links, work, revokes, odd, push, faults>>

CallbackFails(l) ==
    /\ ~AlreadyUsed(l) /\ faults < MaxFaults
    /\ used' = used \cup {l} /\ faults' = faults + 1
    /\ UNCHANGED <<honoured, cred, fresh, reconnect, mails, links, consents, calling, work,
                   revokes, odd, push>>

Connect(c) ==
    /\ c \in calling /\ calling' = calling \ {c}
    /\ cred' = c /\ fresh' = TRUE /\ reconnect' = FALSE
    /\ odd' = IF \E j \in Loop : work[j] # {} THEN odd \cup {"reconnect"} ELSE odd
    /\ UNCHANGED <<honoured, mails, links, used, consents, work, revokes, push, faults>>

(* The owner withdraws the permission, or it expires; an access token runs *)
(* for an hour.                                                            *)
Withdraw ==
    /\ cred \in honoured /\ revokes < MaxRevokes
    /\ revokes' = revokes + 1 /\ honoured' = honoured \ {cred} /\ deaf' = 0
    /\ UNCHANGED <<cred, fresh, reconnect, mails, links, used, consents, calling, work, odd,
                   sub, named, left, passed, drops, faults>>

Age ==
    /\ fresh /\ fresh' = FALSE
    /\ UNCHANGED <<honoured, cred, reconnect, mails, links, used, consents, calling, work,
                   revokes, odd, push, faults>>

(* refresh_one, from a fetch (current_access_token) or from the job of     *)
(* refresh_due_tokens, which also tries a mailbox that waits on a          *)
(* reconnect.                                                              *)
StartRefresh(j) ==
    /\ cred # 0 /\ ~fresh /\ work[j] = {}
    /\ j = "poll" => ~reconnect
    /\ work' = [work EXCEPT ![j] = {[cred |-> cred, reconnect |-> reconnect]}]
    /\ odd' = IF \E i \in Loop : work[i] # {} THEN odd \cup {"beside"} ELSE odd
    /\ UNCHANGED <<honoured, cred, fresh, reconnect, mails, links, used, consents, calling,
                   revokes, push, faults>>

(* A fresh token is sealed over whatever the row holds by now.             *)
Healed(w) == IF w.reconnect THEN FALSE ELSE reconnect

Refreshed(j) ==
    \E w \in work[j] :
      /\ w.cred \in honoured
      /\ cred' = w.cred /\ fresh' = TRUE /\ reconnect' = Healed(w)
      /\ work' = [work EXCEPT ![j] = {}]
      /\ UNCHANGED <<honoured, mails, links, used, consents, calling, revokes, odd, push, faults>>

(* invalid_grant: flagged, and the admins are told on the transition; the  *)
(* failure is committed.                                                   *)
Flagged(w) == TRUE

Refused(j) ==
    \E w \in work[j] :
      /\ w.cred \notin honoured
      /\ reconnect' = IF w.reconnect THEN reconnect ELSE Flagged(w)
      /\ mails' = IF w.reconnect \/ mails > MaxRevokes THEN mails ELSE mails + 1
      /\ work' = [work EXCEPT ![j] = {}]
      /\ UNCHANGED <<honoured, cred, fresh, links, used, consents, calling, revokes, odd, push,
                     faults>>

RefreshFails(j) ==
    /\ work[j] # {} /\ faults < MaxFaults
    /\ work' = [work EXCEPT ![j] = {}] /\ faults' = faults + 1
    /\ UNCHANGED <<honoured, cred, fresh, reconnect, mails, links, used, consents, calling,
                   revokes, odd, push>>

-----------------------------------------------------------------------------
(* ensure_push, once in every interval, with a token that is refreshed     *)
(* first when it is near its end: renewed well before the subscription     *)
(* ends, which is what finds out that it is gone.                          *)
Readable == cred \in honoured

Due == ~named \/ left <= Life - CheckEvery

EnsurePush ==
    /\ ~passed /\ passed' = TRUE
    /\ Due /\ Readable => fresh
    /\ IF Due /\ Readable
       THEN sub' = TRUE /\ named' = TRUE /\ left' = Life /\ deaf' = 0   \* PATCH, or POST on 404
       ELSE UNCHANGED <<sub, named, left, deaf>>
    /\ UNCHANGED <<token, drops, faults>>

EnsureFails ==
    /\ ~passed /\ Due /\ Readable /\ faults < MaxFaults
    /\ passed' = TRUE /\ faults' = faults + 1
    /\ UNCHANGED <<token, sub, named, left, deaf, drops>>

(* The next interval: the job runs once in each.                           *)
Interval ==
    /\ passed /\ passed' = FALSE
    /\ left' = IF left = 0 THEN 0 ELSE left - 1
    /\ sub' = (sub /\ left # 0)
    /\ deaf' = IF Readable /\ named /\ ~sub /\ deaf <= Life THEN deaf + 1 ELSE 0
    /\ UNCHANGED <<token, named, drops, faults>>

(* The provider drops a subscription, and says so (a lifecycle event) or   *)
(* not.                                                                    *)
Drop ==
    /\ sub /\ drops < MaxDrops /\ drops' = drops + 1
    /\ sub' = FALSE
    /\ \/ UNCHANGED left
       \/ left' = 0
    /\ UNCHANGED <<token, named, passed, deaf, faults>>

-----------------------------------------------------------------------------
Finish(j) == Refreshed(j) \/ Refused(j)

Next ==
    \/ Authorize \/ Withdraw \/ Age \/ EnsurePush \/ EnsureFails \/ Interval \/ Drop
    \/ \E l \in 1..links : Callback(l) \/ CallbackFails(l)
    \/ \E c \in calling : Connect(c)
    \/ \E j \in Loop : StartRefresh(j) \/ Finish(j) \/ RefreshFails(j)

Fairness == /\ WF_vars(Age) /\ WF_vars(StartRefresh("refresh"))
            /\ \A j \in Loop : WF_vars(Finish(j))

Spec == Init /\ [][Next]_vars /\ Fairness
-----------------------------------------------------------------------------
(* Properties                                                              *)

(* Every variable keeps its shape, and a subscription never outlives what  *)
(* the mailbox records of it.                                              *)
TypeOK ==
    /\ honoured \subseteq 1..Len(consents) /\ cred \in 0..Len(consents)
    /\ calling \subseteq 1..Len(consents)
    /\ left \in 0..Life /\ (sub => named)
    /\ used \subseteq 1..links

(* A consent link connects a mailbox once: no two consents came from one.  *)
LinkUsedOnce == \A m, n \in 1..Len(consents) : consents[m] = consents[n] => m = n

(* The admins are told once for each permission that was lost, not on      *)
(* every retry, unless two refreshes of the mailbox overlap.               *)
LossToldOnce == odd = {} => mails <= revokes

(* A dropped subscription is back within the interval of checks, whether   *)
(* the provider announced it or not, as long as the token is usable and no *)
(* call fails: mail does not wait for the fallback poll for days.          *)
DeafIsNoticed == faults = 0 => deaf <= CheckEvery

(* A mailbox that can no longer be read is flagged, and one that can is    *)
(* not left flagged: the job that refreshes tokens tries both.             *)
DarkIsFlagged ==
    (cred # 0 /\ cred \notin honoured) ~> (reconnect \/ cred \in honoured)
ReadableIsCleared ==
    (cred \in honoured /\ reconnect) ~> (~reconnect \/ cred \notin honoured)
=============================================================================

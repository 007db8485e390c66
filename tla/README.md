# Envelock verification

TLA+ models of the Envelock server (`src/server/src/envelock`), checked with TLC
and, where it matters most, proved with TLAPS. Every definition is translated
from the Python source; `PROJECT.json` maps each one to the lines it stands for
and lists the hazards the properties are for. Paths below are relative to
`src/server/src/envelock` unless they start with `src/`.

## 1. The system

Envelock watches business mailboxes for payment fraud. One FastAPI process per
replica serves the API and, depending on its configuration, runs three
background loops: the scheduler, the IMAP poller and the OAuth jobs. All shared
state is in PostgreSQL, with counters and revocations in Redis. The mail servers
and providers, Stripe, DNS, the accounting systems, the judge and the receivers
of webhooks are outside, and every `await` on one of them (or on the database)
is a point where other work interleaves.

### Components

| Component | State | Operations | What is hard | What makes it correct |
|---|---|---|---|---|
| Leader election, `workers/leader.py`, `main.py` | a session-level advisory lock, the lock connection, the task of the guarded loop | `hold`, `_still_holds`, `_lead`, `run_as_leader`, shutdown | the lock ends with its session while the process runs on; silent links; late answers | bounded overlap, exclusion without faults, a leader again and again |
| IMAP sync, `workers/imap_fetch.py`, `channels/mail/imap_sync.py` | `imap_last_uid`, `imap_uidvalidity`, `messages` rows, the inbox, `_MESSAGE_FAILURES`, `_SYNC_LOCKS` | `sync_mailbox`, `backfill_mailbox`, `quarantine_message`, `replace_message`, requested quarantines | partial failure between database and mail server, retries, two syncs at once, renumbering | mail never lost, nothing passed over, one alert a message, requests carried out, history left alone |
| OAuth mailboxes, `workers/oauth_fetch.py`, `workers/push_subscriptions.py`, `channels/mail/oauth_refresh.py`, `channels/mail/api_enforce.py` | push flag, stored rows, remembered refs, tokens, subscription | notify, drain, poll, enforce; consent, refresh, renew | a flag set while a sync runs; a refresh racing a consent; a subscription the provider dropped | nothing announced is forgotten, told before touched, losses told once and noticed |
| Forwarding, `workers/smtp_ingest.py`, `channels/mail/forward_runner.py` | submissions, rows | RCPT, DATA, one answer for all recipients | an address resolved twice; a failure between recipients; resubmission | accepted means analysed for everyone |
| Sensor, `platform/sensor.py`, `api/sensor.py`, `api/channels.py` | devices, heartbeats, attested reads, the unread set | pair, beat, revoke, the look of each poll | a read, a heartbeat and a poll in any order; a switch turned in between | alerts are unattested reads, told once, none missed |
| Detection pipeline, detections, risk engine, judge: `platform/pipeline.py`, `detections/`, `risk/`, `llm/` | counterparties, bank records, usage | `analyse_event` | overlapping analyses learn from each other's past; an outside judge | fraud is reported, first strikes teach nothing, the judge only raises, spend is capped |
| Links and attachments, `detections/cascade.py`, `channels/external/reputation.py`, `api/redirect.py` | three caches | cascade at delivery and at the click, redirect | verdicts go stale while the outside changes its mind; eviction | what was caught stays blocked |
| Alerts, notification, escalation: `platform/alerts.py`, `notify/dispatch.py`, `workers/scheduler.py` | `alerts.state`, `escalated_to`, `notification_deliveries` | raise, `deliver_pending`, `run_escalation_cycle`, acknowledge, resolve | two drains or two cycles at once, sends that cannot be rolled back, stale lists, deadlocked updates | told once, told what exists, escalation monotone and eventual |
| Webhooks, `workers/webhook_delivery.py` | deliveries, endpoints | `enqueue`, `drain`, endpoint changes | one commit for a batch of irreversible posts; deletion mid-drain | delivered means accepted, schedule respected, every delivery ends |
| Billing, `api/billing.py`, `billing/` | tenant plan, seats, Stripe ids | checkout, plan and seat changes, Stripe events, deletion | events repeated, late and reordered; charge before commit; snapshots across waits | given means billed, nothing billed for what was deleted |
| Workspace, `api/tenants.py`, `billing/entitlement.py` | mailboxes, members, the tenant's row lock | add, bulk add, connect, reclass, remove, invite, approve | counting and inserting in separate steps; a plan that shrinks | seats not oversold, nobody displaced, members protected |
| Domains, `services/domains.py`, `api/auth.py` | domain rows, trial ledger, answer caches | signup, claim, verify, sweep, check on access | two signups at once; DNS answers that are late, failed or cached | one owner and one trial a domain; proof taken away only when it is gone |
| Accounts and limits, `api/auth.py`, `auth/`, `security/limits.py` | users, tokens, codes, revocations, windows | sign in, refresh, sign out, reset; count, lock, remember codes | a request that loaded the row before a sign-out; Redis failing over | sessions end, windows hold, a code is used once |
| Staff, `api/staff.py`, `api/staff_auth.py`, `api/admin.py` | staff rows, sessions | permissions, departments, sign-in, reset | rights given step by step; a guard that counts departments where permissions decide | nobody grants what they do not hold; somebody who can manage stays |
| Shared graph, `platform/graph_store.py`, `platform/fraud_accounts.py` | entries in each process and in a table | report, commit, hydrate | repeated and overlapping reports; rollback after the memory was changed | two customers agree, reports kept and learned by the worker |
| Payment verification, `platform/verification.py` | verification rows, the alert | text, answer, expire, recorded call | two answers to one link; a denial crossing a dismissal | a denial counts, a dismissal stands |
| Accounting, `workers/accounting_sync.py` | the connection's row, rolling tokens, bill notes | consent, three triggers of the sync, notes, disconnect | a token spent before its successor is stored | the connection stays usable, alerts reach the bills |
| Lookalikes, `workers/watchers.py`, `workers/ct_persist.py` | the watcher's copy, its queue, recorded lookalikes | match, queue, drain, reload | a copy that goes stale; telling before committing | queued matches are recorded, told once |
| Reminders and digest, `workers/scheduler.py`, `notify/digest.py` | marks and stamps | read, mail, commit | mail before commit; deadlines that move | warned once, in time; every item in one digest |
| Retention, `governance/retention.py` | everything with a date | the purge and its batches | rows inserted while their alert is deleted | expired rows go, none goes early |
| Key custody, `security/crypto.py`, `security/rotate_credentials.py` | sealed credentials, each process's keys | save, poll, the move to a new key | the tool reads all, works, commits once | stored credentials stay readable |

Not modelled: margin and price checks, the parser and protected copies,
connection discovery, row-level security, observability, the web clients,
migrations (section 8).

### How they interact

`main.py`'s lifespan starts `run_as_leader` for each loop. The leader of the
IMAP key runs `imap_poll_loop`, which starts one `_sync_one` task a mailbox; the
OAuth jobs, the SMTP listener and the API's ingest route reach the same
`analyse_event`. It inserts the message and, through `alerts.raise_alert`, the
alert, its pending notification and the webhook deliveries in one transaction;
the sync then delivers the notification. The scheduler's jobs, under their own
key, escalate, drain what is still pending, drain the webhook queue, send
reminders and digests, sweep domains, watch certificates and purge. Confirmed
alerts feed the shared graph and the notes on suppliers' bills. Billing decides
what the entitlement allows, and the entitlement which mailboxes the workers
read. Components meet in rows of the database, each guarded by the one that
writes it; what a model needs of another component (a plan, an alert's state, a
key) is an action of its own there.

## 2. Modules

| Module | Models |
|---|---|
| `Leader`, `MCLeader`, `LeaderProofs` | the election, one lock key, the polls of the IMAP loop |
| `ImapSync`, `MCImapSync`, `ImapSyncProofs` | one connected mailbox: mail server, rows, syncs and scans |
| `AlertNotify`, `MCAlertNotify`, `AlertNotifyProofs` | alerts, the notification and escalation of each |
| `Webhook`, `MCWebhook`, `WebhookProofs` | the webhook queue and its drains |
| `Billing`, `BillingProofs` | one company's subscriptions, events and requests |
| `PaidAccess` | what billing promises; `Billing` implements it |
| `Entitlement` | what a tenant may do, as operators |
| `Workspace` | mailboxes and logins of a workspace |
| `Accounts` | one account's password, second factor, tokens and revocations |
| `Limits` | windows, lockout and used codes on two instances |
| `Staff` | the operators' console and sign-in |
| `Analysis`, `Detections` | analyses of one supplier's mail; what an event says and amounts to |
| `Links` | what is remembered of links and attachments |
| `OAuthSync`, `OAuthToken` | a notified mailbox; its consent and subscription |
| `Sensor` | devices, heartbeats, reads and the look of each poll |
| `Forwarding` | forwarded copies and their one answer |
| `DomainControl` | whose domain it is, and for how long |
| `Custody` | where credentials can be opened, and the move to a new key |
| `Accounting` | the accounting connection and its bill notes |
| `Lookalikes` | the certificate watcher |
| `SharedGraph` | what customers confirm together |
| `Verification` | asking the supplier |
| `Reminders`, `Digest` | the warnings before access changes; the monthly digest |
| `Retention` | the purge beside what is inserted |
| `MCPeople`, `MCDecisions`, `MCTenants`, `MCLive` | instances of many components for one run each |
| `PeopleProofs`, `TenantsProofs`, `DecisionsProofs` | what is proved of `MCPeople`, `MCTenants` and `MCDecisions`, part by part |

The last four compose components that meet in few rows. One of the systems is
chosen at the start (`part`) and only it moves: the others' actions touch none of
its variables, so interleaving them would multiply states and add no behaviour
of any of them. Each run so shows the properties of every component in it, each
on its full state space. `MCPeople` is `Workspace` itself with the other systems
as instances beside it, `MCTenants` is `Forwarding` and `MCDecisions` is `Analysis`,
each with the others beside it. `MCLive` takes smaller sizes, since liveness costs
more. In `MCPeople`, `MCTenants` and `MCDecisions` every size is a CONSTANT, so that
what is proved of them holds for any; their configurations give the instance that is
checked.

Two conventions. Operators named after a fault (`NeverRetry`,
`CheckFailsUnlockingFirst`, `ClaimUnlocked` and the like), next to the
definition they vary, are the code with one plausible bug. They are not part of
any `Next`; each exists to show that a property would notice that bug. Where a
property is a conjunction, each conjunct was shown to notice a bug of its own,
one of which is kept. And `odd`, `late` or `unsafe` is a history of the disorder
a property excepts ("raced", "overlap", "crash"): the exception is named in the
property and nothing else is excepted.

### Leader

A process goes from `try` (one attempt to take the lock) to `sleep` (a follower)
or `lead`; from `lead` a check starts every `CheckSeconds`; a failed check, or a
body that ended, goes to `cancel`, where the body is awaited, and only then is the
lock released (`StandDown`: the order of `_lead`'s and `hold`'s finally clauses).
`exit` is the same wait in a shutdown, `down` a process that is not running.
`holder` is the *server's* view: `SessionDies` and `Reap` free the lock while the
process does not know. `reach` is the link: when it is cut, the unlock cannot get
through and the server reaps the session in its own time. `Tick` is discrete time;
it never passes a timer that is due, which is the assumption that the event loop
runs its timers. `detached` counts the tasks of `run_imap_poll_cycle`, which
`asyncio.wait` does not cancel.

### ImapSync

`inbox` is the folder on the server, `rows` the `messages` table, `cursor` and
`cursorEpoch` the credential's UID and UIDVALIDITY. A job is a sync or a scan; its
`pc` names what it awaits: the fetch, the loop over what was fetched (lowest UID
first), the read that found no stored row, the quarantine, the APPEND, the delete,
the commit of `quarantined_at`, the requested quarantines. A message with an alert
is committed before it is treated; clean mail whose links are rewritten (`Linked`)
is replaced first and its row committed after, and both orders are in the model.
`Quarantine` covers MOVE and the COPY-and-delete fallback with its half-way
failure. `Press` is the QUARANTINE button while no process can decrypt the
credential. `fails` is the in-memory count, lost in a crash. `ToBeRemoved` is the mail
a person asked to have removed or, on the plan with automatic removal, the CRITICAL
mail that was stored: what a scan stores of it waits in the request queue until a sync
takes it. A message is a model value: same message means same Message-ID and content.

### AlertNotify

A job is a transaction in progress. What it has done is in `raised`, `marked`,
`claimed` and `tried` until `Commit` makes it visible; `Rollback` drops it, but
`told` and `noticed` (what people received) stay. `Claim` skips rows other
transactions have locked (`FOR UPDATE SKIP LOCKED`), `Escalate` waits for the lock
of an alert row. `Sync` jobs commit the alert before they deliver; `Batch` jobs
(`stall_sweep`, `ct_persist`) deliver within the transaction that raises; `Sweep`
is the scheduler's `escalation_job`; `Button` is `POST /escalations/run`. A cycle
lists what is due once (`Begin`) and works through its list in an order the query
does not fix; two cycles that wait for each other's alerts are a deadlock, which
PostgreSQL ends by rolling one of them back (`DeadlockVictim`). What happened is kept
alert by alert in `odd`: two cycles had it in hand at once ("beside"), what was sent
of it was rolled back ("undone"), the sweep that raised it was ("unraised"). A
property excepts an alert only for what happened to that alert.

### Webhook

A drain reads what is due (`Begin`), posts one by one (`Attempt`) and stores all
outcomes at the end (`Commit`). If a row it attempted was deleted meanwhile, the
update matches no row and the whole transaction fails (`CommitFails`). `seen` is
the session's identity map: an endpoint that is loaded is not read again, so a
change to it goes unnoticed for the rest of the drain. `backoff` sums the delays
a delivery was given, which is what the retry schedule (`Schedule`) is checked
against.

### Billing, PaidAccess, Entitlement

`subs` is Stripe's side; `mail` the events it has yet to deliver: in turn, out of turn,
or again when the answer was lost (`Delivered`). The owner's requests are cut where the handler waits
for Stripe: `owner.pc` is `resolve` (which subscription), `charge`, `store`,
`cancel`, `erase`. A deletion event that downgrades asks Stripe for another live
subscription first; `hook` holds the tenant row it had loaded, and its commit
writes the columns it changed. `billed` is the history of what was charged, per
workspace. `PaidAccess` knows no Stripe: `Buy`, `Give` what was bought, `End`,
`Withdraw` after an end, `Close`. `Billing` instantiates it with what the
entitlement makes of the row (`GivenWasBilled`). `Entitlement` is the pure part
(`effective_plan`, `mailbox_capacity`, `entitled_mailboxes`).

### Workspace

A request passes `count` (the plan's gate is answered, the row lock is not held
yet), `insert` (the seats were counted under the lock), `grant` (the login of an
invited or approved member), `probe` (connecting, while the mail server is
asked). `lock` is `SELECT ... FOR UPDATE` on the tenant; the bulk add does not
take it, as in the code, and is recorded in `odd`. `boxes` is in order of age,
which is what decides who is protected when a plan shrinks.

### Accounts, Limits, Staff

`Accounts` cuts each request between loading the user's row and committing the
columns it changes; `shared` and `local` are the two stores of revocations, and
`RedisFails` and `RedisReturns` switch between them. `Limits` keeps a window, a
lockout and a memory of codes per store, for two instances that share Redis or
fall back. In `Staff` an operator's request reads the rows it decides on and
writes the columns it was asked to change later; a sign-in request keeps what it
read of the account (`Starts`, `Done`) and is stale when that changed meanwhile.
`Managers` is the department count `suspend_staff` guards with, `Holders` who can in
fact manage staff: active, and holding the permission by department or by grant and
not revoked. The properties are about `Holders`. In `Accounts` a password change and
a reset revoke and commit in one step. In the code they are two, with only the
database between them: a sign-in with the old password that falls there survives, as
one that had loaded the account before the revocation does, which the model has and
the property names (`slip`); the gap adds no other outcome.

### Analysis, Detections, Links

`Detections` turns the set of facts that hold of an event into findings and the
findings into a tier, as `detections/*.py` and `risk/engine.py` do; how a fact is
found in a text is not modelled. `Analysis` cuts `analyse_event` into reading the
counterparty, the detections, the judge (the usage row is locked while its cap is
claimed) and the commit that writes and learns. `Links` has the blocklist cache,
the cascade that delivery and the click share, and the attachment cache with its
eviction, while domains and files are found out outside.

### OAuthSync, OAuthToken, Sensor, Forwarding

`OAuthSync` is the notified mailbox: `flag` is `sync_requested_at`, with stamps
to tell an older request from a newer one; `known` and `tries` are memory of the
worker and lost in a crash. `OAuthToken` is the consent link, its callback, the
refresh with what it read before it asked, and the subscription with its renewal
and lifecycle events. `Sensor` has `snap`, the unread set stored with the
mailbox, and `look`, the poll that compares with it and commits later. In
`Forwarding` a submission (`job`) goes through its recipients in envelope order;
`to` are the positions that were accepted at RCPT, `answer` the answer so far;
`Resolve` is the lookup at DATA and `CommitCopy` the analysis of one recipient.

### DomainControl, SharedGraph, Verification

`DomainControl`: `dns` is what companies publish, `public` what resolvers still
answer, `cache` the on-access cache; a check holds what it read (`absent`) until
it writes. `Status` is the walk along the resolvers: a domain's own servers and the
recursive ones, either of which may fail; the first that has records decides, and
without any the proof is absent once one of them said so. So a public resolver that
still shows a record that is gone keeps it present, and only `Propagate` ends that. `SharedGraph`: `memory` is the projection in each process, `row` and
`account` the tables, `work` a request between its reads and its commit.
`Verification`: `sending` and `answering` are requests between their check and
their write, beside the people who acknowledge and resolve the alert.

### Custody, Accounting, Lookalikes, Reminders, Digest, Retention

`Custody`: a credential carries the key that sealed it; `api` and `worker` are
the keys a process has; the operator's move is `DeployWorker`, `StartMove`,
`Move`, `DropOld`, `DeployApi`. `Accounting`: three loops and the API share one
row; each call to the provider lies between a read and a commit. `Lookalikes`:
`known` is the watcher's copy, `queue` its bounded queue, both lost in a crash.
`Reminders` and `Digest` read, mail and commit, and a crash may fall between.
`Retention`: `run` is the purge with what it is about to commit; rows that refer
to an alert are inserted meanwhile and a foreign key then refuses the deletion.

## 3. Runs

| Run | Instance | Shows |
|---|---|---|
| `leader_run` | 2 processes, checks and retries of 2 ticks, 2 faults, 1 stop | types; overlap bounded; exclusion while no session failed; a leader again and again |
| `imapsync_serial` | a CRITICAL and a linked message, poll and IDLE wake-up under the lock, 2 faults, 1 owner action or renumbering | nothing alerted twice; unless renumbered, nothing lost or passed over, removals that were asked for stay asked for, and everything analysed; requests carried out |
| `imapsync_history` | a CRITICAL and a flagged message, a poll beside a history scan, automatic removal, 1 owner action, 1 fault | what a scan stored goes only when a person or the plan asked for it, and by a sync; requests are kept and filed only once done |
| `alertnotify_safety` | 2 alerts (symmetric), a sync, a sweep, the scheduler and the button, 1 fault, within `Casts` | told once, told what exists, each stage once, escalation not taken back |
| `alertnotify_live` | 1 alert, all four kinds of job, 1 fault | every delivery attempted, ignored CRITICALs reach all admins |
| `webhook_queue` | 3 deliveries, 2 endpoints, 2 attempts, 1 crash, 1 change | delivered means accepted, once without faults; the schedule; ended stays ended; every delivery ends |
| `people` | billing; workspace; an account; requests, guesses and codes on two instances; the console with the sign-in to it | plan and bill agree; billing implements `PaidAccess`; seats, protection, sessions, limits, staff |
| `decisions` | every combination of facts of one event; three mails of one supplier in two analyses; clicks; attachments; a notified mailbox, its consent; one device on two networks, two devices of one mailbox (1,202,596 states) | fraud reported, first strikes teach nothing, spend capped, the judge only raises, caught stays blocked; notified mail kept, the sensor truthful, absences noticed |
| `tenants` | what runs for each customer, in eleven parts (560,008 states) | forwarded mail analysed, domains held, secrets usable, told once, confirmations counted, acts in time |
| `live` | eight of them, smaller, with fairness | mail, alerts, lookalikes, signups, reports and expired rows are handled; losses are noticed and cleared |
| `imapsync_retry` | 1 poll, 1 fault, no automatic removal | finding: a retried CRITICAL message is skipped as a duplicate |
| `webhook_batch` | 2 deliveries, 1 change, no fault | finding: accepted deliveries stay pending |

### Bounds

* Two processes are enough for the election: every property relates at most two,
  and `LeaderProofs` covers any number. Two faults allow a dead session followed
  by a second failure during the hand-over.
* Two messages and two jobs: each IMAP property is about one message, or one
  message passed over because of another; each hazard is between two activities.
  `Attempts` is 2 instead of 3 so that giving up is reached within the faults.
  `Limit` and `FirstTail` are above the number of messages; what they cut off is
  not part of these runs (section 7).
* Two alerts show that one job's work on several stays apart, and are what two cycles
  need to wait for each other; one claim or escalation is always about one. Ages stop
  at the second stage, since `due_escalations` distinguishes no more. All
  jobs over two alerts have no answer within the time of a run, so a constraint of
  `MCAlertNotify`, `Casts`, leaves the button alone while two alerts are raised and
  delivered: it runs beside everything over one alert, and beside the scheduler over
  two that people were told of. The proof has no such division. The liveness run has one alert: with two, a sweep and a button that deadlock again and
  again, the sweep being the victim each time, keep an alert from escalating for
  good; PostgreSQL's queue for a row lock, which makes that unlikely, is not modelled.
* A folder is renumbered at most once (`imapsync_serial`). The properties about what is
  lost, passed over or moved are about folders that were not (`Renumbered`), since a
  stored UID is used without its UIDVALIDITY and then names another message (section
  5); alerts and requests are about all. `imapsync_history` has no renumbering. One owner
  action is enough to ask for a removal, or to delete what the scan has stored.
* Two webhook attempts are the first, with no delay, and one delayed; the schedule
  in the code has seven and differs in length only (`DeliveriesAreKeptHolds` is
  about any schedule). `BATCH` 2 of three deliveries makes a drain leave one.
* Two subscriptions, two workspaces in turn on one domain, one extra seat: the
  fewest with which one workspace's events reach another, and a second checkout
  is open beside a live subscription. One fault is one event out of turn.
* Two addresses and two requests, one seat or one seat and an extra: one seat
  too few is the boundary of every seat check.
* Two instances and one Redis; windows of 3 ticks with a limit of 2, locks after
  2 guesses of 1 and then 3 ticks: every counter passes its limit and forgets.
* Three operators: who acts, who is acted on, and who is left. The sign-in to the
  console has three authenticators in turn, so that one is reset, a second enrolled
  in its place and the sessions of the first are still there to be refused. Two tenants and two
  domains: the least at which one can be taken for the other's.
* One notified message, two refusals, one crash and one click: what goes wrong there
  goes wrong between the flag, the worker's memory and one message. A consent runs
  for four ticks and is checked every two.
* One device on either of two networks, with a switch thrown three times; or two
  devices with two pairing codes and two heartbeats on one network, with a switch
  thrown once and no failed poll: the sensor's hazards are between a device and the
  switch, or between two devices. The proof has no such division.
* Where a clock matters (sensor, links, digest, retention, verification) it runs
  for at least twice the longest time the component compares with.

Deadlock checking is off where the system may stop: with the bounds on messages,
requests and faults used up it has nothing left to do. It is on in `leader_run`
and in both `alertnotify` runs.

### Fairness

Fairness is on what the code's schedulers do and never on the environment: no
message has to arrive, no fault or restart has to happen, nobody has to react.

* `Leader`: time passes, timers fire (the event loop), a round trip over a live
  link completes, and the server ends a session with nobody behind it (TCP
  keepalive, which `hold`'s docstring relies on).
* `ImapSync`: weak fairness of each live sync's next step: `imap_poll_loop` runs
  every cycle, and a failed one is tried again. History scans are not fair. Faults
  are bounded, which stands for "the mail server answers eventually".
* `AlertNotify`: weak fairness of each job's next step: the scheduler's
  `_run_forever` repeats a job whatever it raised.
* `Webhook`: the same for the drain, and delays pass.
* `MCLive`: the fallback poll and the sync it starts; the refresh loop (and that
  tokens age); the daily sweep with its look-up and both ways it ends, and that
  resolvers hear of a change; each mailbox's poll; the bill-note loop; the
  watcher's reload and drain; the purge; the worker's hydration. All of these are
  jobs that `_run_forever` or a poll loop repeats whatever happened to the last.

## 4. Proofs

Everything in this section holds for every value of the constants, under the
hypotheses named. Each argument has the same shape: an inductive invariant, shown
to hold at the start (`Init...`), to be kept by every action (one lemma an action,
or one for a kind of action), and to imply the property. Each was an invariant
of a TLC run before it was proved. Theorems whose property a run checks under the
same name are marked with a star; the others are about one conjunct of a property
that a composed run checks.

**`LeaderProofs`**, for any replicas, timeouts and bounds (`LeaderAssumption`: they
are natural numbers and the free lock is no process).

* `TypeCorrect`*, `OverlapIsBounded`*: two copies of a loop overlap for at most
  `3 * CheckSeconds + CancelBound`. The bound alone is not inductive: `OverlapByPhase`
  says how far it can have grown in each phase. The timers of each phase are
  bounded (`TimersDue`), a loop runs only between taking the lock and leaving
  (`BodyInPhase`), an answered check shows the session was alive after the check
  began, so from then on at most the rest of the check, one wait, one more check
  and the cancellation can pass.
* `OneLoopWithoutFaults`*: while no fault has occurred, a running body implies that
  its process is the holder (`HeldWithoutFaults`), hence there is one.

**`ImapSyncProofs`**, for any messages, jobs, plan and number of faults.

* `NoMailIsLost`*, without assumption. `MailNeverLost` excepts a renumbered folder, in
  which a stored UID names nothing (section 5); numberings only grow
  (`NumberingMovesOn`), so the invariant is needed until the first. `Drop` deletes by UID, so `MailInv` adds that
  the UID of everything in the inbox, fetched or being worked on has been handed out
  and names no other item (`Known`), that what a job works on is not a copy of ours
  (`CurrentKnown`), and that a job about to delete has the mail kept in another form
  (`DropIsSafe`).
* `NothingIsPassedOverHolds`*, with the same exception in the property, for folders that
  one fetch covers (`FolderFits`: above `DEFAULT_LIMIT` and `FIRST_SYNC_TAIL` the code
  passes over mail by design). On top of `MailInv`, `RequestInv` says that a row names
  the original and stamps are true, so that a removal stays asked for; `CursorInv`
  says, job by job and phase by phase (`Starts`, `Passes`, `Treats`), that whatever
  lies below the UID a job will store has been analysed or given up. It rests on
  `NewestIsAll` (the newest `n` of at most `n` are all) and on the highest UID of a
  set, which exists by the least-number principle.
* `LockedSyncsAlertOnce`*, when all jobs take the mailbox's lock (`Locked = Job`, which
  "Sync now" does not, section 5) and whatever the numbering. `AlertInv` adds that
  one job is at work at a time and that what a job found unstored stays so until
  it stores it (`ReadIsFresh`), which for clean mail lasts through the replacement.
* `HistoryStaysHolds`*, with or without automatic removal and with the same exception
  in the property. `Touchable` is mail that may go: a person or the plan asked for it, or a
  sync stored it. `HistoryInv` says that what only a scan stored is untouched unless
  asked for (`Untouched`), that every removal a job carries around is by such a right
  (`RequestsByRight`), that a scan reads only (`ScansOnlyRead`), and that what left
  the inbox or was replaced was touchable (`AwayWasTouchable`, `CopiesWereTouchable`).

**`WebhookProofs`**, for any deliveries, receivers, schedule and batch size, when one
drain runs at a time (`OneAtATime`: `_run_forever` awaits a job before it starts it
again, under one leader).

* `DeliveriesAreKeptHolds`*: the transaction of a drain is empty while it is idle and
  every row it holds is as it was read unless deleted (`DrainInv`); an outcome that is
  about to be stored fits what was read and answered (`OutcomeInv`); the delays
  given so far are a prefix of the schedule (`ScheduleInv`); and an answer that was
  taken is filed, or in the drain that will file it (`TakenInv`).
* `EndedStaysEndedHolds`*: an action property, from the same invariant.

**`AlertNotifyProofs`**, for any alerts, syncs, sweeps, schedulers, buttons and faults,
without a further hypothesis: what each part does not survive is named alert by alert
in the property.

* `DrainsSendOnce`: nobody is told of an alert twice unless the job that told was rolled
  back, and what is filed as sent was sent. `Drained` collects why: a delivery row is
  held by one job (`HeldByOne`), tried once by it (`TriedOnce`), pending while it is held
  (`HeldIsPending`), a row of an alert a sweep has not committed is that sweep's own
  (`BatchOwns`), rows are committed together (`RowsTogether`), and what was carried is
  on record or about to be (`ToldIsFiled`).
* `ToldIsCommitted`: what people were told of exists, or is of a sweep that has still to
  commit, unless that sweep was rolled back. It follows that a sync and the scheduler
  tell of nothing else.
* `EscalationClimbs`*: escalation is not taken back, of an alert that two cycles did not
  have in hand at once. `Climbs` says that of such an alert one cycle has one step in
  hand (`OneHand`), that the step is ahead of the stage reached (`Ahead`), and that a
  stage that was mailed is made or in hand (`NoticedIsMade`).
* `AlertsAreToldHolds`*: all of it together, with each stage mailed once from `Climbs`.

**`BillingProofs`**, for any number of workspaces, subscriptions, seats, changes
and faults (`Sizes`: they are natural numbers and what is offered is a paid plan).

* `BillingKeepsItsPromise`: the refinement of `PaidAccess`, step by step. Its
  invariant relates four places that each hold part of the truth: subscriptions are
  opened in order and whatever Stripe bills on was billed (`OpenedInOrder`,
  `SubsAreBilled`), every event under way speaks of something billed or of an end
  (`MailIsTrue`), a request keeps its workspace and stores what was charged
  (`RequestIsOwn`), a downgrade under way has read what still holds
  (`HookIsCurrent`), and what a paid workspace has was billed for (`PaidIsBilled`).
* `DeletionEndsBilling`: nothing is billed for a deleted workspace; needs
  `DeletionClears`, which says at which point of the deletion nothing is live.
* `PaidIsOnRecord`: a paid workspace has its subscription on record.
* `GrantIsWhatIsBilled`, `PaidIsBilledFor`, `BilledIsPaid`: once every event is
  handled, row and bill agree. While events are still to come they need not, so
  `Money` says what of the difference is under way. `Grant`: the last event of a
  subscription says what it is now (`LastSays`), a workspace has its
  subscription's plan or will be told (`TenantTold`), a request stores what was
  charged last (`StoreCharged`). `EndsAreReal`, `Served`, `OneLive`: an end is of
  what stopped, a live subscription has been or will be completed, and there is
  one. `Accounted`: after a completion comes an end before another (`EachEnds`),
  what is live is on record before the last event is handled (`LiveOnRecord`), and
  a paid workspace is live, or its end or the downgrade is coming
  (`PaidIsFollowed`).

**`PeopleProofs`**, of all of `MCPeople`, for any value of its constants within the
assumptions it names (`Workplace`, `BillingBounds`, `AccountsBounds`, `LimitsBounds`,
`StaffBounds`). Every part has an inductive invariant of its own; `PartsStep` says
that a step of the composed system is a step or a stutter of each part, so each
invariant holds of all of it. Billing's is taken from `BillingProofs` by an
INSTANCE, so that its theorems are proved once.

* `GivenWasBilledHolds`*, `GrantMatchesBillingHolds`*: the refinement and the agreement
  with Stripe, as the run checks them.
* `SeatsNeverOversoldHolds`*: a request that found a seat free holds the row lock, and
  the seat is still free (`Counted`); a mailbox has one row (`OneBox`); a connection
  under way whose mailbox was not touched saw what is there (`Fresh`).
* `ProtectionIsKeptHolds`*: an action property, from the same invariant. Adding goes to
  the end of the order of age, so the oldest up to the capacity stay the same.
* `SessionsEndHolds`*: no store stamps a cutoff later than the last sign-out and what is
  marked as used was exchanged (`Cuts`); while Redis answers, the cutoff is that
  sign-out, and whatever is older is cut off or carries the mark of the one race the
  property names (`Steady`); a reset under way has its link to itself (`Single`).
* `LimitsHoldAlways`*: a store remembers whatever it admitted less than a window ago
  (`Admits`), the lock is what the last wrong guess asks for (`Waits`), and a code is
  remembered until it is no longer right on either side (`OnceEach`: this is where
  the memory has to be longer than twice the drift).
* `StaffIsKeptHolds`*, `NobodyOverreachesHolds`*: what a request will grant was held by who
  asked (`Delegated`), so what an update adds beyond that is what it stops revoking
  (`Lifts`); alone, it still holds what it was checked against, and an operator who is
  not the break-glass login is still one who manages and not the target (`Alone`), so
  that whoever asks is left; a suspension or a change of role leaves another
  (`Spared`); live sessions and sign-ins under way have the
  account's authenticator (`Authentic`).

**`TenantsProofs`**, of all of `MCTenants`, for any value of its constants within the
assumptions it names (`Wiring` to `RetentionBounds`); composed by its `PartsStep`.

* `AcceptedWasAnalysedHolds`*: while a copy is handled, the recipients before the
  current one have been reached, or are gone, and the others are still to come
  (`Served`, `Handling`); so the last answer is about all of them. The next recipient
  is the least position left, hence `MinIsLeast`.
* `DomainsAreHeldHolds`*: a domain outside the ledger had no trial (`Tried`), its holder
  is there and has proved an address (`HeldByCredible`), a proof that resolvers no
  longer show is known to be missing (`GoneIsKnown`) and a check that found it absent
  had a reason (`AbsentForAReason`), through lookups that answer late.
* `SecretsStayUsableHolds`*: `MoveInv` gives the three key rings the worker can have and
  says that a run's rows are all on the new key but those saved meanwhile
  (`MovedTo`), for a move from a local key to one held elsewhere (`CustodyMove`,
  section 5: within one family the tool takes a row for moved). For accounting,
  `RefreshInTurn`: a token still honoured is the stored one, except while the one loop
  that spent it is about to store the next.
* `ToldOnceHolds`*: bills by `NotesInTurn`; lookalikes by `OneRowEach` and `HeardOnce` (who
  is about to be told has no armed row, and who was spared has one); warnings by
  `Steady`, `Spoken` and `RemindedCounted` (the mark is as far as what was told, and
  every mark that remained and was passed was told on its day); the digest by
  `MonthAtWork` and `Told`.
* `ConfirmationsCountHolds`*: `Backed` (a count of two has two customers), `OneAtATime` and
  `NamesKept` for the graph; `Numbered`, `FitTheDay`, `AnswersOnRecord` and
  `ClosedForAReason` for the texts; `NoDangling` and `RunIsDue` for the purge.
* `ActsInTimeHolds`*: action properties, from the same invariants.

**`DecisionsProofs`**, of all of `MCDecisions`, for any events, histories, plans, links,
files, messages and devices within `AnalysisBounds` to `ConsentBounds` (the store's
facts are not said by the mail, every source set reads inbound mail, and a
subscription is checked within its lifetime); composed by its `DecisionsStep`.

* `FraudReported`*: first the detections and the engine as operators. Every finding
  has a tier (`MailTiered`, `IdentityTiered`); an assessment is a tier, at least that
  of each finding, and Critical when a forcing combination is there (`AssessIs`), and
  it grows with the findings (`AssessGrows`, by the cardinality of the promoting
  combinations). A changed account, a first strike and a move abroad are then found
  whatever else holds (`ChangeFound`, `StrikeFound`, `MoveFound`), and stay reported
  through the judge (`Reported`, `Travelled`).
* `LearningSound`*: only the holder of the usage row asks, and its own claim is not
  paid yet (`Claims`: this is what bounds the spend through failures that take a claim
  back); while analyses take turns at most one has learned and not committed, and if
  it teaches an account there is none (`Turns`); what is learned is of a mail that is
  not reported high (`Taught`).
* `CaughtBlocked`*: what is remembered was true when it was remembered (`AnswerIsTrue`,
  `VerdictIsTrue`), one entry a file (`Single`), and what was caught is held
  (`CaughtIsHeld`), through moves to the end and evictions of the cache.
* `JudgeRaises`*: an action property, from the same invariant.
* `NotifiedKept`*: a message is handled, will be tried again, or is being worked on
  (`Accounted`), and until a sync has listed for the last notification the flag says so
  (`Waits`, `Heard`); what was done to it followed telling of it (`Touched`), its copy is
  on record or at its end (`WrittenOnce`), and nothing critical counts as done in the
  inbox (`Enforced`). For the consent, which links were used (`LinksAreUsed`), which
  refresh still acts on what it read (`Undisturbed`), and when a subscription that went
  deaf is next looked at (`Deafness`).
* `SensorTruthful`*, `AbsenceWatched`*: what a look found was read, and it forgets nothing it
  was given (`LookSound`); unless the switch was thrown during it, all of that is of the
  time since it was switched on (`SinceArmed`); whoever was told of is behind the set
  that is remembered (`ToldBehind`); a device has one session and one heartbeat, and the
  heartbeat knows the session (`DevicesInv`: this is why removing a device during its
  own heartbeat is the only way to leave a session behind).

What is only model-checked, and why: all liveness and everything under fairness
(out of the prover's reach, as is `ENABLED`). Every invariant and every action
property of the passing runs is proved.
Nothing here needs induction over data: where a least or
highest element is chosen, its existence comes from the library's well-foundedness
of the natural numbers, by a theorem about sets.

Some definitions take the form the prover can use and say the same: the arms of a
`CASE` exclude one another (`ImapSync`'s treatment, `DomainControl`'s status,
`OAuthSync`'s first step, `Staff`'s start), and `Forwarding` keeps the recipients of a
submission as positions of its envelope instead of a sequence that shrinks.

## 5. Where code and documentation disagree

Two runs end in a counterexample; `PROJECT.json` quotes the line each contradicts.

1. `imapsync_retry`: a failure after the alert's commit is "tried again" only as
   far as the duplicate check, so the message is never treated (on the plan without
   automatic removal; with it, the request queue carries the removal out).
2. `webhook_batch`: an endpoint deleted mid-drain undoes the whole batch's
   outcomes; the receivers get those deliveries again.

Each of the following is stated as a property in its module and refuted by TLC on the
instance given. None is a run of its own: most are about one operation, and each
is named as an exception where a property of a run would otherwise need it.

| Property | Instance | What happens |
|---|---|---|
| `Leader!PollsEndWithLeadership` | 2 processes, 3 faults | `main.py:218-220` says one process polls; polls a deposed leader had detached (`workers/imap_fetch.py:1143`) go on beside the new one's |
| `ImapSync!OneAlertPerMail` | "Sync now" not in `Locked` | `api/tenants.py:1313` takes no mailbox lock, and the look for a stored row (`platform/pipeline.py:709-713`) is no constraint: one message, two alerts |
| `ImapSync!OldMailNeverQuarantined` | as `imapsync_history` | old mail "is never quarantined" (`workers/imap_fetch.py:748`), yet automatic removal asks for it (`platform/pipeline.py:955`) and the next poll does it |
| `AlertNotify!StageFiresOnce` | 1 alert, no fault | "each stage fires exactly once" (`platform/alerts.py:353`): the scheduler's cycle and the button list the alert before either has committed, and both mail the stage (`notify/dispatch.py:199`) |
| `Staff!SomebodyManages` | as `people` | a guard for "the last operator who can manage staff" (`api/staff.py:333-342`) counts the two departments, whatever was revoked or granted, and `update_staff` (`api/staff.py:254`) has none: the break-glass login leaves nobody who can manage |
| `Staff!NobodyGivesMore` | as `people` | "nobody can grant a permission they do not themselves hold" (`api/staff.py:9-11`, `92-96`): `revoked_permissions` is overwritten unchecked (`api/staff.py:287-288`), so an operator gives back what was revoked without holding it |
| `Accounting!FailureIsRetried` | 2 providers, 1 fault | "retried next cycle; not marked done" (`workers/accounting_sync.py:176-177`): the other provider's note marks the alert |
| `Forwarding!AnalysedOnce` | a polled mailbox, no fault | the poll and the forwarded copy both find nothing stored (`platform/pipeline.py:706-713`) |
| `Lookalikes!EveryImitatedIsRecorded` | as `tenants` | "against every tenant it imitates" (`workers/scheduler.py:487-491`): `match_stream_entry` returns the first domain it matches (`channels/external/lookalike.py:142-146`) |
| `Reminders!CancellationIsCounted` | as `tenants` | "Paid plan set to cancel. Counts down" (`workers/scheduler.py:254`): after the one renewal notice, stored as the last mark, the count-down of a cancellation stays silent |
| `Reminders!RestartDoesNotRepeat` | as `tenants` | "cannot repeat a warning" (`workers/scheduler.py:261-263`): the mail goes before the commit, and a crash between repeats it |
| `Retention!SubjectsExpire` | as `tenants` | "drop the body pointer + subject" (`governance/retention.py:207-217`): a message without a stored body keeps its subject |
| `Custody!EveryRowMoves` | both keys of one family | the tool takes a row of the same family for moved (`security/keys.py:411`; `docs/LAUNCH-GUIDE.md:975-990`) |
| `Accounts!RecoveryCodesSingleUse` | as `people`, more tokens | "single-use" (`api/auth.py:1511`): the codes are rewritten as a whole, and one of two removals at once is lost |
| `OAuthSync!QuarantinedIsOut` | as `decisions` | "Take the message out of the inbox" (`channels/mail/api_enforce.py:101`): a click on a message that was copied and not yet removed moves the original and leaves the copy |
| `OAuthSync!ClickWakes` | as `decisions` | "Wakes the worker's fast path" (`api/tenants.py:2186-2187`): a flag that is already set is kept, and the sync it belongs to clears it |
| `SharedGraph!LegitimateDoesNotCondemn` | as `live` | "false positives must be able to heal" (`platform/graph.py:88-92`): a report of "legitimate" counts as one more confirmation |
| `Analysis!ImpossibleIsCovered` | as `decisions` | "C7 already covers the impossible case" (`detections/sessions.py:183`): not below C7's least distance |
| `Analysis!AttachmentReadsAsBody` | as `decisions` | "exactly as if it were in the body" (`detections/impersonation.py:86`): not for the detections of `content.py` |
| `Links!ClickRechecks` | as `decisions` | "re-checked at click time" (`detections/cascade.py:516-520`): a "suspicious" verdict remembered from delivery is not asked for again |
| `Billing!RetriesAreHarmless` | as `people` | "Idempotent": a checkout event delivered again after the end gives the plan back |
| `Billing!AlwaysMatches` | as `people` | "always matches what the customer is billed for": a subscription that recovers from unpaid is not paid for again |
| `Billing!OneTrialPerDomain` | as `people` | "One trial per registrable domain, ever": a checkout starts one for the workspace after a deleted one |
| `Workspace!LoginsWithinSeats` | as `people` | "active logins can't exceed" the seats: administrators take none |

Seen while reading, without a property of their own:

* `workers/leader.py:69-72` says the check interval bounds the overlap; the proved
  bound is three intervals and the cancellation.
* `channels/mail/imap_sync.py:325` says every new message is returned; `wanted[-limit:]`
  drops the oldest above the limit, and the cursor passes them.
* `channels/mail/imap_sync.py:363-366`: a folder renumbered while empty keeps the
  old cursor under the new UIDVALIDITY.
* A requested quarantine uses a stored UID without its UIDVALIDITY; after a
  renumbering it moves another message and stamps this one.
* `channels/mail/imap_sync.py:760` says True means the message left the inbox; a
  MOVE of a UID that is not there succeeds as well.
* `notify/dispatch.py:119-120` says re-running never double-sends; a crash between
  the send and the commit does.
* `governance/export.py:29` says about four hours; the schedule sums to 24150
  seconds.

## 6. Plan

Modelled, checked and proved: the mail path, alerts, the leader, webhooks, all of
`MCPeople` (billing, workspace, sessions, limits, staff), all of `MCDecisions`
(detections, learning, the judge, links and files, notified mailboxes and their
consent, the sensor) and all of `MCTenants` (forwarding, domains, keys, accounting,
lookalikes, the shared graph, verification, reminders, the digest and retention).

In the models, still to come: the Sent-folder scan, IDLE connections and the claim of
queued scans of IMAP; the choice of notification rungs; the history scan of an OAuth
mailbox; read-only consoles and exports only if something comes to depend on them.

## 7. Abstractions to keep in mind

* A mail server command is one step: it happens, half happens where the code's
  fallback has two commands, or is refused. A command that happened and whose
  answer was lost is the refusal after a half step for the fallback only.
* A fetch returns an atomic view of the folder, and in the IMAP runs all of it:
  the cut at `DEFAULT_LIMIT` is in the model (`Newest`) and above the bounds.
* One notification row an alert; the rungs differ in who carries them only.
* The lock keys of the election are independent, so one is modelled.
* In `MCTenants` alerts and links are purged by one `Retention`, in two parts
  (`RetentionPart`): with both at once the instance has no answer within the time of
  a run. The proof is about `Retention` as a whole.
* Staff: the properties except, by name, requests that overlap ("beside"), a change the
  break-glass login makes to one who manages ("moved"), and a suspension by it while
  the departments count somebody who cannot manage, or not one who can ("miscounted").
  An operator of the console cannot do either alone: one who manages is left, themselves.
* Reminders: a cancellation after the day's run, taken back and made again, had to
  be told on a day that was already over; `since` starts at the next day then (three
  changes in the run show it; the proof, for any bound, first asked for it).
* `MailNeverLost`, `NothingIsPassedOver`, `HistoryStays` and `EventuallyAnalysed` except
  a folder that was renumbered; without the exception `MailNeverLost` and
  `StampedMeansGone` fail for the reason given in section 5.
* A database transaction is atomic and isolated as PostgreSQL's default,
  READ COMMITTED, isolates it (the repository sets no other level): what a handler read may be out of date when it writes, and it writes
  the columns it changed.
* The hazards in `PROJECT.json` are the forty that matter most of about a hundred
  met while modelling. The others are exceptions of the properties, by name: two
  live subscriptions ("doubled"), a bulk add ("bulk"), a class that changes during a
  probe ("reclassed"), requests side by side ("beside", "overlap", "crossed"),
  a store that comes back ("failover", "outage"), a crash between mail and commit
  ("crash"), a heartbeat or a save that ends late (`late`); or limits above the bounds
  (more new mail than one fetch returns, the queue of fifty of a provider's list).

## 8. Not modelled

Margin and price checks (reports computed from configuration and counts, with no
state); the parser, rewriting and protected copies (content; their idempotence is the
`copy` flag of `ImapSync` and `OAuthSync`); connection discovery and advice (one
probe at a time; only its success matters to `Workspace`); row-level security and
database sessions (every model works within one tenant, or in system scope, as the
code does); observability and operator scripts; the web clients, which keep nothing
the server relies on; migrations and deployment. Within modelled components:
wording and scores of findings, the prompt and the providers of the judge, ciphers,
the portal's screens and invoices, lists and dashboards.

## 9. Running

Check a run with `tlc -config ImapSync_serial.cfg MCImapSync.tla` (the module and
configuration of each are in `PROJECT.json`) and the proofs of a module with
`tlapm ImapSyncProofs.tla`; the eight proof modules are those ending in `Proofs`.

------------------------------ MODULE Custody ------------------------------
(***************************************************************************)
(* Where the stored mailbox credentials can be opened, and the move to a   *)
(* new key.  A sealed record carries the id of the key that sealed it, a   *)
(* process opens it by routing on that stamp, and the operator moves the   *)
(* store over: the worker gets the new key beside the old one, the tool    *)
(* re-seals every row, then the old key is dropped and the API seals under *)
(* the new one.  The tool reads all rows, works and commits once, while    *)
(* customers reconnect mailboxes and the worker polls them.                *)
(***************************************************************************)
EXTENDS Naturals, FiniteSets

CONSTANTS
    Box,            \* mailboxes with a stored password
    Family,         \* the provider family of the "old" and of the "new" key
    MaxPasswords,   \* bound: how often a password is changed
    MaxSaves,       \* bound: how often a mailbox is reconnected
    MaxRuns,        \* bound: runs of the tool
    MaxRejects      \* bound: logins a provider rejects for a while

VARIABLES
    good,           \* the password each mailbox has at its provider
    cred,           \* the stored credential: the password and the sealing key
    needs,          \* mailboxes flagged "reconnect"
    api, worker,    \* a process: its active key, a local key kept beside it,
                    \* and whether it holds the opening half
    job,            \* the tool's run: the rows it read, or idle
    moved,          \* the last run has reported every row on the new key
    saves, runs, rejects,
    late            \* mailboxes saved since the last run read the rows

vars == <<good, cred, needs, api, worker, job, moved, saves, runs, rejects, late>>

Key == {"old", "new"}
Process == [active : Key, kept : SUBSET Key, opens : BOOLEAN]
Idle == [on |-> FALSE, rows |-> [m \in Box |-> [secret |-> 0, key |-> "new"]]]

(* Whoever has a local key both seals and opens with it; of any other key  *)
(* the API is given the sealing half: a public key, an encrypt-only role.  *)
HoldsOpening(k, worksHere) == worksHere \/ Family[k] = "local"
KeyProvider(k, worksHere, kept) ==
    [active |-> k, kept |-> kept, opens |-> HoldsOpening(k, worksHere)]
Seal(p, secret) == [secret |-> secret, key |-> p.active]

Init ==
    /\ good = [m \in Box |-> 1]
    /\ cred = [m \in Box |-> [secret |-> 1, key |-> "old"]]
    /\ needs = {}
    /\ api = KeyProvider("old", FALSE, {})
    /\ worker = KeyProvider("old", TRUE, {})
    /\ job = Idle /\ moved = FALSE
    /\ saves = 0 /\ runs = 0 /\ rejects = 0 /\ late = {}

(* The provider a record's stamp leads to: the active one when the family  *)
(* is the same, whatever the version; a local key kept beside it otherwise.*)
Route(p, k) ==
    IF Family[k] = Family[p.active] THEN {p.active} ELSE p.kept \cap {k}

(* What opens a record is the key that sealed it, in the opening half.     *)
Opens(p, k) == p.opens /\ Route(p, k) = {k}

(* The tool opens rows as the worker would, or, moving between two local   *)
(* keys, with the old key it is handed.                                    *)
Reads(k) ==
    \/ Opens(worker, k)
    \/ k = "old" /\ \A f \in Key : Family[f] = "local"

(* A customer changes the password at the mail provider.                   *)
ChangePassword(m) ==
    /\ good[m] < MaxPasswords
    /\ good' = [good EXCEPT ![m] = @ + 1]
    /\ UNCHANGED <<cred, needs, api, worker, job, moved, saves, runs, rejects, late>>

(* The mailbox is connected again: the password was just tried against the *)
(* server, it is sealed by the API and the flag is lowered.                *)
Save(m) ==
    /\ saves < MaxSaves
    /\ saves' = saves + 1
    /\ cred' = [cred EXCEPT ![m] = Seal(api, good[m])]
    /\ needs' = needs \ {m}
    /\ late' = late \cup {m}
    /\ UNCHANGED <<good, api, worker, job, moved, runs, rejects>>

(* A poll of one mailbox: a record that cannot be opened and a password    *)
(* the server rejects both flag it, a poll that works lowers the flag.     *)
Works(m) == Opens(worker, cred[m].key) /\ cred[m].secret = good[m]
Healed(m) == needs \ {m}
Poll(m) ==
    /\ needs' = IF Works(m) THEN Healed(m) ELSE needs \cup {m}
    /\ UNCHANGED <<good, cred, api, worker, job, moved, saves, runs, rejects, late>>

(* The provider rejects a login for a while: a locked account, an outage.  *)
Reject(m) ==
    /\ rejects < MaxRejects
    /\ rejects' = rejects + 1
    /\ needs' = needs \cup {m}
    /\ UNCHANGED <<good, cred, api, worker, job, moved, saves, runs, late>>

(* The worker is started with the new key; only a local old key stays      *)
(* readable beside it.                                                     *)
DeployWorker ==
    /\ worker.active = "old"
    /\ worker' = KeyProvider("new", TRUE, {k \in {"old"} : Family[k] = "local"}
                                       \ {k \in {"old"} : Family["new"] = "local"})
    /\ UNCHANGED <<good, cred, needs, api, job, moved, saves, runs, rejects, late>>

(* The tool reads every row.  It refuses to run without an opening key.    *)
StartMove ==
    /\ worker.active = "new" /\ worker.opens /\ ~job.on /\ runs < MaxRuns
    /\ job' = [on |-> TRUE, rows |-> cred]
    /\ moved' = FALSE
    /\ runs' = runs + 1
    /\ late' = IF worker.kept = {} THEN late ELSE {}
    /\ UNCHANGED <<good, cred, needs, api, worker, saves, rejects>>

(* Rows already on the new key are left alone; the others it can open are  *)
(* re-sealed and their mailboxes' flags lowered, all in one commit.  It    *)
(* reports what remained on the old key when it read them.                 *)
Movable(m) == job.rows[m].key = "old" /\ Reads(job.rows[m].key)
Move ==
    /\ job.on
    /\ cred' = [m \in Box |-> IF Movable(m)
                              THEN Seal(worker, job.rows[m].secret)
                              ELSE cred[m]]
    /\ needs' = {m \in needs : ~Movable(m)}
    /\ moved' = \A m \in Box : job.rows[m].key = "new"
    /\ job' = Idle
    /\ UNCHANGED <<good, api, worker, saves, runs, rejects, late>>

(* The tool is interrupted before its commit: nothing was written.         *)
StopMove ==
    /\ job.on
    /\ job' = Idle
    /\ UNCHANGED <<good, cred, needs, api, worker, moved, saves, runs, rejects, late>>

(* With nothing left on the old key, it is dropped and the API, in its     *)
(* turn, is started with the new one.                                      *)
DropOld ==
    /\ moved /\ ~job.on /\ worker.kept # {}
    /\ worker' = [worker EXCEPT !.kept = {}]
    /\ UNCHANGED <<good, cred, needs, api, job, moved, saves, runs, rejects, late>>

DeployApi ==
    /\ worker.active = "new" /\ api.active = "old"
    /\ api' = KeyProvider("new", FALSE, {})
    /\ UNCHANGED <<good, cred, needs, worker, job, moved, saves, runs, rejects, late>>

Next ==
    \/ \E m \in Box : ChangePassword(m) \/ Save(m) \/ Poll(m) \/ Reject(m)
    \/ DeployWorker \/ StartMove \/ Move \/ StopMove \/ DropOld \/ DeployApi

Fairness == \A m \in Box : WF_vars(Poll(m))
Spec == Init /\ [][Next]_vars /\ Fairness

-----------------------------------------------------------------------------
(* Types; and the API alone never opens what it seals under a key that is  *)
(* not local, nor does dropping the old key take the new one away.         *)
TypeOK ==
    /\ good \in [Box -> 1 .. MaxPasswords]
    /\ cred \in [Box -> [secret : 1 .. MaxPasswords, key : Key]]
    /\ needs \subseteq Box
    /\ api \in Process /\ worker \in Process
    /\ worker.opens
    /\ api.opens => Family[api.active] = "local"
    /\ moved \in BOOLEAN /\ job.on \in BOOLEAN /\ late \subseteq Box

(* Nothing goes dark because the keys move: the worker can open every      *)
(* credential, except one saved after the run whose report led to the old  *)
(* key being dropped had read the rows.                                    *)
StoreIsReadable ==
    \A m \in Box : \/ Opens(worker, cred[m].key)
                   \/ worker.active = "new" /\ worker.kept = {} /\ m \in late

(* Running the tool again over a store that is already on the new key      *)
(* changes nothing, so no reconnect made meanwhile is undone by it.        *)
SecondRunIsIdleStep ==
    Move /\ (\A m \in Box : job.rows[m].key = "new") => cred' = cred
SecondRunIsIdle == [][SecondRunIsIdleStep]_vars

(* A mailbox that cannot be read comes to be flagged, so the customer is   *)
(* asked to reconnect it, also after the tool has lowered its flag.        *)
DarkIsFlagged ==
    \A m \in Box :
        (~Opens(worker, cred[m].key) \/ cred[m].secret # good[m])
            ~> (m \in needs \/ (Opens(worker, cred[m].key) /\ cred[m].secret = good[m]))

(* A mailbox that can be read again loses its flag.                        *)
ReadableIsCleared ==
    \A m \in Box :
        (Opens(worker, cred[m].key) /\ cred[m].secret = good[m])
            ~> (m \notin needs \/ ~Opens(worker, cred[m].key) \/ cred[m].secret # good[m])

(* What the launch guide and keys.py say of the tool: run with the new key *)
(* in place, it leaves no row behind on the old one.                       *)
EveryRowMoves ==
    [][Move => \A m \in Box : job.rows[m].key = "old" => Movable(m)]_vars
=============================================================================

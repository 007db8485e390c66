-------------------------------- MODULE Links --------------------------------
(***************************************************************************)
(* What is remembered of links and attachments, and for how long: the      *)
(* blocklist cache (channels/external/reputation.py), the URL cascade that *)
(* delivery and the click redirector share (detections/cascade.py,         *)
(* platform/links.py, api/redirect.py), and the attachment verdict cache.  *)
(* Outside, a link is listed or flagged, and a file found out, at any time.*)
(***************************************************************************)
EXTENDS Naturals, Sequences

CONSTANTS
    Link, Warning,  \* links, each on a domain of its own; those with static warning signs
    File, Risky,    \* attachments; those static triage cannot settle
    ListTtl,        \* reputation_cache_seconds
    CleanTtl,       \* attachment_cache_ttl_clean_days
    MaxFiles,       \* MAX_CACHE_ENTRIES
    MaxTime, MaxFaults

VARIABLES
    now,
    listed,     \* when the domain went on a blocklist
    flagged,    \* links Safe Browsing lists
    confirmed,  \* domains the shared graph knows as fraudulent
    found,      \* when the file was found malicious
    domains,    \* DomainReputation._cache
    verdicts,   \* UrlCascade._cache
    files,      \* VerdictCache._entries, oldest use first
    delivered,  \* links with a token
    last,       \* the last click: its link, what became of it and what was known
    served,     \* the last attachment: its verdict and what it rests on
    caught,     \* files answered "malicious" and not evicted since (history)
    faults

vars == <<now, listed, flagged, confirmed, found, domains, verdicts, files, delivered, last, served, caught,
          faults>>

Never == MaxTime + 1
NoEntry == [at |-> Never, listed |-> FALSE, failed |-> FALSE]
NoClick == [link |-> "none", allowed |-> FALSE, blind |-> FALSE]
NoFile == [file |-> "none", verdict |-> "none", missed |-> FALSE]

Init ==
    /\ now = 0 /\ listed = [l \in Link |-> Never] /\ flagged = {} /\ confirmed = {}
    /\ found = [f \in File |-> Never]
    /\ domains = [l \in Link |-> NoEntry] /\ verdicts = [l \in Link |-> "none"] /\ files = <<>>
    /\ delivered = {} /\ last = NoClick /\ served = NoFile /\ caught = {} /\ faults = 0

(* The world outside. *)
Turn ==
    /\ \/ now < MaxTime /\ now' = now + 1 /\ UNCHANGED <<listed, flagged, confirmed, found>>
       \/ \E l \in Link : listed[l] = Never /\ listed' = [listed EXCEPT ![l] = now]
                          /\ UNCHANGED <<now, flagged, confirmed, found>>
       \/ \E l \in Link \ flagged : flagged' = flagged \cup {l} /\ UNCHANGED <<now, listed, confirmed, found>>
       \/ \E l \in Link \ confirmed :
              confirmed' = confirmed \cup {l} /\ UNCHANGED <<now, listed, flagged, found>>
       \/ \E f \in File : found[f] = Never /\ found' = [found EXCEPT ![f] = now]
                          /\ UNCHANGED <<now, listed, flagged, confirmed>>
    /\ last' = NoClick /\ served' = NoFile
    /\ UNCHANGED <<domains, verdicts, files, delivered, caught, faults>>

Fails(failed) == /\ failed => faults < MaxFaults
                 /\ faults' = IF failed THEN faults + 1 ELSE faults
-----------------------------------------------------------------------------
(* A blocklist answer is kept for ListTtl; an unanswered lookup reads, and *)
(* is kept, as "not listed".                                               *)
Fresh(entry) == entry.at # Never /\ now - entry.at <= ListTtl

Reputation(l, failed) ==
    IF Fresh(domains[l]) THEN domains[l]
    ELSE [at |-> now, listed |-> listed[l] # Never /\ ~failed, failed |-> failed]

(* UrlCascade.check: whatever the first look said is the answer.           *)
Cascade(l, failed) ==
    IF verdicts[l] # "none" THEN verdicts[l]
    ELSE IF l \in Warning THEN "suspicious"
    ELSE IF failed THEN "unknown"
    ELSE IF l \in flagged THEN "malicious" ELSE "clean"

(* build_context's delivery-time rung, then mint_link_tokens.              *)
Deliver(l, failed) ==
    LET rep == Reputation(l, failed)
        asks == ~rep.listed /\ l \notin confirmed
    IN  /\ l \notin delivered /\ Fails(failed)
        /\ delivered' = delivered \cup {l}
        /\ domains' = [domains EXCEPT ![l] = IF l \in confirmed THEN @ ELSE rep]
        /\ verdicts' = [verdicts EXCEPT ![l] = IF asks THEN Cascade(l, failed) ELSE @]
        /\ last' = NoClick /\ served' = NoFile
        /\ UNCHANGED <<now, listed, flagged, confirmed, found, files, caught>>

(* evaluate_url and click: the graph, the blocklists, the cascade, in that *)
(* order; "go" passes a warning, nothing passes a block.                   *)
VerdictSeenFirst(l, rep, answer) ==
    IF verdicts[l] = "clean" THEN "clean"
    ELSE IF l \in confirmed \/ rep.listed THEN "malicious" ELSE answer
Verdict(l, rep, answer) == IF l \in confirmed \/ rep.listed THEN "malicious" ELSE answer

Click(l, go, failed) ==
    LET rep     == Reputation(l, failed)
        answer  == Cascade(l, failed)
        verdict == Verdict(l, rep, answer)
        allowed == verdict \in {"clean", "unknown"} \/ (verdict = "suspicious" /\ go)
    IN  /\ l \in delivered /\ Fails(failed)
        /\ domains' = [domains EXCEPT ![l] = IF l \in confirmed THEN @ ELSE rep]
        /\ verdicts' = [verdicts EXCEPT ![l] = IF l \in confirmed \/ rep.listed THEN @ ELSE answer]
        /\ last' = [link |-> l, allowed |-> allowed, blind |-> rep.failed \/ failed]
        /\ served' = NoFile
        /\ UNCHANGED <<now, listed, flagged, confirmed, found, files, delivered, caught>>
-----------------------------------------------------------------------------
(* VerdictCache: found files never expire, others after CleanTtl; a use    *)
(* moves an entry to the end, and the oldest goes when there are too many. *)
At(f) == {i \in 1..Len(files) : files[i].file = f}

Overdue(e) == now - e.at > CleanTtl
Expired(e) == e.verdict # "malicious" /\ Overdue(e)

Without(i) == [k \in 1..(Len(files) - 1) |-> files[IF k < i THEN k ELSE k + 1]]
Others(f) == IF At(f) = {} THEN files ELSE Without(CHOOSE i \in At(f) : TRUE)

Kept(entries) == IF Len(entries) > MaxFiles THEN Tail(entries) ELSE entries
Stored(f, verdict) == Kept(Append(Others(f), [file |-> f, verdict |-> verdict, at |-> now]))

\* Static triage settles a plain file; a risky one is looked up by its hash.
Layered(f, failed) == IF f \notin Risky THEN "clean"
                      ELSE IF failed THEN "suspicious"
                      ELSE IF found[f] # Never THEN "malicious" ELSE "clean"

(* What is answered for a file, and what the cache holds afterwards.       *)
Serves(f, verdict, missed, after) ==
    /\ files' = after
    /\ served' = [file |-> f, verdict |-> verdict, missed |-> missed]
    /\ caught' = {g \in caught : g = f \/ \E i \in 1..Len(after) : after[i].file = g}
                  \cup {x \in {f} : verdict = "malicious"}
    /\ last' = NoClick
    /\ UNCHANGED <<now, listed, flagged, confirmed, found, domains, verdicts, delivered>>

Reuse(f, i) ==
    /\ i \in At(f) /\ ~Expired(files[i])
    /\ Serves(f, files[i].verdict, FALSE, Append(Without(i), files[i]))
    /\ UNCHANGED faults

LookInto(f, failed) ==
    LET verdict == Layered(f, failed)
    IN  /\ \A i \in At(f) : Expired(files[i])
        /\ Fails(failed)
        /\ Serves(f, verdict, failed, IF verdict = "suspicious" THEN Others(f) ELSE Stored(f, verdict))

Analyse(f) == (\E i \in At(f) : Reuse(f, i)) \/ \E failed \in BOOLEAN : LookInto(f, failed)
-----------------------------------------------------------------------------
OnLink(l) == \E failed \in BOOLEAN : Deliver(l, failed) \/ \E go \in BOOLEAN : Click(l, go, failed)

Next == Turn \/ (\E l \in Link : OnLink(l)) \/ (\E f \in File : Analyse(f))

Spec == Init /\ [][Next]_vars
-----------------------------------------------------------------------------
TypeOK ==
    /\ now \in 0..MaxTime /\ delivered \subseteq Link
    /\ \A l \in Link : verdicts[l] \in {"none", "clean", "unknown", "suspicious", "malicious"}
    /\ Len(files) <= MaxFiles
    /\ \A i, j \in 1..Len(files) : files[i].file = files[j].file => i = j

(* A link whose domain has been on a blocklist for longer than an answer   *)
(* is kept does not open, unless the lookup itself went unanswered.        *)
ListedIsBlocked ==
    last.link \in Link /\ last.allowed =>
        last.blind \/ listed[last.link] = Never \/ now - listed[last.link] <= ListTtl

(* What the network has confirmed as fraud does not open, at once and      *)
(* whatever was remembered of the link.                                    *)
ConfirmedIsBlocked == last.link \in confirmed => ~last.allowed

(* A file found malicious for longer than a clean verdict is kept is not   *)
(* served as anything else, unless its hash could not be looked up.        *)
FoundIsServed ==
    served.file \in Risky /\ served.verdict # "malicious" =>
        served.missed \/ found[served.file] = Never \/ now - found[served.file] <= CleanTtl

(* What was once answered "malicious" stays so until it is evicted, also   *)
(* when the reputation service no longer answers.                          *)
CaughtStaysCaught == served.file \in caught => served.verdict = "malicious"

(* cascade.rewrite_for_click: "links weaponised after delivery are the     *)
(* standard evasion, so the destination is re-checked at click time".      *)
ClickRechecks == last.link \in flagged /\ last.allowed => last.blind
=============================================================================

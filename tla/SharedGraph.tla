------------------------------ MODULE SharedGraph ------------------------------
(***************************************************************************)
(* What customers confirm together about one domain and one bank account:  *)
(* the counterparty graph, a projection in the memory of each process      *)
(* (platform/graph.py) written through to a table (platform/graph_store.py)*)
(* and the table of fraud accounts (platform/fraud_accounts.py). They are  *)
(* fed by resolved alerts (platform/alerts.py) and reported lookalikes     *)
(* (api/tenants.py), and read for every mail and every click.              *)
(***************************************************************************)
EXTENDS Naturals, FiniteSets

CONSTANTS
    Tenant, Api,    \* customers, and the processes that serve them
    Worker,         \* the process that analyses mail and runs the scheduler
    Verdicts,       \* what customers report: "fraudulent", "legitimate"
    MaxReports,     \* bound: reports
    MaxFaults       \* bound: requests that fail before their commit

VARIABLES
    proven,     \* tenants that have verified a domain
    memory,     \* per process: its entry for the domain, {} or one
    row,        \* GraphVerdict: {} or one entry
    account,    \* FraudAccount: {} or one row
    work,       \* requests between their reads and their commit
    reports,    \* how many were made
    asked,      \* what each customer reported: <<tenant, verdict>> (history)
    kept,       \* customers whose report of the domain was committed (history)
    mulekept,   \* customers whose report of the account was committed (history)
    odd,        \* reports that overlapped, failed or met an old copy (history)
    faults

vars == <<proven, memory, row, account, work, reports, asked, kept, mulekept, odd, faults>>

Process == Api \cup {Worker}

Init ==
    /\ proven \in SUBSET Tenant
    /\ memory = [p \in Process |-> {}] /\ row = {} /\ account = {} /\ work = {}
    /\ reports = 0 /\ asked = {} /\ kept = {} /\ mulekept = {} /\ odd = {}
    /\ faults = 0
-----------------------------------------------------------------------------
(* CounterpartyGraph.report: one tenant counts once. A verdict that is not *)
(* "fraudulent" leaves the verdict that is there.                          *)
NewReporter(by, t) == t \notin by

Judged(old, t, v) ==
    IF old = {} THEN [verdict |-> v, count |-> 1, by |-> {t}]
    ELSE LET e == CHOOSE e \in old : TRUE
         IN  [verdict |-> IF v = "fraudulent" THEN v ELSE e.verdict,
              count |-> e.count + IF NewReporter(e.by, t) THEN 1 ELSE 0,
              by |-> e.by \cup {t}]

Actionable(e) == e.verdict = "fraudulent" /\ e.count >= 2

(* fraud_accounts.report: the row with the tenant added, once.             *)
CorroboratedLast(old, t) == [count |-> 1, by |-> {t}]
Corroborated(old, t) ==
    IF old = {} THEN [count |-> 1, by |-> {t}]
    ELSE LET e == CHOOSE e \in old : TRUE
         IN  [count |-> Cardinality(e.by \cup {t}), by |-> e.by \cup {t}]

(* A report changes the memory of its process at once; the tables are read *)
(* now and written when the request commits. resolve() reports a fraud and *)
(* the account it asked for, and only for a tenant that has proven a       *)
(* domain; report_lookalike reports either verdict, of the domain.         *)
Begin(p, t, v, mule) ==
    /\ reports < MaxReports
    /\ \A w \in work : w.tenant # t
    /\ reports' = reports + 1
    /\ asked' = asked \cup {<<t, v>>}
    /\ memory' = [memory EXCEPT ![p] = {Judged(memory[p], t, v)}]
    /\ work' = work \cup {[proc |-> p, tenant |-> t, was |-> row,
                           entry |-> Judged(memory[p], t, v),
                           mulewas |-> account,
                           mule |-> IF mule THEN {Corroborated(account, t)} ELSE {}]}
    /\ odd' = odd \cup (IF work # {} THEN {"overlap"} ELSE {})
                  \cup (IF memory[p] # row THEN {"stale"} ELSE {})
    /\ UNCHANGED <<proven, row, account, kept, mulekept, faults>>

MayFeed(t) == t \in proven

ResolveFraud(p, t) == MayFeed(t) /\ \E mule \in BOOLEAN : Begin(p, t, "fraudulent", mule)
ReportLookalike(p, t) == \E v \in Verdicts : Begin(p, t, v, FALSE)

(* persist_report: every column is set from the entry in memory; the ones  *)
(* that differ from the row that was read are written. The same for the    *)
(* account. A row that was absent is inserted, and one of two inserts fails.*)
Written(was, new, now) ==
    IF was = {} THEN new
    ELSE LET o == CHOOSE o \in was : TRUE  n == CHOOSE n \in now : TRUE
         IN  [c \in DOMAIN new |-> IF new[c] = o[c] THEN n[c] ELSE new[c]]

InsertFails(w) == \/ w.was = {} /\ row # {}
                  \/ w.mule # {} /\ w.mulewas = {} /\ account # {}

Commit(w) ==
    /\ w \in work /\ ~InsertFails(w)
    /\ work' = work \ {w}
    /\ row' = {Written(w.was, w.entry, row)}
    /\ account' = IF w.mule = {} \/ w.mule = w.mulewas THEN account
                  ELSE {Written(w.mulewas, m, account) : m \in w.mule}
    /\ kept' = kept \cup {w.tenant}
    /\ mulekept' = IF w.mule = {} THEN mulekept ELSE mulekept \cup {w.tenant}
    /\ UNCHANGED <<proven, memory, reports, asked, odd, faults>>

Fail(w) ==
    /\ w \in work /\ (InsertFails(w) \/ faults < MaxFaults)
    /\ work' = work \ {w} /\ odd' = odd \cup {"failed"}
    /\ faults' = IF InsertFails(w) THEN faults ELSE faults + 1
    /\ UNCHANGED <<proven, memory, row, account, reports, asked, kept, mulekept>>

(* hydrate: the projection is replaced by the table, by the scheduler's    *)
(* job in its own process and in the others when they start.               *)
Hydrated(p) == row

Hydrate(p) ==
    /\ memory' = [memory EXCEPT ![p] = Hydrated(p)]
    /\ UNCHANGED <<proven, row, account, work, reports, asked, kept, mulekept, odd, faults>>
-----------------------------------------------------------------------------
Next ==
    \/ \E t \in Tenant, p \in Api : ResolveFraud(p, t) \/ ReportLookalike(p, t)
    \/ \E w \in work : Commit(w) \/ Fail(w)
    \/ \E p \in Process : Hydrate(p)

Fairness == WF_vars(Hydrate(Worker))
Spec == Init /\ [][Next]_vars /\ Fairness
-----------------------------------------------------------------------------
(* Properties                                                              *)

(* The tables keep their shape, and every reporter the account names was   *)
(* asked through an alert of a tenant that has proven a domain.            *)
TypeOK ==
    /\ \A p \in Process : Cardinality(memory[p]) <= 1
    /\ Cardinality(row) <= 1 /\ Cardinality(account) <= 1
    /\ \A a \in account : a.by \subseteq proven

(* One customer cannot condemn a domain for all the others: wherever it is *)
(* acted upon, two customers reported it, whatever was repeated, failed or *)
(* restarted.                                                              *)
TwoCustomersAgree ==
    \A p \in Process : \A e \in memory[p] :
        Actionable(e) => Cardinality({a[1] : a \in asked}) >= 2

(* No confirmation is counted twice, in memory or in the tables, unless    *)
(* two requests overlap.                                                   *)
CountIsReporters ==
    "overlap" \notin odd =>
        /\ \A e \in row \cup UNION {memory[p] : p \in Process} : e.count = Cardinality(e.by)
        /\ \A a \in account : a.count = Cardinality(a.by)

(* A committed confirmation stays in the tables, when requests do not      *)
(* overlap and the process that takes them is up to date with the table.   *)
ReportsKept ==
    odd \cap {"overlap", "stale"} = {} =>
        /\ \A e \in row : kept \subseteq e.by
        /\ \A a \in account : mulekept \subseteq a.by

(* What the customers confirmed reaches live mail: again and again the     *)
(* worker knows what the table holds.                                      *)
WorkerLearns == []<>(memory[Worker] = row)

(* False positives must be able to heal: a customer that reports a domain  *)
(* as legitimate does not make it one that is acted upon.                  *)
LegitimateDoesNotCondemn ==
    \A p \in Process : \A e \in memory[p] :
        Actionable(e) => Cardinality({a[1] : a \in {b \in asked : b[2] = "fraudulent"}}) >= 2
=============================================================================

------------------------------- MODULE Analysis -------------------------------
(***************************************************************************)
(* One counterparty's mail through platform/pipeline.py analyse_event:     *)
(* what is stored about it is read, the detections run, the judge may be   *)
(* asked (llm/cascade.py), and one transaction writes the outcome and      *)
(* learns from it.  Analyses of two mails overlap: a poll, the forwarding  *)
(* address and a backfill each run one.  A duplicate ends before all this. *)
(***************************************************************************)
EXTENDS Detections

CONSTANTS
    Job,            \* analyses at work
    Event,          \* what may arrive: [kind, facts, account]
    History,        \* what may be stored of the counterparty: [count, banks, phone]
    Plans,          \* the plan in force
    Sources,        \* the mailbox's sources
    Cap,            \* llm_max_calls_per_mailbox_month
    NoAccount, Nobody,
    MaxEvents,      \* bound: events that arrive
    MaxFaults       \* bound: transactions that fail

VARIABLES
    cp,         \* Counterparty and its active BankRecords
    plan, source,
    jobs,
    calls,      \* LlmUsage.calls, committed or by the holder of the row
    holder,     \* the analysis whose transaction locks the usage row
    paid,       \* answers the provider was asked for
    lost,       \* of those, asked by a transaction that failed
    arrived,
    taught,     \* what was learned as the counterparty's account (history)
    together,   \* two analyses learned at once (history)
    faults

vars == <<cp, plan, source, jobs, calls, holder, paid, lost, arrived, taught, together, faults>>

Idle == [stage |-> "idle", kind |-> "mail", account |-> NoAccount, facts |-> {}, found |-> {},
         tier |-> NoTier, callback |-> FALSE, called |-> FALSE, seen |-> <<>>, nth |-> 0]

Init ==
    /\ cp \in History /\ plan \in Plans /\ source \in Sources
    /\ jobs = [j \in Job |-> Idle] /\ calls = 0 /\ holder = Nobody /\ paid = 0 /\ lost = 0
    /\ arrived = 0 /\ taught = {} /\ together = FALSE /\ faults = 0
-----------------------------------------------------------------------------
(* build_context: the facts the store adds to the event's own.  Only a     *)
(* first contact's domain is looked up for its age.                        *)
Stored(e) ==
    Where(cp.count > 0, {"met"}) \cup Where(cp.count >= 5, {"known"}) \cup Where(cp.count >= 10, {"longKnown"})
    \cup Where(cp.phone, {"phone"}) \cup Where(cp.banks # {}, {"baseline"})
    \cup Where(e.account # NoAccount, {"account"})
    \cup Where(cp.banks # {} /\ e.account \notin cp.banks \cup {NoAccount}, {"changed"})
Context(e) == IF e.kind # "mail" THEN e.facts
              ELSE Stored(e) \cup (e.facts \ Where(cp.count > 0, {"young", "newborn"}))

Capabilities == UNION {Can(s) : s \in source}

Read(j, e) ==
    LET facts == Context(e)
        found == RunAll(IF e.kind = "mail" THEN OnMail(facts) ELSE OnIdentity(facts), facts, Capabilities, plan)
    IN  /\ jobs[j].stage = "idle" /\ arrived < MaxEvents
        /\ arrived' = arrived + 1
        /\ jobs' = [jobs EXCEPT ![j] =
               [stage |-> "read", kind |-> e.kind, account |-> e.account, facts |-> facts, found |-> found,
                tier |-> Assess(found), callback |-> Callback(found), called |-> FALSE, seen |-> <<>>,
                nth |-> arrived + 1]]
        /\ UNCHANGED <<cp, plan, source, calls, holder, paid, lost, taught, together, faults>>
-----------------------------------------------------------------------------
(* refine.  The upsert claims a call and keeps the row locked to the end   *)
(* of the transaction; a claim over the cap stays counted.                 *)
Judging(j) == jobs[j].kind = "mail" /\ ShouldEscalate(jobs[j].found, plan)

UnderCap(claimed) == claimed <= Cap

Reserve(j) ==
    /\ jobs[j].stage = "read" /\ Judging(j) /\ holder = Nobody
    /\ calls' = calls + 1 /\ holder' = j
    /\ jobs' = [jobs EXCEPT ![j].stage = IF UnderCap(calls + 1) THEN "asking" ELSE "judged"]
    /\ UNCHANGED <<cp, plan, source, paid, lost, arrived, taught, together, faults>>

NotJudged(j) ==
    /\ jobs[j].stage = "read" /\ ~Judging(j)
    /\ jobs' = [jobs EXCEPT ![j].stage = "judged"]
    /\ UNCHANGED <<cp, plan, source, calls, holder, paid, lost, arrived, taught, together, faults>>

\* Only a confident "fraud" changes the assessment, and only upwards.
RefinedBoth(tier, answer) == IF answer = "fraud" THEN AtMost(tier + 1)
                             ELSE IF answer = "benign" THEN Low ELSE tier
Refined(tier, answer) == IF answer = "fraud" THEN AtMost(tier + 1) ELSE tier

Answer(j, answer) ==
    /\ jobs[j].stage = "asking"
    /\ paid' = paid + 1
    /\ LET tier == Refined(jobs[j].tier, answer) IN
       jobs' = [jobs EXCEPT ![j].stage = "judged", ![j].called = TRUE, ![j].tier = tier,
                            ![j].callback = @ \/ (answer = "fraud" /\ tier = Critical)]
    /\ UNCHANGED <<cp, plan, source, calls, holder, lost, arrived, taught, together, faults>>
-----------------------------------------------------------------------------
(* learn: counted always, believed only when not HIGH or CRITICAL; an      *)
(* account is learned when no active record exists.                        *)
Flagged(j) == jobs[j].tier \in {High, Critical}
UnlearnedThis(j) == jobs[j].account \notin cp.banks
Unlearned(j) == cp.banks = {}

Counts(j) == jobs[j].kind = "mail" /\ "outbound" \notin jobs[j].facts
Teaches(j) == Counts(j) /\ ~Flagged(j) /\ jobs[j].account # NoAccount /\ Unlearned(j)

Learn(j) ==
    /\ jobs[j].stage = "judged"
    /\ jobs' = [jobs EXCEPT ![j].stage = "learned",
                            ![j].seen = <<cp.count, Where(Teaches(j), {jobs[j].account})>>]
    /\ together' = (together \/ \E k \in Job \ {j} : jobs[k].stage = "learned")
    /\ UNCHANGED <<cp, plan, source, calls, holder, paid, lost, arrived, taught, faults>>

\* The counterparty's and the account's unique keys.
Collides(j) == \/ Counts(j) /\ jobs[j].seen[1] = 0 /\ cp.count > 0
               \/ jobs[j].seen[2] \cap cp.banks # {}

Finish(j) == /\ jobs' = [jobs EXCEPT ![j] = Idle]
             /\ holder' = IF holder = j THEN Nobody ELSE holder

Commit(j) ==
    LET adds == jobs[j].seen[2] IN
    /\ jobs[j].stage = "learned" /\ ~Collides(j)
    /\ cp' = [cp EXCEPT !.count = IF Counts(j) THEN jobs[j].seen[1] + 1 ELSE @, !.banks = @ \cup adds]
    /\ taught' = taught \cup {[account |-> a, facts |-> jobs[j].facts, nth |-> jobs[j].nth] : a \in adds}
    /\ Finish(j)
    /\ UNCHANGED <<plan, source, calls, paid, lost, arrived, together, faults>>

(* A transaction that fails takes its claim back; the answer it paid for   *)
(* is not.                                                                 *)
Fail(j) ==
    /\ jobs[j].stage \notin {"idle", "read"}
    /\ \/ jobs[j].stage = "learned" /\ Collides(j) /\ UNCHANGED faults
       \/ faults < MaxFaults /\ faults' = faults + 1
    /\ calls' = IF holder = j THEN calls - 1 ELSE calls
    /\ lost' = IF jobs[j].called THEN lost + 1 ELSE lost
    /\ Finish(j)
    /\ UNCHANGED <<cp, plan, source, paid, arrived, taught, together>>
-----------------------------------------------------------------------------
Goes(j) ==
    \/ Reserve(j)
    \/ NotJudged(j)
    \/ \E answer \in {"fraud", "benign", "none"} : Answer(j, answer)
    \/ Learn(j)
    \/ Commit(j)
    \/ Fail(j)
Next == \E j \in Job : (\E e \in Event : Read(j, e)) \/ Goes(j)

Spec == Init /\ [][Next]_vars
-----------------------------------------------------------------------------
TypeOK ==
    /\ cp.count \in 0..10 + MaxEvents /\ cp.phone \in BOOLEAN /\ NoAccount \notin cp.banks
    /\ \A j \in Job : /\ jobs[j].stage \in {"idle", "read", "asking", "judged", "learned"}
                      /\ jobs[j].tier \in NoTier..Critical
                      /\ jobs[j].called => holder = j
    /\ holder \in Job \cup {Nobody} /\ calls \in Nat /\ lost <= paid /\ paid <= calls + lost

Known == {j \in Job : jobs[j].stage # "idle" /\ jobs[j].kind = "mail" /\ plan # "guard"}
Settled(j) == jobs[j].tier = Critical /\ jobs[j].callback

(* A change of a known supplier's account is Critical and asks for a call, *)
(* whoever vouches for the mail, whatever else it says and whatever the    *)
(* judge thinks of it.                                                     *)
ChangedAccountIsCritical ==
    \A j \in Known : {"external", "payment", "account", "changed"} \subseteq jobs[j].facts => Settled(j)

Disguise == {"cousin", "swapped", "homoglyph", "colleague", "brand", "rerouted"}
FirstStrike(m) == /\ {"external", "payment", "account"} \subseteq Body(m)
                  /\ {"met", "baseline"} \cap m = {}
                  /\ \/ Disguise \cap m # {}
                     \/ "urgent" \in m /\ "vouched" \notin m

(* A stranger who asks for money in disguise or under pressure is Critical *)
(* with a call, though there is no account to compare with.                *)
FirstStrikeIsCritical == \A j \in Known : FirstStrike(jobs[j].facts) => Settled(j)

(* Such a mail never becomes the account that later mail is compared with, *)
(* in whatever order overlapping analyses finish.                          *)
StrikeTeachesNothing == \A t \in taught : ~FirstStrike(t.facts)

(* Unless two analyses overlap, the accounts on file come from one mail: a *)
(* second account is a change, never a second baseline.                    *)
OneBaseline == together \/ \A s, t \in taught : s.nth = t.nth

(* One more finding never calms an alert: neither the tier nor the call    *)
(* that goes with it is lost to a combination.                             *)
MoreNeverCalms ==
    \A j \in Job : jobs[j].stage = "read" =>
        \A f \in jobs[j].found : LET fewer == jobs[j].found \ {f}
                                 IN  /\ Assess(fewer) <= Assess(jobs[j].found)
                                     /\ Callback(fewer) => Callback(jobs[j].found)

(* The month's answers that count stay within the cap, however many        *)
(* analyses of the mailbox's mail overlap.                                 *)
SpendIsCapped == paid <= Cap + lost

(* The judge only raises: no answer lowers a tier or takes a call back,    *)
(* and what the rules found Critical is not asked about.                   *)
JudgeOnlyRaisesStep ==
    \A j \in Job : jobs[j].stage # "idle" /\ jobs'[j].nth = jobs[j].nth =>
        /\ jobs'[j].tier >= jobs[j].tier
        /\ jobs[j].callback => jobs'[j].callback
        /\ jobs[j].tier \in {NoTier, Low, Critical} => ~jobs'[j].called \/ jobs[j].called
JudgeOnlyRaises == [][JudgeOnlyRaisesStep]_vars

(* A sign-in from another country is reported by the travel, the network   *)
(* or the relocation detection, as long as the distance can be trusted.    *)
MoveIsReported ==
    \A j \in Job : /\ jobs[j].stage # "idle" /\ jobs[j].kind = "identity" /\ plan = "complete"
                   /\ "sensor" \in source
                   /\ SignedIn(jobs[j].facts) /\ {"previous", "abroad"} \subseteq jobs[j].facts
                   /\ "fast" \in jobs[j].facts => "far" \in jobs[j].facts
                   => jobs[j].tier >= Medium

(* identity C8: the impossible case is left to C7, "C7 already covers the  *)
(* impossible case at a higher tier".                                      *)
ImpossibleIsCovered ==
    \A j \in Job : /\ jobs[j].stage # "idle" /\ jobs[j].kind = "identity" /\ plan = "complete"
                   /\ "sensor" \in source
                   /\ SignedIn(jobs[j].facts) /\ {"previous", "abroad", "fast"} \subseteq jobs[j].facts
                   => jobs[j].tier >= Medium

(* impersonation.mail_text: what an attachment says of money is read "so   *)
(* the payment-fraud detections see it exactly as if it were in the body". *)
AttachmentReadsAsBody ==
    \A j \in Known : jobs[j].stage = "read" =>
        LET inBody == jobs[j].facts \ {"attached"}
        IN  jobs[j].tier = Assess(RunAll(OnMail(inBody), inBody, Capabilities, plan))
=============================================================================

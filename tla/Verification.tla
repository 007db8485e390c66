----------------------------- MODULE Verification -----------------------------
(***************************************************************************)
(* Asking the supplier (platform/verification.py, api/verification.py): a  *)
(* text with a one-question page, or a recorded call, about one alert that *)
(* people meanwhile acknowledge, resolve and dismiss (platform/alerts.py). *)
(* A supplier's "not us" is confirmed fraud; "yes" is left for a person.   *)
(***************************************************************************)
EXTENDS Naturals, FiniteSets

CONSTANTS
    PerDay,         \* SMS_PER_ALERT_PER_DAY
    Ttl,            \* SMS_LINK_TTL, in days
    MaxTexts,       \* bound: texts asked for
    MaxDays,        \* bound: the clock
    MaxActs,        \* bound: what people do with the alert
    MaxFaults       \* bound: texts that fail, before or after they are sent

VARIABLES
    today,
    alert,      \* Alert.state
    texts,      \* PaymentVerification rows by text: [day, status]
    asked,      \* texts asked for
    sending,    \* requests past the daily count: [n, day]
    sent,       \* texts the supplier received
    answering,  \* answers past their checks: [n, yes]
    accepted,   \* answers the supplier was thanked for: <<n, yes>>
    marked,     \* the alert was resolved as fraud: fed to the graph, labelled
    shut,       \* a person has dismissed it (history)
    acts,       \* what people did
    odd,        \* what overlapped or failed (history)
    faults

vars == <<today, alert, texts, asked, sending, sent, answering, accepted, marked, shut, acts, odd, faults>>

Text == 1..MaxTexts
None == [day |-> 0, status |-> "none"]

Init ==
    /\ today = 0 /\ alert = "open" /\ texts = [n \in Text |-> None] /\ asked = 0
    /\ sending = {} /\ sent = {} /\ answering = {} /\ accepted = {} /\ marked = FALSE /\ shut = FALSE
    /\ acts = 0 /\ odd = {} /\ faults = 0

Day == /\ today < MaxDays /\ today' = today + 1
       /\ UNCHANGED <<alert, texts, asked, sending, sent, answering, accepted, marked, shut, acts, odd,
                      faults>>
-----------------------------------------------------------------------------
(* alerts.resolve and alerts.acknowledge, by a person: neither refuses any *)
(* state, so that acknowledging a closed alert takes it out of "closed".   *)
Resolve(dismissed) ==
    /\ alert' = IF dismissed THEN "dismissed" ELSE "resolved"
    /\ marked' = (marked \/ ~dismissed)

PersonResolves(dismissed) ==
    /\ acts < MaxActs /\ acts' = acts + 1 /\ Resolve(dismissed)
    /\ shut' = (shut \/ dismissed)
    /\ odd' = IF answering # {} THEN odd \cup {"beside"} ELSE odd
    /\ UNCHANGED <<today, texts, asked, sending, sent, answering, accepted, faults>>

PersonAcknowledges ==
    /\ acts < MaxActs /\ acts' = acts + 1
    /\ alert' = "acked"
    /\ UNCHANGED <<today, texts, asked, sending, sent, answering, accepted, marked, shut, odd, faults>>

(* _apply: what an answer means.                                           *)
Applies(state) == state \notin {"resolved", "dismissed"}

Apply(outcome, state) ==
    IF outcome = "denied" /\ Applies(state)
    THEN Resolve(FALSE)
    ELSE UNCHANGED <<alert, marked>>

RecordCall(outcome) ==
    /\ acts < MaxActs /\ acts' = acts + 1
    /\ Apply(outcome, alert)
    /\ UNCHANGED <<shut, today, texts, asked, sending, sent, answering, accepted, odd, faults>>

(* send_sms: at most a few in a day; the row is written in the transaction *)
(* that sends the text, and goes with it when the text is refused.         *)
Todays == Cardinality({n \in Text : texts[n].status # "none" /\ texts[n].day = today})

AskText ==
    /\ asked < MaxTexts /\ Todays < PerDay
    /\ asked' = asked + 1 /\ sending' = sending \cup {[n |-> asked + 1, day |-> today]}
    /\ odd' = IF sending # {} THEN odd \cup {"overlap"} ELSE odd
    /\ UNCHANGED <<today, alert, texts, sent, answering, accepted, marked, shut, acts, faults>>

Sent(s) ==
    /\ s \in sending /\ sending' = sending \ {s} /\ sent' = sent \cup {s.n}
    /\ texts' = [texts EXCEPT ![s.n] = [day |-> s.day, status |-> "pending"]]
    /\ UNCHANGED <<today, alert, asked, answering, accepted, marked, shut, acts, odd, faults>>

(* The provider refuses the text, or takes it and the commit fails.        *)
SendFails(s) ==
    /\ s \in sending /\ faults < MaxFaults /\ faults' = faults + 1
    /\ sending' = sending \ {s}
    /\ \/ UNCHANGED sent
       \/ sent' = sent \cup {s.n}
    /\ UNCHANGED <<today, alert, texts, asked, answering, accepted, marked, shut, acts, odd>>

-----------------------------------------------------------------------------
(* answer: the page takes one answer, while the link lives. The checks read*)
(* the row, the outcome is written at the commit.                          *)
Taken(n) == texts[n].status # "pending"
Expired(n) == today - texts[n].day > Ttl

AnswerStart(n, yes) ==
    /\ n \in sent /\ texts[n].status # "none" /\ ~Taken(n) /\ ~Expired(n)
    /\ \A a \in answering : a.n = n => a.yes # yes
    /\ answering' = answering \cup {[n |-> n, yes |-> yes, state |-> alert]}
    /\ odd' = IF \E a \in answering : a.n = n THEN odd \cup {"answered twice"} ELSE odd
    /\ UNCHANGED <<today, alert, texts, asked, sending, sent, accepted, marked, shut, acts, faults>>

AnswerLate(n) ==
    /\ n \in sent /\ texts[n].status = "pending" /\ Expired(n)
    /\ texts' = [texts EXCEPT ![n].status = "expired"]
    /\ UNCHANGED <<today, alert, asked, sending, sent, answering, accepted, marked, shut, acts, odd,
                   faults>>

AnswerEnd(a) ==
    /\ a \in answering /\ answering' = answering \ {a}
    /\ accepted' = accepted \cup {<<a.n, a.yes>>}
    /\ texts' = [texts EXCEPT ![a.n].status = IF a.yes THEN "confirmed" ELSE "denied"]
    /\ Apply(IF a.yes THEN "confirmed" ELSE "denied", a.state)
    /\ UNCHANGED <<today, shut, asked, sending, sent, acts, odd, faults>>

-----------------------------------------------------------------------------
Next ==
    \/ Day \/ AskText \/ PersonAcknowledges
    \/ \E d \in BOOLEAN : PersonResolves(d)
    \/ \E o \in {"confirmed", "denied", "no_answer"} : RecordCall(o)
    \/ \E s \in sending : Sent(s) \/ SendFails(s)
    \/ \E n \in Text : AnswerLate(n) \/ \E yes \in BOOLEAN : AnswerStart(n, yes)
    \/ \E a \in answering : AnswerEnd(a)

Spec == Init /\ [][Next]_vars
-----------------------------------------------------------------------------
(* Properties                                                              *)

(* The alert and the texts keep their shapes, and a day has no more texts  *)
(* than its limit, unless two were asked for at once.                      *)
TypeOK ==
    /\ alert \in {"open", "acked", "resolved", "dismissed"}
    /\ \A n \in Text : texts[n].status \in {"none", "pending", "confirmed", "denied", "expired"}
    /\ "overlap" \notin odd =>
        \A d \in 0..MaxDays :
            Cardinality({n \in Text : texts[n].status # "none" /\ texts[n].day = d}) <= PerDay

(* The link takes one answer: the supplier is never thanked for both, and  *)
(* what is on record is what was answered, unless both came at once.       *)
OneAnswer ==
    "answered twice" \notin odd =>
        /\ \A a, b \in accepted : a[1] = b[1] => a = b
        /\ \A n \in Text : (<<n, FALSE>> \in accepted) <=> (texts[n].status = "denied")

(* A denial is not lost: once the supplier has been thanked for "not us",  *)
(* the alert was marked as confirmed fraud, or a person had dismissed it.  *)
DenialCounts == (\E a \in accepted : ~a[2]) => marked \/ shut

(* An alert that a person has dismissed is not turned into confirmed fraud *)
(* by an answer or a call, unless the answer was under way.                *)
DismissalStandsStep ==
    alert = "dismissed" /\ alert' = "resolved" /\ "beside" \notin odd =>
       \E d \in BOOLEAN : PersonResolves(d)
DismissalStands == [][DismissalStandsStep]_vars

(* A late answer changes nothing: whoever was thanked answered within the  *)
(* life of the link.                                                       *)
LateIsRefusedStep ==
    \A a \in answering' \ answering : today - texts[a.n].day <= Ttl
LateIsRefused == [][LateIsRefusedStep]_vars
=============================================================================

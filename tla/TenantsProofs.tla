---------------------------- MODULE TenantsProofs ----------------------------
(***************************************************************************)
(* Proofs about what runs for each customer, for any tenants, domains,    *)
(* mails, keys, marks and bounds.  Each part has its inductive invariant; *)
(* the composed system keeps them all, because a step of one part is a    *)
(* step or a stutter of every other (the last section).                   *)
(***************************************************************************)
EXTENDS MCTenants, WellFoundedInduction, FunctionTheorems, FiniteSetTheorems,
        SequenceTheorems, TLAPS

-----------------------------------------------------------------------------
(* Forwarded mail: a copy and its recipients                              *)

(* The tenant has had mail m: it was analysed for one of its mailboxes, or*)
(* the tenant has no access or no mailbox to analyse it for.              *)
Reached(m, t) == <<m, t>> \in skipped \/ \E b \in ToSet(Boxes[t]) : analysed[b, m] > 0

(* Of the recipients that are there, the ones before the current one have *)
(* been reached and the others are still to come.                         *)
Served(m) ==
    \A i \in DOMAIN Envelope[m] :
        Envelope[m][i] \notin gone =>
            i \in job[m].to /\ (i < job[m].k => Reached(m, Envelope[m][i]))

Handling(m) ==
    /\ sub[m] = "waiting" /\ job[m].k \in job[m].to /\ job[m].to \subseteq DOMAIN Envelope[m]
    /\ job[m] = [at |-> job[m].at, to |-> job[m].to, k |-> job[m].k, box |-> job[m].box,
                 answer |-> job[m].answer]
    /\ job[m].at = "read" => job[m].box \in ToSet(Boxes[Recipient(m)])
    /\ Served(m)

ForwardedShape ==
    /\ gone \subseteq Tenant /\ lapsed \subseteq Tenant
    /\ sub \in [Mail -> {"new", "waiting", "accepted", "refused"}]
    /\ DOMAIN job = Mail
    /\ poll \in [Box -> Mail \cup {None}]
    /\ stored \subseteq Box \X Mail
    /\ analysed \in [Box \X Mail -> Nat]
    /\ \A b \in Box, m \in Mail : <<b, m>> \in stored => analysed[b, m] > 0

AllReached(m) == \A t \in ToSet(Envelope[m]) \ gone : Reached(m, t)

ForwardedInv ==
    /\ ForwardedShape
    /\ \A m \in Mail : job[m] # Idle => Handling(m)
    /\ \A m \in Mail : sub[m] = "accepted" => AllReached(m)

-----------------------------------------------------------------------------
(* The least-number principle, for sets of positions.                     *)
LEMMA MinIsLeast ==
    ASSUME NEW T \in SUBSET Nat, T # {} PROVE Min(T) \in T /\ \A y \in T : Min(T) <= y
<1> DEFINE R == OpToRel(<, Nat)
<1>1. \A x, y \in Nat : <<x, y>> \in R <=> x < y
  BY DEF OpToRel
<1>2. IsWellFoundedOn(R, Nat)
  BY NatLessThanWellFounded
<1> HIDE DEF R
<1>3. PICK x \in T : \A y \in T : <<y, x>> \notin R
  BY <1>2, WFMin
<1>4. ASSUME NEW y \in T PROVE x <= y
  <2>1. x \in Nat /\ y \in Nat
    OBVIOUS
  <2>2. ~(y < x)
    BY <1>1, <1>3, <1>4, <2>1
  <2> QED BY <2>1, <2>2
<1> QED BY <1>3, <1>4 DEF Min

(* A copy is attributed to a mailbox of the tenant.                       *)
LEMMA AttributedIsOurs ==
    ASSUME NEW t \in Tenant, Boxes[t] # <<>>, NEW m
    PROVE  Attributed(t, m) \in ToSet(Boxes[t]) /\ Attributed(t, m) \in Box
<1>1. Boxes[t] \in Seq(Box) /\ DOMAIN Boxes[t] \subseteq Nat
  BY Wiring
<1>2. \A i \in DOMAIN Boxes[t] : Boxes[t][i] \in ToSet(Boxes[t]) /\ Boxes[t][i] \in Box
  BY <1>1 DEF ToSet
<1> DEFINE those == {k \in DOMAIN Boxes[t] : Boxes[t][k] \in Named[m]}
<1>3. CASE those # {}
  <2>1. Min(those) \in those
    BY <1>1, <1>3, MinIsLeast
  <2> QED BY <1>2, <1>3, <2>1 DEF Attributed
<1>4. CASE those = {}
  <2>1. 1 \in DOMAIN Boxes[t] /\ Head(Boxes[t]) = Boxes[t][1]
    BY <1>1
  <2> QED BY <1>2, <1>4, <2>1 DEF Attributed
<1> QED BY <1>3, <1>4

(* What a step does to the copies handled elsewhere: nothing is undone.   *)
Further ==
    /\ gone \subseteq gone' /\ skipped \subseteq skipped'
    /\ \A b \in Box, m \in Mail : analysed[b, m] > 0 => analysed'[b, m] > 0

(* Once reached, always reached.                                          *)
LEMMA ReachedStays ==
    ASSUME Further, NEW m \in Mail, NEW t \in Tenant, Reached(m, t) PROVE Reached(m, t)'
<1>1. ToSet(Boxes[t]) \subseteq Box
  BY Wiring DEF ToSet
<1> QED BY <1>1 DEF Further, Reached

(* A copy no step concerns stays handled, and reached.                    *)
LEMMA MailStays ==
    ASSUME Further, ForwardedInv, NEW m \in Mail, sub'[m] = sub[m] \/ sub'[m] # "accepted",
           job'[m] = job[m], job[m] # Idle => sub'[m] = sub[m]
    PROVE  /\ job'[m] # Idle => Handling(m)'
           /\ sub'[m] = "accepted" => AllReached(m)'
<1>1. \A i \in DOMAIN Envelope[m] : Envelope[m][i] \in Tenant
  BY Wiring
<1>2. ASSUME job[m] # Idle PROVE Handling(m)'
  <2>1. Handling(m)
    BY <1>2 DEF ForwardedInv
  <2>2. ASSUME NEW i \in DOMAIN Envelope[m], Envelope[m][i] \notin gone'
        PROVE  i \in job'[m].to /\ (i < job'[m].k => Reached(m, Envelope[m][i])')
    <3>1. Envelope[m][i] \notin gone
      BY <2>2 DEF Further
    <3>2. i \in job[m].to /\ (i < job[m].k => Reached(m, Envelope[m][i]))
      BY <2>1, <3>1 DEF Handling, Served
    <3> QED BY <1>1, <3>2, ReachedStays
  <2>3. Served(m)'
    BY <2>2 DEF Served
  <2> QED BY <1>2, <2>1, <2>3 DEF Handling, Recipient
<1>3. ASSUME sub'[m] = "accepted" PROVE AllReached(m)'
  <2>1. AllReached(m)
    BY <1>3 DEF ForwardedInv
  <2>2. ASSUME NEW t \in ToSet(Envelope[m]), t \notin gone' PROVE Reached(m, t)'
    <3>1. t \notin gone /\ t \in Tenant
      BY <1>1, <2>2 DEF Further, ToSet
    <3> QED BY <2>1, <2>2, <3>1, ReachedStays DEF AllReached
  <2> QED BY <2>2 DEF AllReached
<1> QED BY <1>2, <1>3

-----------------------------------------------------------------------------
(* One recipient is answered: if it has been reached or has gone, the next*)
(* one is up, or after the last one all have been.                        *)
LEMMA AnsweredKeeps ==
    ASSUME Further, ForwardedInv, NEW m \in Mail, job[m] # Idle, NEW answer, Answered(m, answer),
           NEW u, u = Recipient(m), u \in gone' \/ Reached(m, u)'
    PROVE  /\ job'[m] # Idle => Handling(m)'
           /\ sub'[m] = "accepted" => AllReached(m)'
           /\ sub'[m] \in {"new", "waiting", "accepted", "refused"}
           /\ DOMAIN job' = Mail /\ DOMAIN sub' = Mail
           /\ \A n \in Mail \ {m} : job'[n] = job[n] /\ sub'[n] = sub[n]
<1> DEFINE j == job[m]
           left == {k \in j.to : k > j.k}
<1>1. Handling(m) /\ DOMAIN job = Mail /\ DOMAIN sub = Mail
  BY DEF ForwardedInv, ForwardedShape
<1>2. /\ sub[m] = "waiting" /\ j.k \in j.to /\ j.to \subseteq DOMAIN Envelope[m] /\ Served(m)
      /\ DOMAIN Envelope[m] \subseteq Nat
      /\ \A i \in DOMAIN Envelope[m] : Envelope[m][i] \in Tenant
  BY <1>1, Wiring DEF Handling
<1>3. ASSUME NEW i \in DOMAIN Envelope[m], Envelope[m][i] \notin gone'
      PROVE  i \in j.to /\ (i <= j.k => Reached(m, Envelope[m][i])')
  <2>1. Envelope[m][i] \notin gone
    BY <1>3 DEF Further
  <2>2. i \in j.to /\ (i < j.k => Reached(m, Envelope[m][i]))
    BY <1>2, <2>1 DEF Served
  <2>3. CASE i = j.k
    <3>1. Envelope[m][i] = u
      BY <2>3 DEF Recipient
    <3>2. Reached(m, Envelope[m][i])'
      BY <1>3, <3>1
    <3> QED BY <2>2, <3>2
  <2>4. CASE i < j.k
    BY <1>2, <2>2, <2>4, ReachedStays
  <2>5. i \in Nat /\ j.k \in Nat
    BY <1>2
  <2> QED BY <2>2, <2>3, <2>4, <2>5
<1>4. CASE left # {}
  <2>1. /\ job' = [job EXCEPT ![m] = [j EXCEPT !.at = "data", !.k = Min(left), !.box = None,
                                                !.answer = answer]]
        /\ sub' = sub
    BY <1>4 DEF Answered
  <2>2. Min(left) \in left /\ \A y \in left : Min(left) <= y
    BY <1>2, <1>4, MinIsLeast
  <2> HIDE DEF left
  <2>3. job'[m] = [at |-> "data", to |-> j.to, k |-> Min(left), box |-> None, answer |-> answer]
    BY <1>1, <2>1 DEF Handling
  <2>4. ASSUME NEW i \in DOMAIN Envelope[m], Envelope[m][i] \notin gone'
        PROVE  i \in j.to /\ (i < Min(left) => Reached(m, Envelope[m][i])')
    <3>1. i \in j.to /\ (i <= j.k => Reached(m, Envelope[m][i])')
      BY <1>3, <2>4
    <3>2. i \in Nat /\ j.k \in Nat /\ Min(left) \in Nat
      BY <1>2, <2>2, <3>1 DEF left
    <3>3. i > j.k => Min(left) <= i
      BY <2>2, <3>1 DEF left
    <3> QED BY <3>1, <3>2, <3>3
  <2>5. Served(m)'
    BY <2>3, <2>4 DEF Served
  <2>6. Min(left) \in j.to
    BY <2>2 DEF left
  <2>7. Handling(m)'
    BY <1>2, <2>1, <2>3, <2>5, <2>6 DEF Handling
  <2> QED BY <1>1, <1>2, <2>1, <2>7
<1>5. CASE left = {}
  <2>1. /\ job' = [job EXCEPT ![m] = Idle]
        /\ sub' = [sub EXCEPT ![m] = IF answer = "250" THEN "accepted" ELSE "refused"]
    BY <1>5 DEF Answered
  <2>2. ASSUME NEW t \in ToSet(Envelope[m]), t \notin gone' PROVE Reached(m, t)'
    <3>1. PICK i \in DOMAIN Envelope[m] : t = Envelope[m][i]
      BY DEF ToSet
    <3>2. i \in j.to /\ (i <= j.k => Reached(m, t)')
      BY <1>3, <2>2, <3>1
    <3>3. ~(i > j.k) /\ i \in Nat /\ j.k \in Nat
      BY <1>2, <1>5, <3>2
    <3> QED BY <3>2, <3>3
  <2>3. AllReached(m)'
    BY <2>2 DEF AllReached
  <2> QED BY <1>1, <2>1, <2>3
<1> QED BY <1>4, <1>5

(* An analysis that is committed is counted.                              *)
LEMMA StoreCounts ==
    ASSUME ForwardedInv, NEW b \in Box, NEW m \in Mail, Store(b, m),
           UNCHANGED <<gone, skipped>>
    PROVE  /\ Further
           /\ stored' \subseteq Box \X Mail /\ analysed' \in [Box \X Mail -> Nat]
           /\ \A c \in Box, n \in Mail : <<c, n>> \in stored' => analysed'[c, n] > 0
           /\ analysed'[b, m] > 0
<1>1. /\ analysed \in [Box \X Mail -> Nat] /\ stored \subseteq Box \X Mail
      /\ \A c \in Box, n \in Mail : <<c, n>> \in stored => analysed[c, n] > 0
  BY DEF ForwardedInv, ForwardedShape
<1>2. /\ stored' = stored \cup {<<b, m>>} /\ <<b, m>> \in Box \X Mail
      /\ analysed' = [analysed EXCEPT ![<<b, m>>] = analysed[<<b, m>>] + 1]
  BY DEF Store
<1>3. analysed' \in [Box \X Mail -> Nat] /\ analysed'[b, m] > 0
  <2>0. analysed[<<b, m>>] \in Nat
    BY <1>1
  <2>1. analysed[<<b, m>>] + 1 \in Nat /\ analysed[<<b, m>>] + 1 > 0
    BY <2>0
  <2>2. analysed'[<<b, m>>] = analysed[<<b, m>>] + 1
    BY <1>1, <1>2
  <2>3. analysed' \in [Box \X Mail -> Nat]
    BY <1>1, <1>2, <2>1
  <2> QED BY <2>1, <2>2, <2>3
<1>4. \A c \in Box, n \in Mail : analysed[c, n] > 0 => analysed'[c, n] > 0
  <2> SUFFICES ASSUME NEW c \in Box, NEW n \in Mail, analysed[c, n] > 0 PROVE analysed'[c, n] > 0
    OBVIOUS
  <2>1. <<c, n>> \in Box \X Mail
    OBVIOUS
  <2>2. CASE <<c, n>> = <<b, m>>
    BY <1>3, <2>2
  <2>3. CASE <<c, n>> # <<b, m>>
    BY <1>1, <1>2, <2>1, <2>3
  <2> QED BY <2>2, <2>3
<1>5. \A c \in Box, n \in Mail : <<c, n>> \in stored' => analysed'[c, n] > 0
  BY <1>1, <1>2, <1>3, <1>4
<1> QED BY <1>1, <1>2, <1>3, <1>4, <1>5 DEF Further

(* A duplicate of a mail is that mail, and its row stands for an analysis.*)
LEMMA DuplicateWasAnalysed ==
    ASSUME ForwardedInv, NEW b \in Box, NEW m \in Mail, Duplicate(b, m) PROVE analysed[b, m] > 0
<1>1. PICK r \in stored : r[1] = b /\ Id[r[2]] = Id[m] /\ Content[r[2]] = Content[m]
  BY DEF Duplicate
<1>2. r \in Box \X Mail
  BY DEF ForwardedInv, ForwardedShape
<1>3. r = <<b, m>>
  BY <1>1, <1>2, Wiring
<1> QED BY <1>3 DEF ForwardedInv, ForwardedShape

(* What is left to show of a step that concerns the copy of m.            *)
LEMMA OneMail ==
    ASSUME Further, ForwardedInv, NEW m \in Mail,
           job'[m] # Idle => Handling(m)', sub'[m] = "accepted" => AllReached(m)',
           sub'[m] \in {"new", "waiting", "accepted", "refused"},
           DOMAIN job' = Mail, DOMAIN sub' = Mail,
           \A n \in Mail \ {m} : job'[n] = job[n] /\ sub'[n] = sub[n],
           gone' \subseteq Tenant, lapsed' \subseteq Tenant, poll' \in [Box -> Mail \cup {None}],
           stored' \subseteq Box \X Mail, analysed' \in [Box \X Mail -> Nat],
           \A b \in Box, n \in Mail : <<b, n>> \in stored' => analysed'[b, n] > 0,
           sub' \in [Mail -> {"new", "waiting", "accepted", "refused"}]
    PROVE  ForwardedInv'
<1>1. ASSUME NEW n \in Mail
      PROVE  (job'[n] # Idle => Handling(n)') /\ (sub'[n] = "accepted" => AllReached(n)')
  <2>1. CASE n = m
    BY <2>1
  <2>2. CASE n # m
    BY <2>2, MailStays
  <2> QED BY <2>1, <2>2
<1>2. ForwardedShape'
  BY DEF ForwardedShape
<1> QED BY <1>1, <1>2 DEF ForwardedInv

(* What is left to show of a step that concerns no copy being handled.    *)
LEMMA NoMail ==
    ASSUME Further, ForwardedInv, job' = job, ForwardedShape',
           \A m \in Mail : sub'[m] = sub[m] \/ (job[m] = Idle /\ sub'[m] # "accepted")
    PROVE  ForwardedInv'
<1>1. \A m \in Mail : /\ job'[m] # Idle => Handling(m)'
                      /\ sub'[m] = "accepted" => AllReached(m)'
  BY MailStays
<1> QED BY <1>1 DEF ForwardedInv

(* Departures, lapses, arrivals and polls undo nothing.                   *)
LEMMA OutsideKeeps ==
    ASSUME ForwardedInv,
           \/ \E t \in Tenant : Leave(t) \/ Lapse(t)
           \/ \E m \in Mail : Arrive(m) \/ \E b \in Box : Poll(b, m)
           \/ UNCHANGED vars
    PROVE  ForwardedInv'
<1> USE DEF Further, ForwardedShape
<1>0. ForwardedShape
  BY DEF ForwardedInv
<1>1. ASSUME NEW t \in Tenant, Leave(t) PROVE ForwardedInv'
  <2>1. /\ gone' = gone \cup {t} /\ stored' \subseteq stored
        /\ UNCHANGED <<lapsed, sub, job, poll, analysed, skipped>>
    BY <1>1 DEF Leave
  <2>2. ForwardedShape' /\ Further
    BY <1>0, <2>1
  <2> QED BY <2>1, <2>2, NoMail
<1>2. ASSUME NEW t \in Tenant, Lapse(t) PROVE ForwardedInv'
  BY <1>0, <1>2, NoMail DEF Lapse
<1>3. ASSUME NEW m \in Mail, Arrive(m) PROVE ForwardedInv'
  <2>1. /\ sub[m] = "new" /\ sub' = [sub EXCEPT ![m] = "waiting"]
        /\ UNCHANGED <<gone, lapsed, job, poll, stored, analysed, skipped>>
    BY <1>3 DEF Arrive
  <2>2. job[m] = Idle
    BY <2>1 DEF ForwardedInv, Handling
  <2>3. ForwardedShape' /\ Further
    BY <1>0, <2>1
  <2> QED BY <1>0, <2>1, <2>2, <2>3, NoMail
<1>4. ASSUME NEW m \in Mail, NEW b \in Box, Poll(b, m) PROVE ForwardedInv'
  <2>1. /\ UNCHANGED <<gone, lapsed, sub, job, stored, analysed, skipped>>
        /\ poll' = poll \/ poll' = [poll EXCEPT ![b] = m]
    BY <1>4 DEF Poll
  <2>2. ForwardedShape' /\ Further
    BY <1>0, <2>1
  <2> QED BY <2>1, <2>2, NoMail
<1>5. CASE UNCHANGED vars
  BY <1>0, <1>5, NoMail DEF vars
<1> QED BY <1>1, <1>2, <1>3, <1>4, <1>5

(* A poll adds an analysis.                                               *)
LEMMA CommitPollKeeps == ASSUME ForwardedInv, NEW b \in Box, CommitPoll(b) PROVE ForwardedInv'
<1>1. /\ poll[b] \in Mail /\ Store(b, poll[b]) /\ poll' = [poll EXCEPT ![b] = None]
      /\ UNCHANGED <<gone, lapsed, sub, job, skipped>>
  BY DEF CommitPoll, ForwardedInv, ForwardedShape
<1>2. /\ Further /\ stored' \subseteq Box \X Mail /\ analysed' \in [Box \X Mail -> Nat]
      /\ \A c \in Box, n \in Mail : <<c, n>> \in stored' => analysed'[c, n] > 0
  BY <1>1, StoreCounts
<1>3. poll' \in [Box -> Mail \cup {None}]
  BY <1>1 DEF ForwardedInv, ForwardedShape
<1>4. ForwardedShape'
  BY <1>1, <1>2, <1>3 DEF ForwardedInv, ForwardedShape
<1> QED BY <1>1, <1>2, <1>4, NoMail

(* All recipients that resolve are taken, in their order.                 *)
LEMMA SubmitKeeps == ASSUME ForwardedInv, NEW m \in Mail, Submit(m) PROVE ForwardedInv'
<1> DEFINE to == {k \in DOMAIN Envelope[m] : Resolves(Envelope[m][k])}
<1>1. /\ sub[m] = "waiting" /\ job[m] = Idle
      /\ UNCHANGED <<gone, lapsed, poll, stored, analysed, skipped>>
  BY DEF Submit
<1>2. ForwardedShape /\ Further
  BY <1>1 DEF ForwardedInv, Further
<1>3. CASE to = {}
  <2>1. sub' = [sub EXCEPT ![m] = "refused"] /\ job' = job
    BY <1>3 DEF Submit
  <2>2. ForwardedShape'
    BY <1>1, <1>2, <2>1 DEF ForwardedShape
  <2> QED BY <1>1, <1>2, <2>1, <2>2, NoMail DEF ForwardedShape
<1>4. CASE to # {}
  <2>1. /\ job' = [job EXCEPT ![m] = [Idle EXCEPT !.at = "data", !.to = to, !.k = Min(to)]]
        /\ sub' = sub
    BY <1>4 DEF Submit
  <2>2. DOMAIN Envelope[m] \subseteq Nat
    BY Wiring
  <2>3. Min(to) \in to /\ \A y \in to : Min(to) <= y
    BY <1>4, <2>2, MinIsLeast
  <2>4. \A i \in DOMAIN Envelope[m] : Envelope[m][i] \notin gone => i \in to
    BY DEF Resolves
  <2>5. to \subseteq DOMAIN Envelope[m]
    OBVIOUS
  <2> HIDE DEF to
  <2>6. job'[m] = [at |-> "data", to |-> to, k |-> Min(to), box |-> None, answer |-> None]
    BY <1>2, <2>1 DEF ForwardedShape, Idle
  <2>7. Served(m)'
    <3> SUFFICES ASSUME NEW i \in DOMAIN Envelope[m], Envelope[m][i] \notin gone
                 PROVE  i \in to /\ ~(i < Min(to))
      BY <1>1, <2>6 DEF Served
    <3>1. i \in to /\ Min(to) <= i
      BY <2>3, <2>4
    <3>2. i \in Nat /\ Min(to) \in Nat
      BY <2>2, <2>3, <2>5
    <3> QED BY <3>1, <3>2
  <2>8. Handling(m)'
    <3>1. /\ job'[m].at = "data" /\ job'[m].to = to /\ job'[m].k = Min(to)
          /\ job'[m].box = None /\ job'[m].answer = None
      BY <2>6
    <3>2. sub'[m] = "waiting"
      BY <1>1, <2>1
    <3> QED BY <2>3, <2>5, <2>6, <2>7, <3>1, <3>2 DEF Handling
  <2> QED BY <1>1, <1>2, <2>1, <2>8, OneMail DEF ForwardedShape
<1> QED BY <1>3, <1>4

(* What is handled is a recipient of the envelope.                        *)
LEMMA RecipientIsTenant ==
    ASSUME ForwardedInv, NEW m \in Mail, job[m] # Idle PROVE Recipient(m) \in Tenant
<1>1. Handling(m)
  BY DEF ForwardedInv
<1>2. job[m].k \in DOMAIN Envelope[m] /\ Envelope[m] \in Seq(Tenant)
  BY <1>1, Wiring DEF Handling
<1> QED BY <1>2 DEF Recipient

(* A recipient is refused, dropped, found a duplicate, or read.           *)
LEMMA ResolveKeeps == ASSUME ForwardedInv, NEW m \in Mail, Resolve(m) PROVE ForwardedInv'
<1>1. job[m].at = "data" /\ job[m] # Idle
      /\ UNCHANGED <<gone, lapsed, poll, stored, analysed>>
  BY DEF Resolve, Idle
<1>2. PICK t \in Tenant : t = Recipient(m)
  BY <1>1, RecipientIsTenant
<1>3. ForwardedShape /\ Handling(m)
  BY <1>1 DEF ForwardedInv
<1>4. ASSUME NEW a, Answered(m, a), skipped \subseteq skipped', t \in gone \/ Reached(m, t)'
      PROVE  ForwardedInv'
  <2>1. Further
    BY <1>1, <1>4 DEF Further
  <2>2. sub' \in [Mail -> {"new", "waiting", "accepted", "refused"}]
    BY <1>3, <1>4 DEF Answered, ForwardedShape
  <2>3. t \in gone' \/ Reached(m, t)'
    BY <1>1, <1>4
  <2>4. /\ job'[m] # Idle => Handling(m)'
        /\ sub'[m] = "accepted" => AllReached(m)'
        /\ sub'[m] \in {"new", "waiting", "accepted", "refused"}
        /\ DOMAIN job' = Mail /\ DOMAIN sub' = Mail
        /\ \A n \in Mail \ {m} : job'[n] = job[n] /\ sub'[n] = sub[n]
    BY <1>1, <1>2, <1>4, <2>1, <2>3, AnsweredKeeps
  <2> QED BY <1>1, <1>3, <2>1, <2>2, <2>4, OneMail DEF ForwardedShape
<1>5. CASE ~Resolves(t) /\ Answered(m, "550") /\ UNCHANGED skipped
  BY <1>4, <1>5 DEF Resolves
<1>6. CASE Answered(m, "250") /\ skipped' = skipped \cup {<<m, t>>}
  <2>1. Reached(m, t)'
    BY <1>6 DEF Reached
  <2> QED BY <1>4, <1>6, <2>1
<1>7. CASE Analysable(t) /\ Duplicate(Attributed(t, m), m) /\ Answered(m, "250")
               /\ UNCHANGED skipped
  <2>1. Attributed(t, m) \in ToSet(Boxes[t]) /\ Attributed(t, m) \in Box
    BY <1>7, AttributedIsOurs DEF Analysable
  <2>2. analysed[Attributed(t, m), m] > 0
    BY <1>7, <2>1, DuplicateWasAnalysed
  <2>3. Reached(m, t)'
    BY <1>1, <2>1, <2>2 DEF Reached
  <2> QED BY <1>4, <1>7, <2>3
<1>8. CASE /\ Analysable(t)
           /\ job' = [job EXCEPT ![m].at = "read", ![m].box = Attributed(t, m)]
           /\ UNCHANGED <<sub, skipped>>
  <2>1. Attributed(t, m) \in ToSet(Boxes[t])
    BY <1>8, AttributedIsOurs DEF Analysable
  <2>2. job'[m] = [at |-> "read", to |-> job[m].to, k |-> job[m].k, box |-> Attributed(t, m),
                   answer |-> job[m].answer]
    BY <1>3, <1>8 DEF Handling, ForwardedShape
  <2>3. /\ job'[m].at = "read" /\ job'[m].to = job[m].to /\ job'[m].k = job[m].k
        /\ job'[m].box = Attributed(t, m) /\ job'[m].answer = job[m].answer
    BY <2>2
  <2>4. Recipient(m)' = t
    BY <1>2, <2>3 DEF Recipient
  <2>5. Served(m)'
    BY <1>1, <1>3, <1>8, <2>3 DEF Handling, Served, Reached
  <2>6. sub'[m] = "waiting"
    BY <1>3, <1>8 DEF Handling
  <2>7. job'[m].box \in ToSet(Boxes[Recipient(m)'])
    BY <2>1, <2>3, <2>4
  <2>8. Handling(m)'
    BY <1>3, <2>2, <2>3, <2>5, <2>6, <2>7 DEF Handling
  <2>9. Further
    BY <1>1, <1>8 DEF Further
  <2> QED BY <1>1, <1>3, <1>8, <2>6, <2>8, <2>9, OneMail DEF ForwardedShape
<1> QED BY <1>2, <1>5, <1>6, <1>7, <1>8 DEF Resolve

(* The copy of the current recipient is analysed and committed.           *)
LEMMA CommitCopyKeeps == ASSUME ForwardedInv, NEW m \in Mail, CommitCopy(m) PROVE ForwardedInv'
<1>1. /\ job[m].at = "read" /\ job[m] # Idle /\ Store(job[m].box, m) /\ Answered(m, "250")
      /\ UNCHANGED <<gone, lapsed, poll, skipped>>
  BY DEF CommitCopy, Idle
<1>2. PICK t \in Tenant : t = Recipient(m)
  BY <1>1, RecipientIsTenant
<1>3. ForwardedShape /\ Handling(m)
  BY <1>1 DEF ForwardedInv
<1>4. PICK b \in Box : b = job[m].box /\ b \in ToSet(Boxes[t])
  <2>1. job[m].box \in ToSet(Boxes[t])
    BY <1>1, <1>2, <1>3 DEF Handling
  <2>2. Boxes[t] \in Seq(Box)
    BY Wiring
  <2> QED BY <2>1, <2>2 DEF ToSet
<1>5. /\ Further /\ stored' \subseteq Box \X Mail /\ analysed' \in [Box \X Mail -> Nat]
      /\ \A c \in Box, n \in Mail : <<c, n>> \in stored' => analysed'[c, n] > 0
      /\ analysed'[b, m] > 0
  BY <1>1, <1>4, StoreCounts
<1>6. Reached(m, t)'
  BY <1>4, <1>5 DEF Reached
<1>7. sub' \in [Mail -> {"new", "waiting", "accepted", "refused"}]
  BY <1>1, <1>3 DEF Answered, ForwardedShape
<1>8. /\ job'[m] # Idle => Handling(m)'
      /\ sub'[m] = "accepted" => AllReached(m)'
      /\ sub'[m] \in {"new", "waiting", "accepted", "refused"}
      /\ DOMAIN job' = Mail /\ DOMAIN sub' = Mail
      /\ \A n \in Mail \ {m} : job'[n] = job[n] /\ sub'[n] = sub[n]
  BY <1>1, <1>2, <1>5, <1>6, AnsweredKeeps
<1> QED BY <1>1, <1>3, <1>5, <1>7, <1>8, OneMail DEF ForwardedShape

(* An exception ends the submission unaccepted.                           *)
LEMMA FailKeeps == ASSUME ForwardedInv, NEW m \in Mail, Fail(m) PROVE ForwardedInv'
<1>1. /\ job[m] # Idle /\ job' = [job EXCEPT ![m] = Idle]
      /\ sub' \in {[sub EXCEPT ![m] = "refused"], sub}
      /\ UNCHANGED <<gone, lapsed, poll, stored, analysed, skipped>>
  BY DEF Fail, Errs
<1>2. ForwardedShape /\ sub[m] = "waiting" /\ Further
  BY <1>1 DEF ForwardedInv, Handling, Further
<1>3. /\ job'[m] = Idle /\ sub'[m] \in {"waiting", "refused"}
      /\ DOMAIN job' = Mail /\ sub' \in [Mail -> {"new", "waiting", "accepted", "refused"}]
      /\ \A n \in Mail \ {m} : job'[n] = job[n] /\ sub'[n] = sub[n]
  BY <1>1, <1>2 DEF ForwardedShape
<1> QED BY <1>1, <1>2, <1>3, OneMail DEF ForwardedShape

(* Every step keeps the invariant, ...                                    *)
LEMMA ForwardedStep == ASSUME ForwardedInv, [Next]_vars PROVE ForwardedInv'
  BY OutsideKeeps, CommitPollKeeps, SubmitKeeps, ResolveKeeps, CommitCopyKeeps, FailKeeps DEF Next

(* ... which holds at the start.                                          *)
LEMMA ForwardedStart == Init => ForwardedInv
<1> SUFFICES ASSUME Init PROVE ForwardedInv
  OBVIOUS
<1>1. ForwardedShape
  BY DEF Init, ForwardedShape
<1> QED BY <1>1 DEF Init, ForwardedInv

-----------------------------------------------------------------------------
(* Domains: proofs, claims and trials                                     *)

Company == [state : {"none", "new", "here", "proving", "gone"}, home : Home,
            read : BOOLEAN, seen : BOOLEAN]
Claimed == [d : Domain, t : Tenant, verified : BOOLEAN]
Check == [pc : {"idle", "write"}, absent : SUBSET Domains!Pair, present : SUBSET Domains!Pair]

DomainShape ==
    /\ strict \in BOOLEAN
    /\ tenants \in [Tenant -> Company]
    /\ domainRows \subseteq Claimed
    /\ ledger \subseteq Domain /\ trials \in [Domain -> Nat]
    /\ cache \in [Domains!Pair -> {"none", "present", "absent"}]
    /\ checks \in [Domains!CheckKind -> Check]

OneRow == \A r, q \in domainRows : r.d = q.d => r = q

(* A domain without a trial in the ledger has had none.                   *)
Tried == \A d \in Domain : trials[d] <= 1 /\ (d \notin ledger => trials[d] = 0)

(* Whoever holds a domain is there, and has proved an address.            *)
HeldByCredible ==
    \A r \in domainRows : tenants[r.t].state = "here" /\ (strict => tenants[r.t].read)

(* A proof that is not published, though it was, is known to be missing.  *)
Trusted == Domains!Verified \cup checks["verify"].present
GoneIsKnown ==
    \A p \in Domains!Pair : p \notin dns /\ (p \in public \/ p \in Trusted) => p \in missing

(* A check that found a proof absent had a reason.                        *)
AbsentForAReason ==
    \A k \in {"sweep", "access"} : \A p \in checks[k].absent :
        p \in Trusted => p \in missing \cup domainOld

DomainInv ==
    DomainShape /\ OneRow /\ Tried /\ HeldByCredible /\ GoneIsKnown /\ AbsentForAReason

(* A workspace that does not exist yet is one of the type.                *)
LEMMA NoTenantTyped == Domains!NoTenant \in Company
<1>1. (CHOOSE d \in Home : TRUE) \in Home
  BY DomainsBounds
<1> QED BY <1>1 DEF Domains!NoTenant, Company

(* At the start nobody has claimed or proved anything.                    *)
LEMMA DomainStart == Domains!Init => DomainInv
<1> SUFFICES ASSUME Domains!Init PROVE DomainInv
  OBVIOUS
<1>1. DomainShape
  BY NoTenantTyped DEF Domains!Init, DomainShape, Domains!NoCheck, Check
<1>2. GoneIsKnown /\ AbsentForAReason
  BY DEF Domains!Init, GoneIsKnown, AbsentForAReason, Trusted, Domains!Verified, Domains!NoCheck,
     Domains!CheckKind
<1> QED BY <1>1, <1>2 DEF Domains!Init, DomainInv, OneRow, Tried, HeldByCredible

(* A workspace that signs up holds nothing yet.                           *)
LEMMA Signups ==
    ASSUME DomainInv, NEW t \in Tenant, tenants[t].state # "here"
    PROVE  \A r \in domainRows : r.t # t
  BY DEF DomainInv, HeldByCredible

(* Rows without a proof that are added or deleted change nothing trusted. *)
LEMMA RowsChange ==
    ASSUME DomainInv, UNCHANGED <<dns, public, cache, checks, missing, domainOld>>,
           Domains!Verified' \subseteq Domains!Verified
    PROVE  GoneIsKnown' /\ AbsentForAReason'
  BY DEF DomainInv, GoneIsKnown, AbsentForAReason, Trusted

(* One more claim of a domain that nobody holds.                          *)
LEMMA OneMoreRow ==
    ASSUME DomainInv, NEW d \in Domain, NEW t \in Tenant, Domains!Unique(d),
           domainRows' = domainRows \cup {[d |-> d, t |-> t, verified |-> FALSE]}
    PROVE  domainRows' \subseteq Claimed /\ OneRow' /\ Domains!Verified' \subseteq Domains!Verified
<1> DEFINE new == [d |-> d, t |-> t, verified |-> FALSE]
<1>1. new \in Claimed /\ domainRows \subseteq Claimed
  BY DEF DomainInv, DomainShape, Claimed
<1>2. \A r \in domainRows : r.d # new.d
  BY DEF Domains!Unique, Domains!RowOf
<1>3. OneRow'
  BY <1>2 DEF DomainInv, OneRow
<1>4. Domains!Verified' \subseteq Domains!Verified
  BY DEF Domains!Verified
<1> QED BY <1>1, <1>3, <1>4

(* Signing up only remembers what was seen of the home domain.            *)
LEMMA DomainRegisterKeeps ==
    ASSUME DomainInv, NEW t \in Tenant, NEW d \in Home, Domains!Register(t, d)
    PROVE  DomainInv'
<1>1. tenants' \in [Tenant -> Company]
  BY DomainsBounds DEF Domains!Register, DomainInv, DomainShape, Company
<1>2. HeldByCredible'
  BY Signups DEF Domains!Register, DomainInv, DomainShape, HeldByCredible, Claimed, Domains!Account
<1>3. Domains!Verified' \subseteq Domains!Verified
  BY DEF Domains!Register, Domains!Verified
<1>4. GoneIsKnown' /\ AbsentForAReason'
  BY <1>3, RowsChange DEF Domains!Register, Domains!Account
<1> QED
  BY <1>1, <1>2, <1>4 DEF DomainInv, DomainShape, OneRow, Tried, Domains!Register, Domains!Account

(* A trial is counted for a domain that had none.                         *)
LEMMA DomainTrialKeeps ==
    ASSUME DomainInv, NEW d \in Home, NEW seen \in BOOLEAN, d \in ledger => seen,
               Domains!StartsTrial(d, seen)
    PROVE  ledger' \subseteq Domain /\ trials' \in [Domain -> Nat] /\ Tried'
  BY DomainsBounds DEF Domains!StartsTrial, DomainInv, DomainShape, Tried

(* A workspace comes to exist, with its domain and perhaps its trial.     *)
LEMMA DomainCommitRegisterKeeps ==
    ASSUME DomainInv, NEW t \in Tenant, Domains!CommitRegister(t)
    PROVE  DomainInv'
<1> DEFINE d == tenants[t].home
           seen == tenants[t].seen
<1>1. d \in Home /\ d \in Domain /\ seen \in BOOLEAN
  BY DomainsBounds DEF DomainInv, DomainShape, Company
<1>2. tenants' \in [Tenant -> Company] /\ \A u \in Tenant : u # t => tenants'[u] = tenants[u]
  BY NoTenantTyped DEF Domains!CommitRegister, DomainInv, DomainShape, Company
<1>3. ledger' \subseteq Domain /\ trials' \in [Domain -> Nat] /\ Tried'
  <2>1. CASE UNCHANGED <<ledger, trials>>
    BY <2>1 DEF DomainInv, DomainShape, Tried
  <2>2. CASE (d \in ledger => seen) /\ Domains!StartsTrial(d, seen)
    BY <1>1, <2>2, DomainTrialKeeps
  <2> QED BY <2>1, <2>2 DEF Domains!CommitRegister
<1>4. \A r \in domainRows : r.t # t /\ r.t \in Tenant
  BY Signups DEF Domains!CommitRegister, DomainInv, DomainShape, Claimed
<1>5. CASE UNCHANGED domainRows
  <2>1. HeldByCredible' /\ Domains!Verified' \subseteq Domains!Verified
    BY <1>2, <1>4, <1>5 DEF HeldByCredible, DomainInv, Domains!CommitRegister, Domains!Account,
       Domains!Verified
  <2> QED
    BY <1>2, <1>3, <1>5, <2>1, RowsChange
       DEF DomainInv, DomainShape, OneRow, Domains!CommitRegister, Domains!Account
<1>6. CASE /\ ~strict /\ Domains!Unique(d) /\ tenants' = [tenants EXCEPT ![t].state = "here"]
           /\ domainRows' = domainRows \cup {[d |-> d, t |-> t, verified |-> FALSE]}
  <2>1. domainRows' \subseteq Claimed /\ OneRow' /\ Domains!Verified' \subseteq Domains!Verified
    BY <1>1, <1>6, OneMoreRow
  <2>2. tenants'[t].state = "here"
    BY <1>6 DEF DomainInv, DomainShape, Company
  <2>3. HeldByCredible'
    BY <1>2, <1>4, <1>6, <2>2 DEF HeldByCredible, DomainInv, Domains!CommitRegister, Domains!Account
  <2> QED
    BY <1>2, <1>3, <2>1, <2>3, RowsChange DEF DomainInv, DomainShape, Domains!CommitRegister,
       Domains!Account
<1> QED BY <1>5, <1>6 DEF Domains!CommitRegister

(* Opening the link of the welcome mail proves the email.                 *)
LEMMA DomainOpenLinkKeeps ==
    ASSUME DomainInv, NEW t \in Tenant, Domains!OpenLink(t)
    PROVE  DomainInv'
<1>1. tenants' \in [Tenant -> Company] /\ \A u \in Tenant : u # t => tenants'[u] = tenants[u]
  <2>1. (tenants[t].home \in ledger) \in BOOLEAN
    OBVIOUS
  <2> QED BY <2>1 DEF Domains!OpenLink, DomainInv, DomainShape, Company
<1>2. \A r \in domainRows : r.t # t /\ r.t \in Tenant
  BY DEF Domains!OpenLink, DomainInv, DomainShape, Claimed, HeldByCredible
<1>3. HeldByCredible' /\ Domains!Verified' \subseteq Domains!Verified
  BY <1>1, <1>2 DEF Domains!OpenLink, DomainInv, HeldByCredible, Domains!Account, Domains!Verified
<1> QED
  BY <1>1, <1>3, RowsChange DEF DomainInv, DomainShape, OneRow, Tried, Domains!OpenLink,
     Domains!Account

(* What the link gives is written.                                        *)
LEMMA DomainCommitLinkKeeps ==
    ASSUME DomainInv, NEW t \in Tenant, Domains!CommitLink(t)
    PROVE  DomainInv'
<1> DEFINE d == tenants[t].home
           seen == tenants[t].seen
<1>1. d \in Home /\ d \in Domain /\ seen \in BOOLEAN
  BY DomainsBounds DEF DomainInv, DomainShape, Company
<1>2. tenants' \in [Tenant -> Company] /\ \A u \in Tenant : u # t => tenants'[u] = tenants[u]
  BY DEF Domains!CommitLink, DomainInv, DomainShape, Company
<1>3. ledger' \subseteq Domain /\ trials' \in [Domain -> Nat] /\ Tried'
  <2>1. CASE UNCHANGED <<ledger, trials>>
    BY <2>1 DEF DomainInv, DomainShape, Tried
  <2>2. CASE Domains!LedgerKey(d, seen) /\ Domains!StartsTrial(d, seen)
    BY <1>1, <2>2, DomainTrialKeeps DEF Domains!LedgerKey
  <2> QED BY <2>1, <2>2 DEF Domains!CommitLink
<1>4. \A r \in domainRows : r.t # t /\ r.t \in Tenant
  BY Signups DEF Domains!CommitLink, DomainInv, DomainShape, Claimed
<1>5. CASE UNCHANGED domainRows
  <2>1. HeldByCredible' /\ Domains!Verified' \subseteq Domains!Verified
    BY <1>2, <1>4, <1>5 DEF HeldByCredible, DomainInv, Domains!CommitLink, Domains!Account,
       Domains!Verified
  <2> QED
    BY <1>2, <1>3, <1>5, <2>1, RowsChange
       DEF DomainInv, DomainShape, OneRow, Domains!CommitLink, Domains!Account
<1>6. CASE /\ Domains!Unique(d)
           /\ tenants' = [tenants EXCEPT ![t].state = "here", ![t].read = TRUE]
           /\ domainRows' = domainRows \cup {[d |-> d, t |-> t, verified |-> FALSE]}
  <2>1. domainRows' \subseteq Claimed /\ OneRow' /\ Domains!Verified' \subseteq Domains!Verified
    BY <1>1, <1>6, OneMoreRow
  <2>2. tenants'[t].state = "here" /\ tenants'[t].read
    BY <1>6 DEF DomainInv, DomainShape, Company
  <2>3. HeldByCredible'
    BY <1>2, <1>4, <1>6, <2>2 DEF HeldByCredible, DomainInv, Domains!CommitLink, Domains!Account
  <2> QED
    BY <1>2, <1>3, <2>1, <2>3, RowsChange DEF DomainInv, DomainShape, Domains!CommitLink,
       Domains!Account
<1> QED BY <1>5, <1>6 DEF Domains!CommitLink

(* A claim is not yet a proof.                                            *)
LEMMA DomainClaimKeeps ==
    ASSUME DomainInv, NEW t \in Tenant, NEW d \in Domain, Domains!Claim(t, d)
    PROVE  DomainInv'
<1>1. domainRows' \subseteq Claimed /\ OneRow' /\ Domains!Verified' \subseteq Domains!Verified
  BY OneMoreRow DEF Domains!Claim
<1>2. HeldByCredible'
  BY DEF Domains!Claim, Domains!Here, Domains!Credible, HeldByCredible, DomainInv, Domains!Account
<1> QED
  BY <1>1, <1>2, RowsChange DEF DomainInv, DomainShape, Tried, Domains!Claim, Domains!Account

(* A workspace that is deleted leaves the ledger as it is.                *)
LEMMA DomainDeleteKeeps ==
    ASSUME DomainInv, NEW t \in Tenant, Domains!DeleteTenant(t)
    PROVE  DomainInv'
<1>1. tenants' \in [Tenant -> Company] /\ \A u \in Tenant : u # t => tenants'[u] = tenants[u]
  BY DEF Domains!DeleteTenant, DomainInv, DomainShape, Company
<1>2. domainRows' \subseteq domainRows /\ \A r \in domainRows' : r.t # t
  BY DEF Domains!DeleteTenant
<1>3. HeldByCredible' /\ Domains!Verified' \subseteq Domains!Verified /\ OneRow'
  BY <1>1, <1>2 DEF Domains!DeleteTenant, DomainInv, DomainShape, Claimed, HeldByCredible,
     Domains!Account, Domains!Verified, OneRow
<1> QED
  BY <1>1, <1>2, <1>3, RowsChange DEF DomainInv, DomainShape, Tried, Domains!DeleteTenant,
     Domains!Account

(* The steps of DNS and its checks leave the accounts alone.              *)
LEMMA BookKept ==
    ASSUME DomainInv, Domains!Book' = Domains!Book, UNCHANGED domainRows,
           cache' \in [Domains!Pair -> {"none", "present", "absent"}],
           checks' \in [Domains!CheckKind -> Check], GoneIsKnown', AbsentForAReason'
    PROVE  DomainInv'
  BY DEF DomainInv, DomainShape, Domains!Book, OneRow, Tried, HeldByCredible

(* A record is published or taken down.                                   *)
LEMMA DomainFlipKeeps ==
    ASSUME DomainInv, NEW p \in Domains!Pair, Domains!Flip(p)
    PROVE  DomainInv'
<1>1. GoneIsKnown'
  BY DEF Domains!Flip, DomainInv, GoneIsKnown, Trusted, Domains!Verified
<1>2. AbsentForAReason'
  BY DEF Domains!Flip, DomainInv, AbsentForAReason, Trusted, Domains!Verified
<1> QED BY <1>1, <1>2, BookKept DEF Domains!Flip, DomainInv, DomainShape, Domains!Book

(* Resolvers come to answer what is published.                            *)
LEMMA DomainPropagateKeeps == DomainInv /\ Domains!Propagate => DomainInv'
<1> SUFFICES ASSUME DomainInv, Domains!Propagate PROVE DomainInv'
  OBVIOUS
<1>1. GoneIsKnown' /\ AbsentForAReason'
  BY DEF Domains!Propagate, DomainInv, GoneIsKnown, AbsentForAReason, Trusted, Domains!Verified
<1> QED BY <1>1, BookKept DEF Domains!Propagate, DomainInv, DomainShape, Domains!Book

(* The sweep looks the verified domains up.                               *)
LEMMA DomainSweepKeeps == DomainInv /\ Domains!SweepLookup => DomainInv'
<1> SUFFICES ASSUME DomainInv, Domains!SweepLookup PROVE DomainInv'
  OBVIOUS
<1>0. Domains!Verified \subseteq Domains!Pair
  BY DEF Domains!Verified, DomainInv, DomainShape, Claimed, Domains!Pair
<1>1. PICK own, recursive \in BOOLEAN :
         LET answer == [p \in Domains!Verified |-> Domains!Status(p, own, recursive)] IN
         /\ checks' = [checks EXCEPT !["sweep"] =
                       [Domains!NoCheck EXCEPT !.pc = "write",
                                               !.absent = {p \in Domains!Verified : Domains!Absence(answer[p])}]]
         /\ domainOld' = domainOld \cup Domains!Misled(Domains!Verified, answer)
  BY DEF Domains!SweepLookup
<1> DEFINE answer == [p \in Domains!Verified |-> Domains!Status(p, own, recursive)]
           absent == {p \in Domains!Verified : Domains!Absence(answer[p])}
<1>2. \A p \in absent : p \in missing \cup domainOld'
  <2> SUFFICES ASSUME NEW p \in Domains!Verified, answer[p] = "absent"
                          PROVE p \in missing \cup domainOld'
    BY DEF Domains!Absence
  <2>1. p \in dns => p \in domainOld'
    BY <1>1 DEF Domains!Misled
  <2> QED BY <2>1, <1>0 DEF DomainInv, GoneIsKnown, Trusted
<1>3. /\ checks' \in [Domains!CheckKind -> Check] /\ checks'["sweep"].absent = absent
      /\ checks'["access"] = checks["access"] /\ checks'["verify"] = checks["verify"]
  BY <1>0, <1>1 DEF DomainInv, DomainShape, Domains!CheckKind, Check, Domains!NoCheck
<1>4. domainOld \subseteq domainOld'
  BY <1>1
<1>5. Trusted' = Trusted /\ UNCHANGED <<dns, public, missing, domainRows, cache>>
          /\ Domains!Book' = Domains!Book
  BY <1>3 DEF Domains!SweepLookup, Trusted, Domains!Verified, Domains!Book
<1>6. GoneIsKnown'
  BY <1>5 DEF DomainInv, GoneIsKnown
<1>7. AbsentForAReason'
  <2>1. \A p \in checks["access"].absent : p \in Trusted => p \in missing \cup domainOld
    BY DEF DomainInv, AbsentForAReason
  <2> QED BY <1>2, <1>3, <1>4, <1>5, <2>1 DEF AbsentForAReason
<1> QED BY <1>3, <1>5, <1>6, <1>7, BookKept DEF DomainInv, DomainShape

(* So does a request that needs one of them.                              *)
LEMMA DomainAccessKeeps ==
    ASSUME DomainInv, NEW t \in Tenant, Domains!AccessLookup(t)
    PROVE  DomainInv'
<1> DEFINE mine == {p \in Domains!Verified : p[2] = t}
<1>0. mine \subseteq Domains!Pair /\ mine \subseteq Domains!Verified
  BY DEF Domains!Verified, DomainInv, DomainShape, Claimed, Domains!Pair
<1>1. PICK own, recursive \in BOOLEAN :
         LET answer == [p \in mine |-> IF cache[p] # "none" THEN cache[p]
                                       ELSE Domains!Status(p, own, recursive)] IN
         /\ cache' = [p \in Domains!Pair |-> IF p \in mine /\ answer[p] # "unknown"
                                             THEN answer[p] ELSE cache[p]]
         /\ checks' = [checks EXCEPT !["access"] =
               [Domains!NoCheck EXCEPT !.pc = "write",
                                       !.absent = {p \in mine : Domains!Absence(answer[p])}]]
         /\ domainOld' = domainOld \cup Domains!Misled(mine, answer)
  BY DEF Domains!AccessLookup
<1> DEFINE answer == [p \in mine |-> IF cache[p] # "none" THEN cache[p]
                                     ELSE Domains!Status(p, own, recursive)]
           absent == {p \in mine : Domains!Absence(answer[p])}
<1>2. \A p \in absent : p \in missing \cup domainOld'
  <2> SUFFICES ASSUME NEW p \in mine, answer[p] = "absent" PROVE p \in missing \cup domainOld'
    BY DEF Domains!Absence
  <2>1. p \in dns => p \in domainOld'
    BY <1>1 DEF Domains!Misled
  <2> QED BY <2>1, <1>0 DEF DomainInv, GoneIsKnown, Trusted
<1>3. /\ checks' \in [Domains!CheckKind -> Check] /\ checks'["access"].absent = absent
      /\ checks'["sweep"] = checks["sweep"] /\ checks'["verify"] = checks["verify"]
  BY <1>0, <1>1 DEF DomainInv, DomainShape, Domains!CheckKind, Check, Domains!NoCheck
<1>4. domainOld \subseteq domainOld' /\ cache' \in [Domains!Pair -> {"none", "present", "absent"}]
  <2>1. \A p \in mine : answer[p] \in {"none", "present", "absent", "unknown"} /\ answer[p] # "none"
    BY <1>0 DEF Domains!Status, Domains!Truth, DomainInv, DomainShape
  <2> QED BY <1>0, <1>1, <2>1 DEF DomainInv, DomainShape
<1>5. Trusted' = Trusted /\ UNCHANGED <<dns, public, missing, domainRows>> /\ Domains!Book' =
          Domains!Book
  BY <1>3 DEF Domains!AccessLookup, Trusted, Domains!Verified, Domains!Book
<1>6. GoneIsKnown'
  BY <1>5 DEF DomainInv, GoneIsKnown
<1>7. AbsentForAReason'
  <2>1. \A p \in checks["sweep"].absent : p \in Trusted => p \in missing \cup domainOld
    BY DEF DomainInv, AbsentForAReason
  <2> QED BY <1>2, <1>3, <1>4, <1>5, <2>1 DEF AbsentForAReason
<1> QED BY <1>3, <1>4, <1>5, <1>6, <1>7, BookKept

(* A cached answer runs out.                                              *)
LEMMA DomainCacheKeeps ==
    ASSUME DomainInv, NEW p \in Domains!Pair, Domains!CacheExpires(p)
    PROVE  DomainInv'
<1>1. GoneIsKnown' /\ AbsentForAReason'
  BY DEF Domains!CacheExpires, DomainInv, GoneIsKnown, AbsentForAReason, Trusted, Domains!Verified
<1> QED BY <1>1, BookKept DEF Domains!CacheExpires, DomainInv, DomainShape, Domains!Book

(* A row that is marked keeps its domain and its workspace.               *)
LEMMA DomainRevokeKeeps ==
    ASSUME DomainInv, NEW k \in {"sweep", "access"}, Domains!Revoke(k)
    PROVE  DomainInv'
<1> DEFINE absent == checks[k].absent
           after(r) == [r EXCEPT !.verified = @ /\ <<r.d, r.t>> \notin absent]
<1>0. \A r \in domainRows : /\ after(r) \in Claimed /\ after(r).d = r.d /\ after(r).t = r.t
                            /\ after(r).verified => r.verified
  <2>1. \A r \in domainRows : (r.verified /\ <<r.d, r.t>> \notin absent) \in BOOLEAN
    OBVIOUS
  <2> QED BY <2>1 DEF DomainInv, DomainShape, Claimed
<1>1. domainRows' = domainRows \/ domainRows' = {after(r) : r \in domainRows}
  BY DEF Domains!Revoke
<1> HIDE DEF after
<1>2. domainRows' \subseteq Claimed
  BY <1>0, <1>1 DEF DomainInv, DomainShape
<1>3. /\ \A r \in domainRows' : \E q \in domainRows : q.d = r.d /\ q.t = r.t /\ (r.verified =>
             q.verified)
      /\ OneRow'
  BY <1>0, <1>1 DEF DomainInv, OneRow
<1>4. Domains!Book' = Domains!Book
  BY DEF Domains!Revoke
<1>5. HeldByCredible'
  <2> SUFFICES ASSUME NEW r \in domainRows'
               PROVE  tenants'[r.t].state = "here" /\ (strict' => tenants'[r.t].read)
    BY DEF HeldByCredible
  <2>1. PICK q \in domainRows : q.t = r.t
    BY <1>3
  <2> QED BY <1>4, <2>1 DEF DomainInv, HeldByCredible, Domains!Book
<1>6. Domains!Verified' \subseteq Domains!Verified
  BY <1>3 DEF Domains!Verified
<1>7. /\ checks' \in [Domains!CheckKind -> Check] /\ checks'[k].absent = {}
      /\ \A l \in Domains!CheckKind : l # k => checks'[l] = checks[l]
  BY DEF Domains!Revoke, DomainInv, DomainShape, Domains!CheckKind, Check, Domains!NoCheck
<1>8. Trusted' \subseteq Trusted
  BY <1>6, <1>7 DEF Trusted, Domains!CheckKind
<1>9. GoneIsKnown'
  BY <1>8 DEF DomainInv, GoneIsKnown, Domains!Revoke
<1>10. AbsentForAReason'
  BY <1>7, <1>8 DEF DomainInv, AbsentForAReason, Domains!Revoke, Domains!CheckKind
<1> QED
  BY <1>2, <1>3, <1>4, <1>5, <1>7, <1>9, <1>10
     DEF DomainInv, DomainShape, Tried, Domains!Book, Domains!Revoke

(* A customer asks for the proof to be looked up.                         *)
LEMMA DomainVerifyKeeps ==
    ASSUME DomainInv, NEW p \in Domains!Pair, Domains!VerifyLookup(p)
    PROVE  DomainInv'
<1>1. PICK own, recursive \in BOOLEAN : Domains!Status(p, own, recursive) = "present"
  BY DEF Domains!VerifyLookup
<1>2. p \in dns \/ p \in missing
  BY <1>1 DEF Domains!Status, Domains!Truth, DomainInv, GoneIsKnown
<1>3. /\ checks' \in [Domains!CheckKind -> Check] /\ checks'["verify"].present = {p}
      /\ \A l \in {"sweep", "access"} : checks'[l] = checks[l]
  BY DEF Domains!VerifyLookup, DomainInv, DomainShape, Domains!CheckKind, Check, Domains!NoCheck
<1>4. Trusted' = Domains!Verified \cup {p}
  BY <1>3 DEF Domains!VerifyLookup, Trusted, Domains!Verified
<1>5. /\ \A q \in Domains!Pair : q # p => (q \in missing' <=> q \in missing)
             /\ (q \in domainOld' <=> q \in domainOld)
      /\ p \in missing' \/ p \in dns
      /\ UNCHANGED <<dns, public, domainRows>>
  BY <1>2 DEF Domains!VerifyLookup
<1>6. GoneIsKnown'
  BY <1>4, <1>5 DEF DomainInv, GoneIsKnown, Trusted
<1>7. AbsentForAReason'
  <2> SUFFICES ASSUME NEW k \in {"sweep", "access"}, NEW q \in checks[k].absent, q \in Trusted'
               PROVE  q \in missing' \cup domainOld'
    BY <1>3 DEF AbsentForAReason
  <2>1. q \in Domains!Pair /\ q \in Domains!HeldAbsent
    BY DEF DomainInv, DomainShape, Check, Domains!HeldAbsent, Domains!CheckKind
  <2>2. CASE q = p
    BY <2>1, <2>2 DEF Domains!VerifyLookup
  <2>3. CASE q # p
    BY <1>4, <1>5, <2>1, <2>3 DEF DomainInv, AbsentForAReason, Trusted
  <2> QED BY <2>2, <2>3
<1> QED BY <1>3, <1>6, <1>7, BookKept DEF Domains!VerifyLookup, DomainInv, DomainShape, Domains!Book

(* A proof that was found is written.                                     *)
LEMMA DomainMarkKeeps == DomainInv /\ Domains!MarkVerified => DomainInv'
<1> SUFFICES ASSUME DomainInv, Domains!MarkVerified PROVE DomainInv'
  OBVIOUS
<1> DEFINE present == checks["verify"].present
           after(r) == [r EXCEPT !.verified = @ \/ <<r.d, r.t>> \in present]
<1>0. \A r \in domainRows : /\ after(r) \in Claimed /\ after(r).d = r.d /\ after(r).t = r.t
                            /\ after(r).verified => r.verified \/ <<r.d, r.t>> \in present
  <2>1. \A r \in domainRows : (r.verified \/ <<r.d, r.t>> \in present) \in BOOLEAN
    OBVIOUS
  <2> QED BY <2>1 DEF DomainInv, DomainShape, Claimed
<1>1. domainRows' = {after(r) : r \in domainRows}
  BY DEF Domains!MarkVerified
<1> HIDE DEF after
<1>2. domainRows' \subseteq Claimed
  BY <1>0, <1>1
<1>3. OneRow'
  <2>1. ASSUME NEW a \in domainRows', NEW b \in domainRows', a.d = b.d PROVE a = b
    <3>1. PICK r \in domainRows, q \in domainRows : a = after(r) /\ b = after(q)
      BY <1>1
    <3>2. r.d = q.d
      BY <1>0, <2>1, <3>1
    <3> QED BY <3>1, <3>2 DEF DomainInv, OneRow
  <2> QED BY <2>1 DEF OneRow
<1>4. Domains!Book' = Domains!Book
  BY DEF Domains!MarkVerified
<1>5. HeldByCredible'
  <2> SUFFICES ASSUME NEW r \in domainRows'
               PROVE  tenants'[r.t].state = "here" /\ (strict' => tenants'[r.t].read)
    BY DEF HeldByCredible
  <2>1. PICK q \in domainRows : r = after(q)
    BY <1>1
  <2>2. r.t = q.t
    BY <1>0, <2>1
  <2> QED BY <1>4, <2>2 DEF DomainInv, HeldByCredible, Domains!Book
<1>6. Domains!Verified' \subseteq Trusted
  <2> SUFFICES ASSUME NEW r \in domainRows', r.verified PROVE <<r.d, r.t>> \in Trusted
    BY DEF Domains!Verified
  <2>1. PICK q \in domainRows : r = after(q)
    BY <1>1
  <2>2. r.d = q.d /\ r.t = q.t /\ (q.verified \/ <<q.d, q.t>> \in present)
    BY <1>0, <2>1
  <2> QED BY <2>2 DEF Trusted, Domains!Verified
<1>7. /\ checks' \in [Domains!CheckKind -> Check] /\ checks'["verify"].present = {}
      /\ \A l \in {"sweep", "access"} : checks'[l] = checks[l]
  BY DEF Domains!MarkVerified, DomainInv, DomainShape, Domains!CheckKind, Check, Domains!NoCheck
<1>8. Trusted' \subseteq Trusted
  BY <1>6, <1>7 DEF Trusted
<1>9. GoneIsKnown' /\ AbsentForAReason'
  BY <1>7, <1>8 DEF DomainInv, GoneIsKnown, AbsentForAReason, Domains!MarkVerified
<1> QED
  BY <1>2, <1>3, <1>4, <1>5, <1>7, <1>9
     DEF DomainInv, DomainShape, Tried, Domains!Book, Domains!MarkVerified

(* Every step keeps the invariant.                                        *)
LEMMA DomainStep == DomainInv /\ [Domains!Next]_(Domains!vars) => DomainInv'
<1> SUFFICES ASSUME DomainInv, [Domains!Next]_(Domains!vars) PROVE DomainInv'
  OBVIOUS
<1>1. CASE \E t \in Tenant : \/ Domains!CommitRegister(t) \/ Domains!OpenLink(t)
                                 \/ Domains!CommitLink(t)
                             \/ Domains!DeleteTenant(t) \/ Domains!AccessLookup(t)
                             \/ \E d \in Home : Domains!Register(t, d)
                             \/ \E d \in Domain : Domains!Claim(t, d)
  BY <1>1, DomainCommitRegisterKeeps, DomainOpenLinkKeeps, DomainCommitLinkKeeps,
     DomainDeleteKeeps, DomainAccessKeeps,
     DomainRegisterKeeps, DomainClaimKeeps
<1>2. CASE \E p \in Domains!Pair : Domains!Flip(p) \/ Domains!CacheExpires(p)
               \/ Domains!VerifyLookup(p)
  BY <1>2, DomainFlipKeeps, DomainCacheKeeps, DomainVerifyKeeps
<1>3. CASE Domains!Propagate \/ Domains!SweepLookup \/ Domains!MarkVerified
  BY <1>3, DomainPropagateKeeps, DomainSweepKeeps, DomainMarkKeeps
<1>4. CASE \E k \in {"sweep", "access"} : Domains!Revoke(k)
  BY <1>4, DomainRevokeKeeps
<1>5. CASE UNCHANGED Domains!vars
  BY <1>5 DEF Domains!vars, DomainInv, DomainShape, OneRow, Tried, HeldByCredible, GoneIsKnown,
              AbsentForAReason, Trusted, Domains!Verified
<1> QED BY <1>1, <1>2, <1>3, <1>4, <1>5 DEF Domains!Next

(* The invariant says what was promised.                                  *)
LEMMA DomainInvImplies == DomainInv => Domains!TypeOK /\ Domains!OneTrialPerDomain
    /\ Domains!ColleaguesJoinHolder
<1> SUFFICES ASSUME DomainInv PROVE Domains!TypeOK /\ Domains!OneTrialPerDomain
                        /\ Domains!ColleaguesJoinHolder
  OBVIOUS
<1>1. Domains!TypeOK
  BY DEF DomainInv, DomainShape, OneRow, Domains!TypeOK, Company, Check
<1>2. Domains!ColleaguesJoinHolder
  <2> SUFFICES ASSUME NEW r \in domainRows, r.verified
               PROVE  Domains!Company(r.d) = {r.t} /\ ~Domains!FindsNobody(r.d)
    BY DEF Domains!ColleaguesJoinHolder, Domains!Verified
  <2>1. Domains!Holder(r.d) = {r.t}
    BY DEF Domains!Holder, Domains!RowOf, DomainInv, OneRow
  <2>2. Domains!Credible(r.t)
    BY DEF Domains!Credible, DomainInv, HeldByCredible
  <2> QED BY <2>1, <2>2 DEF Domains!Company, Domains!FindsNobody
<1> QED BY <1>1, <1>2 DEF Domains!OneTrialPerDomain, DomainInv, Tried

(* A domain is taken away only with a reason.                             *)
LEMMA RevokedStep == DomainInv /\ [Domains!Next]_(Domains!vars) => Domains!RevokedOnlyWhenGoneStep
<1> SUFFICES ASSUME DomainInv, [Domains!Next]_(Domains!vars), NEW p \in Domains!Verified,
                        p \notin Domains!Verified',
                    NEW r \in domainRows', <<r.d, r.t>> = p
             PROVE  p \in missing \cup domainOld
  BY DEF Domains!RevokedOnlyWhenGoneStep
<1>1. PICK q \in domainRows : q.verified /\ <<q.d, q.t>> = p
  BY DEF Domains!Verified
<1>2. ~r.verified /\ r.d = q.d /\ r.t = q.t
  BY <1>1 DEF Domains!Verified
<1>3. CASE \E k \in {"sweep", "access"} : Domains!Revoke(k)
  <2>1. PICK k \in {"sweep", "access"} : Domains!Revoke(k)
    BY <1>3
  <2>2. p \in checks[k].absent
    <3>1. CASE domainRows' = domainRows
      BY <1>1, <1>2, <3>1 DEF DomainInv, OneRow
    <3>2. CASE domainRows' = {[s EXCEPT !.verified = @ /\ <<s.d, s.t>> \notin checks[k].absent] :
                                 s \in domainRows}
      <4>1. PICK s \in domainRows : r = [s EXCEPT !.verified = @ /\ <<s.d,
                     s.t>> \notin checks[k].absent]
        BY <3>2
      <4>2. s.d = r.d /\ s = q
        BY <1>1, <1>2, <4>1 DEF DomainInv, DomainShape, OneRow, Claimed
      <4> QED BY <1>1, <1>2, <4>1, <4>2 DEF DomainInv, DomainShape, Claimed
    <3> QED BY <2>1, <3>1, <3>2 DEF Domains!Revoke
  <2> QED BY <2>2 DEF DomainInv, AbsentForAReason, Trusted
<1>4. CASE Domains!MarkVerified
  <2>1. PICK s \in domainRows :
           r = [s EXCEPT !.verified = @ \/ <<s.d, s.t>> \in checks["verify"].present]
    BY <1>4 DEF Domains!MarkVerified
  <2>2. s.d = r.d /\ s = q
    BY <1>1, <1>2, <2>1 DEF DomainInv, DomainShape, OneRow, Claimed
  <2> QED BY <1>1, <1>2, <2>1, <2>2 DEF DomainInv, DomainShape, Claimed
<1>5. CASE \A s \in domainRows' : s \in domainRows \/ s.d \notin {u.d : u \in domainRows}
  BY <1>1, <1>2, <1>5 DEF DomainInv, OneRow
<1>6. CASE UNCHANGED domainRows
  BY <1>5, <1>6
<1>7. CASE \E t \in Tenant : \/ Domains!CommitRegister(t) \/ Domains!CommitLink(t)
                                 \/ Domains!DeleteTenant(t)
                             \/ \E d \in Domain : Domains!Claim(t, d)
  BY <1>5, <1>7 DEF Domains!CommitRegister, Domains!CommitLink, Domains!DeleteTenant,
     Domains!Claim, Domains!Unique, Domains!RowOf
<1> QED
  BY <1>3, <1>4, <1>6, <1>7
     DEF Domains!Next, Domains!vars, Domains!OpenLink, Domains!AccessLookup, Domains!Register,
        Domains!Flip, Domains!CacheExpires, Domains!VerifyLookup, Domains!Propagate,
         Domains!SweepLookup

-----------------------------------------------------------------------------
(* The shared graph: reports and counts                                   *)

(* The instance counts as this module does.                               *)
LEMMA GraphCounts == \A S : Graph!Cardinality(S) = Cardinality(S)
  BY DEF Graph!Cardinality, Cardinality

(* Whoever reported, as a finite set with somebody in it.                 *)
Reporters == {b \in SUBSET Tenant : IsFiniteSet(b) /\ b # {}}
Entry == [verdict : Verdicts \cup {"fraudulent"}, count : Nat, by : Reporters]
Mule == [count : Nat, by : Reporters]

(* Nothing, or one row.                                                   *)
AtMostOne(S, R) == S = {} \/ \E e \in R : S = {e}

Request == [proc : Graph!Process, tenant : Tenant, was : SUBSET Entry, entry : Entry,
            mulewas : SUBSET Mule, mule : SUBSET Mule]

GraphShape ==
    /\ proven \subseteq Tenant
    /\ memory \in [Graph!Process -> SUBSET Entry] /\ \A p \in Graph!Process : AtMostOne(memory[p],
           Entry)
    /\ AtMostOne(row, Entry)
    /\ AtMostOne(account, Mule)
    /\ graphWork \subseteq Request
    /\ \A w \in graphWork : /\ AtMostOne(w.was, Entry) /\ (w.was # {} => row # {})
                            /\ AtMostOne(w.mulewas, Mule) /\ (w.mulewas # {} => account # {})
                            /\ AtMostOne(w.mule, Mule)

(* An account is only named by tenants that have proven a domain.         *)
NamedByProven ==
    /\ \A a \in account : a.by \subseteq proven
    /\ \A w \in graphWork : \A a \in w.mule : a.by \subseteq proven

(* Every entry there is: counted or about to be written.                  *)
Askers == {a[1] : a \in graphAsked}
Backed(e) == e.by \subseteq Askers /\ (e.count >= 2 => Cardinality(Askers) >= 2)
AllBacked ==
    /\ IsFiniteSet(Askers)
    /\ \A p \in Graph!Process : \A e \in memory[p] : Backed(e)
    /\ \A e \in row : Backed(e)
    /\ \A w \in graphWork : Backed(w.entry)

(* While requests do not overlap, there is one at most, and nothing was   *)
(* written since it read the tables.                                      *)
Counted(e) == e.count = Cardinality(e.by)
OneAtATime ==
    "overlap" \notin graphOdd =>
        /\ \A w, x \in graphWork : w = x
        /\ \A w \in graphWork : /\ w.was = row /\ w.mulewas = account
                                /\ Counted(w.entry) /\ \A a \in w.mule : Counted(a)
        /\ \A p \in Graph!Process : \A e \in memory[p] : Counted(e)
        /\ \A e \in row : Counted(e)
        /\ \A a \in account : Counted(a)

(* ... and a request of a process that is up to date keeps all the names. *)
NamesKept ==
    graphOdd \cap {"overlap", "stale"} = {} =>
             /\ row = {} => kept = {}
             /\ account = {} => mulekept = {}
             /\ \A e \in row : kept \subseteq e.by
             /\ \A a \in account : mulekept \subseteq a.by
             /\ \A w \in graphWork :
                   /\ kept \cup {w.tenant} \subseteq w.entry.by
                   /\ \A a \in w.mule : mulekept \cup {w.tenant} \subseteq a.by

GraphInv == GraphShape /\ NamedByProven /\ AllBacked /\ OneAtATime /\ NamesKept

(* The one element of a singleton.                                        *)
LEMMA GraphTheOne == \A e : (CHOOSE x \in {e} : TRUE) = e
  OBVIOUS

(* At the start nothing is shared.                                        *)
LEMMA GraphStart == Graph!Init => GraphInv
<1> SUFFICES ASSUME Graph!Init PROVE GraphInv
  OBVIOUS
<1>1. Askers = {} /\ IsFiniteSet(Askers)
  BY FS_EmptySet DEF Graph!Init, Askers
<1> QED
  BY <1>1 DEF Graph!Init, GraphInv, GraphShape, AtMostOne, NamedByProven, AllBacked, OneAtATime,
     NamesKept

(* One more reporter.                                                     *)
LEMMA OneMore ==
    ASSUME NEW by \in Reporters, NEW t \in Tenant
    PROVE  /\ by \cup {t} \in Reporters
           /\ Cardinality(by) \in Nat
           /\ Cardinality(by \cup {t}) = Cardinality(by) + (IF t \in by THEN 0 ELSE 1)
  BY FS_AddElement, FS_CardinalityType DEF Reporters

(* A reporter alone is a set of one.                                      *)
LEMMA GraphJustOne ==
    ASSUME NEW t \in Tenant
    PROVE  {t} \in Reporters /\ Cardinality({t}) = 1
  BY FS_Singleton DEF Reporters

(* What a report makes of the entry in memory.                            *)
LEMMA JudgedIs ==
    ASSUME NEW old, AtMostOne(old, Entry), NEW t \in Tenant, NEW v \in Verdicts \cup {"fraudulent"}
    PROVE  /\ Graph!Judged(old, t, v) \in Entry
           /\ old = {} => Graph!Judged(old, t, v) = [verdict |-> v, count |-> 1, by |-> {t}]
           /\ \A e \in old : /\ Graph!Judged(old, t, v).by = e.by \cup {t}
                             /\ Graph!Judged(old, t, v).count = e.count + (IF t \in e.by
                                    THEN 0 ELSE 1)
<1>1. CASE old = {}
  BY <1>1, GraphJustOne DEF Graph!Judged, Entry
<1>2. ASSUME NEW e \in Entry, old = {e}
      PROVE  /\ Graph!Judged(old, t, v) = [verdict |-> IF v = "fraudulent" THEN v ELSE e.verdict,
                                           count |-> e.count + IF Graph!NewReporter(e.by, t)
                                           THEN 1 ELSE 0,
                                           by |-> e.by \cup {t}]
  BY <1>2, GraphTheOne DEF Graph!Judged
<1>3. ASSUME NEW e \in Entry, old = {e}
      PROVE  /\ Graph!Judged(old, t, v) \in Entry /\ Graph!Judged(old, t, v).by = e.by \cup {t}
             /\ Graph!Judged(old, t, v).count = e.count + (IF t \in e.by THEN 0 ELSE 1)
  <2>1. e.by \in Reporters /\ e.count \in Nat /\ e.verdict \in Verdicts \cup {"fraudulent"}
    BY DEF Entry
  <2>2. e.by \cup {t} \in Reporters
    BY <2>1, OneMore
  <2> DEFINE more == e.by \cup {t}
             verdict == IF v = "fraudulent" THEN v ELSE e.verdict
             count == e.count + IF Graph!NewReporter(e.by, t) THEN 1 ELSE 0
  <2>3. verdict \in Verdicts \cup {"fraudulent"} /\ count \in Nat
        /\ count = e.count + (IF t \in e.by THEN 0 ELSE 1)
    BY <2>1 DEF Graph!NewReporter
  <2>4. Graph!Judged(old, t, v) = [verdict |-> verdict, count |-> count, by |-> more]
    BY <1>2, <1>3
  <2>5. more \in Reporters
    BY <2>2
  <2> HIDE DEF more, verdict, count
  <2>6. Graph!Judged(old, t, v) \in Entry /\ Graph!Judged(old, t, v).by = more
            /\ Graph!Judged(old, t, v).count = count
    BY <2>3, <2>4, <2>5 DEF Entry
  <2> QED BY <2>3, <2>6 DEF more
<1> QED BY <1>1, <1>3 DEF AtMostOne

(* What a report makes of the fraud account.                              *)
LEMMA CorroboratedIs ==
    ASSUME NEW old, AtMostOne(old, Mule), NEW t \in Tenant
    PROVE  /\ Graph!Corroborated(old, t) \in Mule
           /\ Counted(Graph!Corroborated(old, t))
           /\ t \in Graph!Corroborated(old, t).by
           /\ old = {} => Graph!Corroborated(old, t).by = {t}
           /\ \A e \in old : Graph!Corroborated(old, t).by = e.by \cup {t}
<1>1. CASE old = {}
  BY <1>1, GraphJustOne DEF Graph!Corroborated, Mule, Counted
<1>2. ASSUME NEW e \in Mule, old = {e}
      PROVE  /\ Graph!Corroborated(old, t) = [count |-> Cardinality(e.by \cup {t}),
                    by |-> e.by \cup {t}]
  BY <1>2, GraphTheOne, GraphCounts DEF Graph!Corroborated
<1>3. ASSUME NEW e \in Mule, old = {e}
      PROVE  /\ Graph!Corroborated(old, t) \in Mule /\ Graph!Corroborated(old, t).by = e.by \cup {t}
             /\ Counted(Graph!Corroborated(old, t))
  <2>1. e.by \in Reporters
    BY DEF Mule
  <2>2. e.by \cup {t} \in Reporters /\ Cardinality(e.by \cup {t}) \in Nat
    BY <2>1, OneMore DEF Reporters
  <2> DEFINE more == e.by \cup {t}
  <2>3. Graph!Corroborated(old, t) = [count |-> Cardinality(more), by |-> more]
    BY <1>2, <1>3
  <2>4. more \in Reporters /\ Cardinality(more) \in Nat
    BY <2>2
  <2> HIDE DEF more
  <2>5. /\ Graph!Corroborated(old, t) \in Mule /\ Graph!Corroborated(old, t).by = more
        /\ Graph!Corroborated(old, t).count = Cardinality(more)
    BY <2>3, <2>4 DEF Mule
  <2> QED BY <2>5 DEF more, Counted
<1> QED BY <1>1, <1>3 DEF AtMostOne

(* A column is written as it was, or as it is to be; from the row that was*)
(* read, the whole entry is.                                              *)
LEMMA WrittenEntry ==
    ASSUME NEW was, AtMostOne(was, Entry), NEW new \in Entry, NEW now, AtMostOne(now, Entry),
           was # {} => now # {}
    PROVE  /\ Graph!Written(was, new, now) \in Entry
           /\ \/ Graph!Written(was, new, now).by = new.by
              \/ \E n \in now : Graph!Written(was, new, now).by = n.by
           /\ \/ Graph!Written(was, new, now).count = new.count
              \/ \E n \in now : Graph!Written(was, new, now).count = n.count
           /\ was = now => Graph!Written(was, new, now) = new
<1>1. CASE was = {}
  BY <1>1 DEF Graph!Written
<1>2. CASE was # {}
  <2>1. PICK o \in Entry, n \in Entry : was = {o} /\ now = {n}
    BY <1>2 DEF AtMostOne
  <2>2. DOMAIN new = {"verdict", "count", "by"}
    BY DEF Entry
  <2>3. Graph!Written(was, new, now) = [c \in DOMAIN new |-> IF new[c] = o[c] THEN n[c] ELSE new[c]]
    BY <1>2, <2>1, GraphTheOne DEF Graph!Written
  <2>4. Graph!Written(was, new, now) = [verdict |-> IF new.verdict = o.verdict THEN n.verdict
            ELSE new.verdict,
                                        count |-> IF new.count = o.count THEN n.count
                                        ELSE new.count,
                                        by |-> IF new.by = o.by THEN n.by ELSE new.by]
    BY <2>2, <2>3
  <2>5. was = now => Graph!Written(was, new, now) = new
    BY <2>1, <2>4 DEF Entry
  <2> QED BY <2>1, <2>4, <2>5 DEF Entry
<1> QED BY <1>1, <1>2

(* What is written of a fraud account is what the request read, or more.  *)
LEMMA WrittenMule ==
    ASSUME NEW was, AtMostOne(was, Mule), NEW new \in Mule, NEW now, AtMostOne(now, Mule),
           was # {} => now # {}
    PROVE  /\ Graph!Written(was, new, now) \in Mule
           /\ \/ Graph!Written(was, new, now).by = new.by
              \/ \E n \in now : Graph!Written(was, new, now).by = n.by
           /\ was = now => Graph!Written(was, new, now) = new
<1>1. CASE was = {}
  BY <1>1 DEF Graph!Written
<1>2. CASE was # {}
  <2>1. PICK o \in Mule, n \in Mule : was = {o} /\ now = {n}
    BY <1>2 DEF AtMostOne
  <2>2. DOMAIN new = {"count", "by"}
    BY DEF Mule
  <2>3. Graph!Written(was, new, now) = [c \in DOMAIN new |-> IF new[c] = o[c] THEN n[c] ELSE new[c]]
    BY <1>2, <2>1, GraphTheOne DEF Graph!Written
  <2>4. Graph!Written(was, new, now) = [count |-> IF new.count = o.count THEN n.count
            ELSE new.count,
                                        by |-> IF new.by = o.by THEN n.by ELSE new.by]
    BY <2>2, <2>3
  <2>5. was = now => Graph!Written(was, new, now) = new
    BY <2>1, <2>4 DEF Mule
  <2> QED BY <2>1, <2>4, <2>5 DEF Mule
<1> QED BY <1>1, <1>2

(* Somebody asked, and a second one does.                                 *)
LEMMA TwoAsk ==
    ASSUME NEW S, IsFiniteSet(S), NEW by \in Reporters, by \subseteq S, NEW t, t \notin by
    PROVE  Cardinality(S \cup {t}) >= 2
<1>1. PICK u \in by : TRUE
  BY DEF Reporters
<1>2. u # t /\ {u, t} \subseteq S \cup {t}
  OBVIOUS
<1>3. Cardinality({u, t}) = 2
  <2>1. {u, t} = {u} \cup {t} /\ t \notin {u}
    BY <1>2
  <2>2. IsFiniteSet({u}) /\ Cardinality({u}) = 1
    BY FS_Singleton
  <2>3. Cardinality({u} \cup {t}) = Cardinality({u}) + 1
    BY <2>1, <2>2, FS_AddElement
  <2> QED BY <2>1, <2>2, <2>3
<1>4. IsFiniteSet(S \cup {t})
  BY FS_AddElement
<1> QED BY <1>2, <1>3, <1>4, FS_Subset, FS_CardinalityType

(* A report reads what there is.                                          *)
LEMMA GraphBeginKeeps ==
    ASSUME GraphInv, NEW p \in Graph!Process, NEW t \in Tenant,
               NEW v \in Verdicts \cup {"fraudulent"},
           NEW mule \in BOOLEAN, mule => t \in proven, Graph!Begin(p, t, v, mule)
    PROVE  GraphInv'
<1> DEFINE j == Graph!Judged(memory[p], t, v)
           m == IF mule THEN {Graph!Corroborated(account, t)} ELSE {}
           new == [proc |-> p, tenant |-> t, was |-> row, entry |-> j, mulewas |-> account,
           mule |-> m]
<1>1. /\ memory' = [memory EXCEPT ![p] = {j}] /\ graphWork' = graphWork \cup {new}
      /\ UNCHANGED <<proven, row, account, kept, mulekept>>
      /\ graphAsked' = graphAsked \cup {<<t, v>>}
      /\ graphOdd' = graphOdd \cup (IF graphWork # {} THEN {"overlap"} ELSE {})
                              \cup (IF memory[p] # row THEN {"stale"} ELSE {})
  BY DEF Graph!Begin
<1>2. AtMostOne(memory[p], Entry) /\ AtMostOne(row, Entry) /\ AtMostOne(account, Mule)
  BY DEF GraphInv, GraphShape
<1>3. /\ j \in Entry
      /\ memory[p] = {} => j.by = {t} /\ j.count = 1
      /\ \A e \in memory[p] : j.by = e.by \cup {t} /\ j.count = e.count + (IF t \in e.by
             THEN 0 ELSE 1)
  BY <1>2, JudgedIs
<1>4. \A a \in m : /\ a \in Mule /\ Counted(a) /\ t \in a.by /\ mule
                   /\ account = {} => a.by = {t}
                   /\ \A e \in account : a.by = e.by \cup {t}
  BY <1>2, CorroboratedIs
<1>5. AtMostOne(m, Mule)
  BY <1>4 DEF AtMostOne
<1> HIDE DEF j, m
<1>6. new \in Request /\ new.was = row /\ new.mulewas = account /\ new.entry = j /\ new.mule = m
      /\ new.tenant = t
  BY <1>2, <1>3, <1>4 DEF Request, AtMostOne
<1> HIDE DEF new
<1>7. /\ memory' \in [Graph!Process -> SUBSET Entry] /\ memory'[p] = {j}
      /\ \A q \in Graph!Process : q # p => memory'[q] = memory[q]
  BY <1>1, <1>3 DEF GraphInv, GraphShape
<1>8. GraphShape'
  <2>1. \A q \in Graph!Process : AtMostOne(memory'[q], Entry)
    BY <1>3, <1>7 DEF AtMostOne, GraphInv, GraphShape
  <2>2. graphWork' \subseteq Request
    BY <1>1, <1>6 DEF GraphInv, GraphShape
  <2>3. \A w \in graphWork' : /\ AtMostOne(w.was, Entry) /\ (w.was # {} => row # {})
                              /\ AtMostOne(w.mulewas, Mule) /\ (w.mulewas # {} => account # {})
                              /\ AtMostOne(w.mule, Mule)
    BY <1>1, <1>2, <1>5, <1>6 DEF GraphInv, GraphShape
  <2> QED BY <1>1, <1>7, <2>1, <2>2, <2>3 DEF GraphInv, GraphShape
<1>9. NamedByProven'
  <2>1. \A a \in m : a.by \subseteq proven
    BY <1>2, <1>4 DEF GraphInv, NamedByProven, AtMostOne
  <2> QED BY <1>1, <1>6, <2>1 DEF GraphInv, NamedByProven
<1>10. AllBacked'
  <2>1. Askers' = Askers \cup {t}
    <3>1. <<t, v>>[1] = t
      OBVIOUS
    <3> QED BY <1>1, <3>1, Zenon DEF Askers
  <2>2. IsFiniteSet(Askers) /\ IsFiniteSet(Askers') /\ Cardinality(Askers) \in Nat
        /\ Cardinality(Askers') \in Nat /\ Cardinality(Askers) <= Cardinality(Askers')
    <3>1. IsFiniteSet(Askers)
      BY DEF GraphInv, AllBacked
    <3>2. /\ IsFiniteSet(Askers \cup {t}) /\ Cardinality(Askers) \in Nat
          /\ Cardinality(Askers \cup {t}) \in {Cardinality(Askers), Cardinality(Askers) + 1}
      BY <3>1, FS_AddElement, FS_CardinalityType
    <3> QED BY <2>1, <3>1, <3>2
  <2>3. ASSUME NEW e \in Entry, Backed(e) PROVE e.by \subseteq Askers' /\ (e.count >= 2 =>
                   Cardinality(Askers') >= 2)
    BY <2>1, <2>2, <2>3 DEF Backed, Entry
  <2>4. j.by \subseteq Askers' /\ (j.count >= 2 => Cardinality(Askers') >= 2)
    <3>1. CASE memory[p] = {}
      BY <1>3, <2>1, <3>1 DEF Backed
    <3>2. ASSUME NEW e \in memory[p] PROVE j.by \subseteq Askers' /\ (j.count >= 2 =>
                     Cardinality(Askers') >= 2)
      <4>1. e \in Entry /\ Backed(e) /\ e.by \in Reporters /\ e.count \in Nat
        BY <3>2 DEF GraphInv, GraphShape, AllBacked, Entry
      <4>2. t \notin e.by => Cardinality(Askers') >= 2
        BY <2>1, <2>2, <4>1, TwoAsk DEF Backed
      <4>3. j.by \subseteq Askers'
        BY <1>3, <2>1, <4>1 DEF Backed
      <4>4. j.count >= 2 => Cardinality(Askers') >= 2
        BY <1>3, <2>2, <4>1, <4>2 DEF Backed
      <4> QED BY <4>3, <4>4
    <3> QED BY <3>1, <3>2
  <2>5. \A q \in Graph!Process : \A e \in memory'[q] : Backed(e)'
    BY <1>7, <2>3, <2>4 DEF GraphInv, GraphShape, AllBacked, Backed
  <2>6. \A e \in row' : Backed(e)'
    BY <1>1, <1>2, <2>3 DEF GraphInv, AllBacked, AtMostOne, Backed
  <2>7. \A w \in graphWork' : Backed(w.entry)'
    BY <1>1, <1>6, <2>3, <2>4 DEF GraphInv, GraphShape, AllBacked, Request, Backed
  <2> QED BY <2>2, <2>5, <2>6, <2>7 DEF AllBacked
<1>11. Counted(j) \/ \E e \in memory[p] : ~Counted(e)
  <2>1. CASE memory[p] = {}
    BY <1>3, <2>1, GraphJustOne DEF Counted
  <2>2. ASSUME NEW e \in memory[p], Counted(e) PROVE Counted(j)
    <3>1. e.by \in Reporters
      BY <1>2, <2>2 DEF AtMostOne, Entry
    <3> QED BY <1>3, <2>2, <3>1, OneMore DEF Counted
  <2> QED BY <2>1, <2>2
<1>12. OneAtATime'
  <2> SUFFICES ASSUME "overlap" \notin graphOdd'
               PROVE  /\ \A w, x \in graphWork' : w = x
                      /\ \A w \in graphWork' : /\ w.was = row' /\ w.mulewas = account'
                                               /\ Counted(w.entry) /\ \A a \in w.mule : Counted(a)
                      /\ \A q \in Graph!Process : \A e \in memory'[q] : Counted(e)
                      /\ \A e \in row' : Counted(e)
                      /\ \A a \in account' : Counted(a)
    BY DEF OneAtATime, Counted
  <2>1. graphWork = {} /\ "overlap" \notin graphOdd
    BY <1>1
  <2>2. graphWork' = {new}
    BY <1>1, <2>1
  <2>3. Counted(j)
    BY <1>11, <2>1 DEF GraphInv, OneAtATime
  <2> QED BY <1>1, <1>4, <1>6, <1>7, <2>1, <2>2, <2>3 DEF GraphInv, OneAtATime
<1>13. NamesKept'
  <2> SUFFICES ASSUME graphOdd' \cap {"overlap", "stale"} = {}
               PROVE  /\ row' = {} => kept' = {}
                      /\ account' = {} => mulekept' = {}
                      /\ \A e \in row' : kept' \subseteq e.by
                      /\ \A a \in account' : mulekept' \subseteq a.by
                      /\ \A w \in graphWork' :
                            /\ kept' \cup {w.tenant} \subseteq w.entry.by
                            /\ \A a \in w.mule : mulekept' \cup {w.tenant} \subseteq a.by
    BY DEF NamesKept
  <2>1. graphWork' = {new} /\ memory[p] = row /\ graphOdd \cap {"overlap", "stale"} = {}
    BY <1>1
  <2>2. kept \cup {t} \subseteq j.by
    BY <1>2, <1>3, <2>1 DEF GraphInv, NamesKept, AtMostOne
  <2>3. \A a \in m : mulekept \cup {t} \subseteq a.by
    BY <1>2, <1>4, <2>1 DEF GraphInv, NamesKept, AtMostOne
  <2> QED BY <1>1, <1>6, <2>1, <2>2, <2>3 DEF GraphInv, NamesKept
<1> QED BY <1>8, <1>9, <1>10, <1>12, <1>13 DEF GraphInv

(* A report writes what it made of it.                                    *)
LEMMA GraphCommitKeeps ==
    ASSUME GraphInv, NEW w \in graphWork, Graph!Commit(w)
    PROVE  GraphInv'
<1> DEFINE r == Graph!Written(w.was, w.entry, row)
<1>1. /\ ~Graph!InsertFails(w) /\ graphWork' = graphWork \ {w} /\ row' = {r}
      /\ account' = IF w.mule = {} \/ w.mule = w.mulewas THEN account
                    ELSE {Graph!Written(w.mulewas, m, account) : m \in w.mule}
      /\ kept' = kept \cup {w.tenant}
      /\ mulekept' = (IF w.mule = {} THEN mulekept ELSE mulekept \cup {w.tenant})
      /\ UNCHANGED <<proven, memory, graphAsked, graphOdd>>
  BY DEF Graph!Commit
<1>2. /\ w \in Request /\ w.entry \in Entry /\ w.tenant \in Tenant
      /\ AtMostOne(w.was, Entry) /\ (w.was # {} => row # {})
      /\ AtMostOne(w.mulewas, Mule) /\ (w.mulewas # {} => account # {})
      /\ AtMostOne(w.mule, Mule)
      /\ AtMostOne(row, Entry) /\ AtMostOne(account, Mule)
  BY DEF GraphInv, GraphShape, Request
<1>3. /\ r \in Entry
      /\ r.by = w.entry.by \/ \E n \in row : r.by = n.by
      /\ r.count = w.entry.count \/ \E n \in row : r.count = n.count
      /\ w.was = row => r = w.entry
  BY <1>2, WrittenEntry
<1>4. /\ AtMostOne(account', Mule)
      /\ account # {} => account' # {}
      /\ \A a \in account' : /\ a \in account \/ (\E x \in w.mule : a.by = x.by)
                                              \/ (\E x \in account : a.by = x.by)
                             /\ w.mulewas = account => a \in account \/ a \in w.mule
      /\ w.mulewas = account /\ w.mule # {} => account' = w.mule
  <2>1. CASE w.mule = {} \/ w.mule = w.mulewas
    BY <1>1, <1>2, <2>1
  <2>2. CASE ~(w.mule = {} \/ w.mule = w.mulewas)
    <3>1. PICK x \in Mule : w.mule = {x}
      BY <1>2, <2>2 DEF AtMostOne
    <3>2. account' = {Graph!Written(w.mulewas, x, account)}
      BY <1>1, <2>2, <3>1
    <3>3. /\ Graph!Written(w.mulewas, x, account) \in Mule
          /\ \/ Graph!Written(w.mulewas, x, account).by = x.by
             \/ \E n \in account : Graph!Written(w.mulewas, x, account).by = n.by
          /\ w.mulewas = account => Graph!Written(w.mulewas, x, account) = x
      BY <1>2, WrittenMule
    <3> QED BY <3>1, <3>2, <3>3 DEF AtMostOne
  <2> QED BY <2>1, <2>2
<1> HIDE DEF r
<1>5. GraphShape'
  <2>1. AtMostOne(row', Entry) /\ row' # {}
    BY <1>1, <1>3 DEF AtMostOne
  <2>2. \A x \in graphWork' : /\ AtMostOne(x.was, Entry) /\ (x.was # {} => row' # {})
                              /\ AtMostOne(x.mulewas, Mule) /\ (x.mulewas # {} => account' # {})
                              /\ AtMostOne(x.mule, Mule)
    BY <1>1, <1>4, <2>1 DEF GraphInv, GraphShape
  <2> QED BY <1>1, <1>4, <2>1, <2>2 DEF GraphInv, GraphShape
<1>6. NamedByProven'
  <2>1. \A a \in account' : a.by \subseteq proven
    BY <1>4 DEF GraphInv, NamedByProven
  <2> QED BY <1>1, <2>1 DEF GraphInv, NamedByProven
<1>7. AllBacked'
  <2>1. Askers' = Askers
    BY <1>1 DEF Askers
  <2>2. Backed(r)
    BY <1>2, <1>3 DEF GraphInv, AllBacked, Backed
  <2> QED BY <1>1, <2>1, <2>2 DEF GraphInv, AllBacked, Backed
<1>8. OneAtATime'
  <2> SUFFICES ASSUME "overlap" \notin graphOdd'
               PROVE  /\ \A x, y \in graphWork' : x = y
                      /\ \A x \in graphWork' : /\ x.was = row' /\ x.mulewas = account'
                                               /\ Counted(x.entry) /\ \A a \in x.mule : Counted(a)
                      /\ \A q \in Graph!Process : \A e \in memory'[q] : Counted(e)
                      /\ \A e \in row' : Counted(e)
                      /\ \A a \in account' : Counted(a)
    BY DEF OneAtATime, Counted
  <2>1. /\ graphWork' = {} /\ w.was = row /\ w.mulewas = account /\ Counted(w.entry)
        /\ \A a \in w.mule : Counted(a)
        /\ \A a \in account : Counted(a)
    BY <1>1 DEF GraphInv, OneAtATime
  <2> QED BY <1>1, <1>3, <1>4, <2>1 DEF GraphInv, OneAtATime
<1>9. NamesKept'
  <2> SUFFICES ASSUME graphOdd' \cap {"overlap", "stale"} = {}
               PROVE  /\ row' = {} => kept' = {}
                      /\ account' = {} => mulekept' = {}
                      /\ \A e \in row' : kept' \subseteq e.by
                      /\ \A a \in account' : mulekept' \subseteq a.by
                      /\ \A x \in graphWork' :
                            /\ kept' \cup {x.tenant} \subseteq x.entry.by
                            /\ \A a \in x.mule : mulekept' \cup {x.tenant} \subseteq a.by
    BY DEF NamesKept
  <2>1. graphOdd \cap {"overlap", "stale"} = {} /\ graphWork' = {} /\ w.was = row /\ w.mulewas =
            account
    BY <1>1 DEF GraphInv, OneAtATime
  <2>2. /\ kept \cup {w.tenant} \subseteq w.entry.by
        /\ \A a \in w.mule : mulekept \cup {w.tenant} \subseteq a.by
        /\ \A a \in account : mulekept \subseteq a.by
        /\ account = {} => mulekept = {}
    BY <2>1 DEF GraphInv, NamesKept
  <2>3. row' = {w.entry}
    BY <1>1, <1>3, <2>1
  <2>4. w.mule = {} => account' = account /\ mulekept' = mulekept
    BY <1>1
  <2>5. w.mule # {} => account' = w.mule /\ mulekept' = mulekept \cup {w.tenant}
    BY <1>1, <1>4, <2>1
  <2> QED BY <1>1, <2>1, <2>2, <2>3, <2>4, <2>5
<1> QED BY <1>5, <1>6, <1>7, <1>8, <1>9 DEF GraphInv

(* A report that fails leaves its entry in the process only.              *)
LEMMA GraphFailKeeps ==
    ASSUME GraphInv, NEW w \in graphWork, Graph!Fail(w)
    PROVE  GraphInv'
<1>1. /\ graphWork' \subseteq graphWork /\ graphOdd \subseteq graphOdd'
      /\ "overlap" \in graphOdd' => "overlap" \in graphOdd
      /\ "stale" \in graphOdd' => "stale" \in graphOdd
      /\ UNCHANGED <<proven, memory, row, account, graphAsked, kept, mulekept>>
  BY DEF Graph!Fail
<1>2. Askers' = Askers
  BY <1>1 DEF Askers
<1>3. GraphShape' /\ NamedByProven'
  BY <1>1 DEF GraphInv, GraphShape, NamedByProven
<1>4. AllBacked'
  BY <1>1, <1>2 DEF GraphInv, AllBacked, Backed
<1>5. OneAtATime'
  BY <1>1 DEF GraphInv, OneAtATime, Counted
<1>6. NamesKept'
  BY <1>1 DEF GraphInv, NamesKept
<1> QED BY <1>3, <1>4, <1>5, <1>6 DEF GraphInv

(* A process takes over what is stored.                                   *)
LEMMA GraphHydrateKeeps ==
    ASSUME GraphInv, NEW p \in Graph!Process, Graph!Hydrate(p)
    PROVE  GraphInv'
<1>1. /\ memory' \in [Graph!Process -> SUBSET Entry]
      /\ \A q \in Graph!Process : memory'[q] = row \/ memory'[q] = memory[q]
      /\ UNCHANGED <<proven, row, account, graphWork, graphAsked, kept, mulekept, graphOdd>>
  BY DEF Graph!Hydrate, Graph!Hydrated, GraphInv, GraphShape, AtMostOne
<1>2. Askers' = Askers
  BY <1>1 DEF Askers
<1>3. GraphShape' /\ NamedByProven'
  BY <1>1 DEF GraphInv, GraphShape, NamedByProven
<1>4. AllBacked'
  BY <1>1, <1>2 DEF GraphInv, AllBacked, Backed
<1>5. OneAtATime'
  BY <1>1 DEF GraphInv, OneAtATime, Counted
<1>6. NamesKept'
  BY <1>1 DEF GraphInv, NamesKept
<1> QED BY <1>3, <1>4, <1>5, <1>6 DEF GraphInv

(* Every step keeps the invariant.                                        *)
LEMMA GraphStep == GraphInv /\ [Graph!Next]_(Graph!vars) => GraphInv'
<1> SUFFICES ASSUME GraphInv, [Graph!Next]_(Graph!vars) PROVE GraphInv'
  OBVIOUS
<1>1. CASE \E t \in Tenant, p \in Api : Graph!ResolveFraud(p, t) \/ Graph!ReportLookalike(p, t)
  BY <1>1, GraphBeginKeeps DEF Graph!ResolveFraud, Graph!ReportLookalike, Graph!MayFeed,
     Graph!Process
<1>2. CASE \E w \in graphWork : Graph!Commit(w) \/ Graph!Fail(w)
  BY <1>2, GraphCommitKeeps, GraphFailKeeps
<1>3. CASE \E p \in Graph!Process : Graph!Hydrate(p)
  BY <1>3, GraphHydrateKeeps
<1>4. CASE UNCHANGED Graph!vars
  BY <1>4 DEF Graph!vars, GraphInv, GraphShape, NamedByProven, AllBacked, Askers, Backed,
     OneAtATime,
              Counted, NamesKept
<1> QED BY <1>1, <1>2, <1>3, <1>4 DEF Graph!Next

(* The invariant says what was promised.                                  *)
LEMMA GraphInvImplies ==
    GraphInv => Graph!TypeOK /\ Graph!TwoCustomersAgree /\ Graph!CountIsReporters
    /\ Graph!ReportsKept
<1> SUFFICES ASSUME GraphInv
             PROVE  Graph!TypeOK /\ Graph!TwoCustomersAgree /\ Graph!CountIsReporters
                        /\ Graph!ReportsKept
  OBVIOUS
<1>1. \A S, R : AtMostOne(S, R) => Cardinality(S) <= 1
  <2> SUFFICES ASSUME NEW S, NEW R, AtMostOne(S, R) PROVE Cardinality(S) <= 1
    OBVIOUS
  <2>1. CASE S = {}
    BY <2>1, FS_EmptySet
  <2>2. ASSUME NEW e \in R, S = {e} PROVE Cardinality(S) <= 1
    BY <2>2, FS_Singleton
  <2> QED BY <2>1, <2>2 DEF AtMostOne
<1>2. Graph!TypeOK
  BY <1>1, GraphCounts DEF Graph!TypeOK, GraphInv, GraphShape, NamedByProven
<1>3. Graph!TwoCustomersAgree
  BY GraphCounts DEF Graph!TwoCustomersAgree, Graph!Actionable, GraphInv, AllBacked, Backed, Askers
<1>4. Graph!CountIsReporters
  BY GraphCounts DEF Graph!CountIsReporters, GraphInv, OneAtATime, Counted
<1>5. Graph!ReportsKept
  BY DEF Graph!ReportsKept, GraphInv, NamesKept
<1> QED BY <1>2, <1>3, <1>4, <1>5

-----------------------------------------------------------------------------
(* Payment verification: texts and answers                                *)

Status == {"none", "pending", "confirmed", "denied", "expired"}
AlertState == {"open", "acked", "resolved", "dismissed"}

VerificationShape ==
    /\ today \in Nat /\ verAsked \in 0..MaxTexts
    /\ verAlert \in AlertState
    /\ texts \in [Verified!Text -> [day : Nat, status : Status]]
    /\ sending \subseteq [n : Verified!Text, day : Nat]
    /\ answering \subseteq [n : Verified!Text, yes : BOOLEAN, state : AlertState]
    /\ accepted \subseteq Verified!Text \X BOOLEAN
    /\ marked \in BOOLEAN /\ shut \in BOOLEAN

(* Texts are numbered as they are asked for; one that is being sent is not*)
(* on record yet.                                                         *)
Numbered ==
    /\ \A n \in Verified!Text : texts[n].status # "none" => n <= verAsked
    /\ \A s \in sending : s.n <= verAsked /\ texts[s.n].status = "none"
    /\ \A s, u \in sending : s.n = u.n => s = u

(* The texts of a day; while requests do not overlap, the one being sent  *)
(* still fits in its day.                                                 *)
OfDay(d) == {n \in Verified!Text : texts[n].status # "none" /\ texts[n].day = d}
FitTheDay ==
    "overlap" \notin verOdd =>
        /\ \A s, u \in sending : s = u
        /\ \A s \in sending : Cardinality(OfDay(s.day)) < PerDay
        /\ \A d \in Nat : Cardinality(OfDay(d)) <= PerDay

(* An answer under way is to a text on record that has none yet, and what *)
(* is on record is what was answered.                                     *)
AnswersOnRecord ==
    /\ \A a \in answering : texts[a.n].status # "none"
    /\ "answered twice" \notin verOdd =>
          /\ \A a, b \in answering : a.n = b.n => a = b
          /\ \A a \in answering : texts[a.n].status \in {"pending", "expired"}
          /\ \A n \in Verified!Text, yes \in BOOLEAN :
                <<n, yes>> \in accepted =>
                    texts[n].status = IF yes THEN "confirmed" ELSE "denied"
          /\ \A n \in Verified!Text : texts[n].status = "denied" => <<n, FALSE>> \in accepted

(* What people and answers did to the alert is remembered.                *)
ClosedForAReason ==
    /\ verAlert = "resolved" => marked
    /\ verAlert = "dismissed" => shut
    /\ \A a \in answering : /\ a.state = "resolved" => marked
                            /\ a.state = "dismissed" => shut
    /\ verAlert = "dismissed" /\ "beside" \notin verOdd =>
          \A a \in answering : ~Verified!Applies(a.state)
    /\ Verified!DenialCounts

VerificationInv ==
    VerificationShape /\ Numbered /\ FitTheDay /\ AnswersOnRecord /\ ClosedForAReason

(* A pair is its two parts.                                               *)
LEMMA TextPairParts ==
    ASSUME NEW S, NEW T
    PROVE  \A c \in S \X T : c = <<c[1], c[2]>> /\ c[1] \in S /\ c[2] \in T
<1> SUFFICES ASSUME NEW c \in S \X T PROVE c = <<c[1], c[2]>> /\ c[1] \in S /\ c[2] \in T
  OBVIOUS
<1>1. PICK x \in S, y \in T : c = <<x, y>>
  OBVIOUS
<1> QED BY <1>1

(* A day has finitely many texts.                                         *)
LEMMA DayIsFinite == \A d : IsFiniteSet(OfDay(d)) /\ Cardinality(OfDay(d)) \in Nat
<1> SUFFICES ASSUME NEW d PROVE IsFiniteSet(OfDay(d)) /\ Cardinality(OfDay(d)) \in Nat
  OBVIOUS
<1>1. 1 \in Int /\ MaxTexts \in Int
  BY VerificationBounds
<1>2. IsFiniteSet(Verified!Text)
  BY <1>1, FS_Interval DEF Verified!Text
<1>3. OfDay(d) \subseteq Verified!Text
  BY DEF OfDay
<1> QED BY <1>2, <1>3, FS_Subset, FS_CardinalityType

(* At the start nothing was asked.                                        *)
(* The instance counts as this module does.                               *)
LEMMA VerifiedCounts == \A S : Verified!Cardinality(S) = Cardinality(S)
  BY DEF Verified!Cardinality, Cardinality

LEMMA VerificationStart == Verified!Init => VerificationInv
<1> SUFFICES ASSUME Verified!Init PROVE VerificationInv
  OBVIOUS
<1>1. VerificationShape
  <2>1. Verified!None \in [day : Nat, status : Status]
    BY DEF Verified!None, Status
  <2>2. texts \in [Verified!Text -> [day : Nat, status : Status]]
    BY <2>1 DEF Verified!Init
  <2>3. today \in Nat /\ verAsked \in 0..MaxTexts /\ verAlert \in AlertState
    BY VerificationBounds DEF Verified!Init, AlertState
  <2>4. /\ sending \subseteq [n : Verified!Text, day : Nat]
        /\ answering \subseteq [n : Verified!Text, yes : BOOLEAN, state : AlertState]
        /\ accepted \subseteq Verified!Text \X BOOLEAN /\ marked \in BOOLEAN /\ shut \in BOOLEAN
    BY DEF Verified!Init
  <2> QED BY <2>2, <2>3, <2>4 DEF VerificationShape
<1>2. Numbered /\ AnswersOnRecord /\ ClosedForAReason
  BY DEF Verified!Init, Numbered, AnswersOnRecord, ClosedForAReason, Verified!DenialCounts,
     Verified!None
<1>3. FitTheDay
  <2>1. \A d : OfDay(d) = {}
    BY DEF Verified!Init, OfDay, Verified!None
  <2> QED BY <2>1, FS_EmptySet, VerificationBounds DEF Verified!Init, FitTheDay
<1> QED BY <1>1, <1>2, <1>3 DEF VerificationInv

(* Steps that leave the texts and their sending alone.                    *)
LEMMA TextsAlone ==
    ASSUME VerificationInv, UNCHANGED <<texts, verAsked, sending>>,
           "overlap" \in verOdd' <=> "overlap" \in verOdd
    PROVE  Numbered' /\ FitTheDay'
<1>1. \A d : OfDay(d)' = OfDay(d)
  BY DEF OfDay
<1> QED BY <1>1 DEF VerificationInv, Numbered, FitTheDay

(* Steps that leave the answers alone.                                    *)
LEMMA AnswersAlone ==
    ASSUME VerificationInv, UNCHANGED <<texts, answering, accepted>>,
           "answered twice" \in verOdd' <=> "answered twice" \in verOdd
    PROVE  AnswersOnRecord'
  BY DEF VerificationInv, AnswersOnRecord

(* A day passes.                                                          *)
LEMMA TextDayKeeps == VerificationInv /\ Verified!Day => VerificationInv'
<1> SUFFICES ASSUME VerificationInv, Verified!Day PROVE VerificationInv'
  OBVIOUS
<1>1. Numbered' /\ FitTheDay' /\ AnswersOnRecord'
  BY TextsAlone, AnswersAlone DEF Verified!Day
<1>2. VerificationShape' /\ ClosedForAReason'
  BY DEF Verified!Day, VerificationInv, VerificationShape, ClosedForAReason, Verified!DenialCounts
<1> QED BY <1>1, <1>2 DEF VerificationInv

(* Somebody resolves or dismisses the alert.                              *)
LEMMA TextResolvesKeeps ==
    ASSUME VerificationInv, NEW d \in BOOLEAN, Verified!PersonResolves(d)
    PROVE  VerificationInv'
<1>1. Numbered' /\ FitTheDay' /\ AnswersOnRecord'
  BY TextsAlone, AnswersAlone DEF Verified!PersonResolves
<1>2. VerificationShape'
  BY DEF Verified!PersonResolves, Verified!Resolve, VerificationInv, VerificationShape, AlertState
<1>3. ClosedForAReason'
  BY DEF Verified!PersonResolves, Verified!Resolve, VerificationInv, VerificationShape,
     ClosedForAReason, Verified!DenialCounts
<1> QED BY <1>1, <1>2, <1>3 DEF VerificationInv

(* Somebody acknowledges it.                                              *)
LEMMA TextAcknowledgesKeeps == VerificationInv /\ Verified!PersonAcknowledges => VerificationInv'
<1> SUFFICES ASSUME VerificationInv, Verified!PersonAcknowledges PROVE VerificationInv'
  OBVIOUS
<1>1. Numbered' /\ FitTheDay' /\ AnswersOnRecord'
  BY TextsAlone, AnswersAlone DEF Verified!PersonAcknowledges
<1>2. VerificationShape' /\ ClosedForAReason'
  BY DEF Verified!PersonAcknowledges, VerificationInv, VerificationShape, ClosedForAReason,
     Verified!DenialCounts,
         AlertState
<1> QED BY <1>1, <1>2 DEF VerificationInv

(* Somebody marks it after a call.                                        *)
LEMMA TextCallKeeps ==
    ASSUME VerificationInv, NEW o, Verified!RecordCall(o)
    PROVE  VerificationInv'
<1>1. Numbered' /\ FitTheDay' /\ AnswersOnRecord'
  BY TextsAlone, AnswersAlone DEF Verified!RecordCall
<1>2. \/ UNCHANGED <<verAlert, marked>>
      \/ verAlert' = "resolved" /\ marked'
  BY DEF Verified!RecordCall, Verified!Apply, Verified!Resolve
<1>3. VerificationShape' /\ ClosedForAReason'
  BY <1>2 DEF Verified!RecordCall, Verified!Apply, Verified!Resolve, VerificationInv,
     VerificationShape, ClosedForAReason,
              Verified!DenialCounts, AlertState
<1> QED BY <1>1, <1>3 DEF VerificationInv

(* A text is asked for, within the daily count.                           *)
LEMMA TextAskKeeps == VerificationInv /\ Verified!AskText => VerificationInv'
<1> SUFFICES ASSUME VerificationInv, Verified!AskText PROVE VerificationInv'
  OBVIOUS
<1> DEFINE new == [n |-> verAsked + 1, day |-> today]
<1>1. AnswersOnRecord'
  BY AnswersAlone DEF Verified!AskText
<1>2. new \in [n : Verified!Text, day : Nat] /\ new.n = verAsked + 1 /\ new.day = today
          /\ verAsked' \in 0..MaxTexts
  BY VerificationBounds DEF Verified!AskText, VerificationInv, VerificationShape, Verified!Text
<1> HIDE DEF new
<1>3. /\ sending' = sending \cup {new} /\ verAsked' = verAsked + 1 /\ texts' = texts
      /\ Cardinality(OfDay(today)) < PerDay
      /\ verOdd' = IF sending # {} THEN verOdd \cup {"overlap"} ELSE verOdd
  BY VerifiedCounts DEF Verified!AskText, new, Verified!Todays, OfDay
<1>4. VerificationShape'
  BY <1>2, <1>3 DEF Verified!AskText, VerificationInv, VerificationShape
<1>5. Numbered'
  <2>1. verAsked + 1 \in Verified!Text /\ verAsked \in Nat
    BY <1>2 DEF VerificationInv, VerificationShape
  <2>2. texts[verAsked + 1].status = "none"
    BY <2>1 DEF VerificationInv, Numbered
  <2>3. \A s \in sending : s.n \in Nat /\ s.n <= verAsked
    BY DEF VerificationInv, VerificationShape, Numbered, Verified!Text
  <2>4. \A n \in Verified!Text : texts[n].status # "none" => n <= verAsked + 1
    BY <2>1 DEF VerificationInv, Numbered, Verified!Text
  <2> QED BY <1>2, <1>3, <2>1, <2>2, <2>3, <2>4 DEF VerificationInv, Numbered
<1>6. FitTheDay'
  <2>1. \A d : OfDay(d)' = OfDay(d)
    BY <1>3 DEF OfDay
  <2> QED BY <1>2, <1>3, <2>1 DEF VerificationInv, FitTheDay
<1>7. ClosedForAReason'
  BY DEF Verified!AskText, VerificationInv, ClosedForAReason, Verified!DenialCounts
<1> QED BY <1>1, <1>4, <1>5, <1>6, <1>7 DEF VerificationInv

(* A text that was sent is recorded with its day.                         *)
LEMMA TextSentKeeps ==
    ASSUME VerificationInv, NEW s \in sending, Verified!Sent(s)
    PROVE  VerificationInv'
<1>1. /\ s.n \in Verified!Text /\ s.day \in Nat
      /\ texts' = [texts EXCEPT ![s.n] = [day |-> s.day, status |-> "pending"]]
      /\ sending' = sending \ {s}
      /\ UNCHANGED <<verAsked, answering, accepted, verAlert, marked, shut, verOdd, today>>
  BY DEF Verified!Sent, VerificationInv, VerificationShape
<1>2. texts' \in [Verified!Text -> [day : Nat, status : Status]]
  <2>1. [day |-> s.day, status |-> "pending"] \in [day : Nat, status : Status]
    BY <1>1 DEF Status
  <2> QED BY <1>1, <2>1 DEF VerificationInv, VerificationShape
<1>3. /\ texts'[s.n].status = "pending" /\ texts'[s.n].day = s.day
      /\ \A n \in Verified!Text : n # s.n => texts'[n] = texts[n]
      /\ texts[s.n].status = "none" /\ s.n <= verAsked
  BY <1>1 DEF VerificationInv, VerificationShape, Numbered
<1>4. VerificationShape'
  BY <1>1, <1>2 DEF VerificationInv, VerificationShape
<1>5. Numbered'
  BY <1>1, <1>3 DEF VerificationInv, VerificationShape, Numbered
<1>6. FitTheDay'
  <2>1. OfDay(s.day)' = OfDay(s.day) \cup {s.n} /\ s.n \notin OfDay(s.day)
    BY <1>1, <1>3 DEF OfDay
  <2>2. \A d : d # s.day => OfDay(d)' = OfDay(d)
    BY <1>3 DEF OfDay
  <2>3. Cardinality(OfDay(s.day) \cup {s.n}) = Cardinality(OfDay(s.day)) + 1
    BY <2>1, DayIsFinite, FS_AddElement
  <2>4. ASSUME "overlap" \notin verOdd
        PROVE  sending' = {} /\ Cardinality(OfDay(s.day)') <= PerDay
    <3>1. sending' = {} /\ Cardinality(OfDay(s.day)) < PerDay
      BY <1>1, <2>4 DEF VerificationInv, FitTheDay
    <3> QED BY <2>1, <2>3, <3>1, DayIsFinite, VerificationBounds
  <2>5. ASSUME "overlap" \notin verOdd, NEW d \in Nat
        PROVE  Cardinality(OfDay(d)') <= PerDay
    BY <2>2, <2>4, <2>5 DEF VerificationInv, FitTheDay
  <2> QED BY <1>1, <2>4, <2>5 DEF FitTheDay
<1>7. AnswersOnRecord'
  <2>1. \A a \in answering : a.n # s.n /\ a.n \in Verified!Text
    BY <1>3 DEF VerificationInv, VerificationShape, AnswersOnRecord
  <2>2. "answered twice" \notin verOdd => \A yes \in BOOLEAN : <<s.n, yes>> \notin accepted
    BY <1>1, <1>3 DEF VerificationInv, AnswersOnRecord
  <2> QED BY <1>1, <1>3, <2>1, <2>2 DEF VerificationInv, AnswersOnRecord
<1>8. ClosedForAReason'
  BY <1>1 DEF VerificationInv, ClosedForAReason, Verified!DenialCounts
<1> QED BY <1>4, <1>5, <1>6, <1>7, <1>8 DEF VerificationInv

(* A text that was not sent is forgotten.                                 *)
LEMMA TextSendFailsKeeps ==
    ASSUME VerificationInv, NEW s \in sending, Verified!SendFails(s)
    PROVE  VerificationInv'
<1>1. /\ sending' \subseteq sending
      /\ UNCHANGED <<texts, verAsked, answering, accepted, verAlert, marked, shut, verOdd, today>>
  BY DEF Verified!SendFails
<1>2. FitTheDay'
  <2>1. \A d : OfDay(d)' = OfDay(d)
    BY <1>1 DEF OfDay
  <2> QED BY <1>1, <2>1 DEF VerificationInv, FitTheDay
<1>3. AnswersOnRecord'
  BY <1>1, AnswersAlone
<1>4. VerificationShape' /\ Numbered' /\ ClosedForAReason'
  BY <1>1 DEF VerificationInv, VerificationShape, Numbered, ClosedForAReason, Verified!DenialCounts
<1> QED BY <1>2, <1>3, <1>4 DEF VerificationInv

(* A supplier begins to answer a text that is open.                       *)
LEMMA TextStartKeeps ==
    ASSUME VerificationInv, NEW n \in Verified!Text, NEW yes \in BOOLEAN, Verified!AnswerStart(n,
               yes)
    PROVE  VerificationInv'
<1> DEFINE new == [n |-> n, yes |-> yes, state |-> verAlert]
<1>1. new \in [n : Verified!Text, yes : BOOLEAN, state : AlertState] /\ new.n = n /\ new.state =
          verAlert
  BY DEF VerificationInv, VerificationShape
<1> HIDE DEF new
<1>2. /\ answering' = answering \cup {new} /\ texts[n].status = "pending"
      /\ verOdd' = IF \E a \in answering : a.n = n THEN verOdd \cup {"answered twice"} ELSE verOdd
      /\ UNCHANGED <<texts, verAsked, sending, accepted, verAlert, marked, shut, today>>
  BY DEF Verified!AnswerStart, Verified!Taken, new
<1>3. Numbered' /\ FitTheDay'
  BY <1>2, TextsAlone
<1>4. VerificationShape'
  BY <1>1, <1>2 DEF VerificationInv, VerificationShape
<1>5. AnswersOnRecord'
  BY <1>1, <1>2 DEF VerificationInv, AnswersOnRecord
<1>6. ClosedForAReason'
  BY <1>1, <1>2 DEF VerificationInv, ClosedForAReason, Verified!DenialCounts, Verified!Applies
<1> QED BY <1>3, <1>4, <1>5, <1>6 DEF VerificationInv

(* A text that changes its status, but stays on record.                   *)
LEMMA OnRecordStays ==
    ASSUME VerificationInv, NEW n \in Verified!Text, NEW status \in Status \ {"none"},
           texts[n].status # "none", texts' = [texts EXCEPT ![n].status = status],
           UNCHANGED <<verAsked, sending, verOdd>>
    PROVE  /\ texts' \in [Verified!Text -> [day : Nat, status : Status]] /\ texts'[n].status =
                  status
           /\ \A m \in Verified!Text : m # n => texts'[m] = texts[m]
           /\ Numbered' /\ FitTheDay'
<1>1. /\ texts' \in [Verified!Text -> [day : Nat, status : Status]]
      /\ texts'[n].status = status /\ texts'[n].day = texts[n].day
      /\ \A m \in Verified!Text : m # n => texts'[m] = texts[m]
  BY DEF VerificationInv, VerificationShape
<1>2. \A d : OfDay(d)' = OfDay(d)
  BY <1>1 DEF OfDay
<1>3. FitTheDay'
  BY <1>2 DEF VerificationInv, FitTheDay
<1>4. \A m \in Verified!Text : (texts'[m].status = "none") = (texts[m].status = "none")
  BY <1>1
<1>5. Numbered'
  BY <1>4 DEF VerificationInv, VerificationShape, Numbered
<1> QED BY <1>1, <1>3, <1>5

(* An answer after the text's time closes it as expired.                  *)
LEMMA TextLateKeeps ==
    ASSUME VerificationInv, NEW n \in Verified!Text, Verified!AnswerLate(n)
    PROVE  VerificationInv'
<1>1. /\ texts[n].status = "pending" /\ texts' = [texts EXCEPT ![n].status = "expired"]
      /\ UNCHANGED <<verAsked, sending, verOdd, answering, accepted, verAlert, marked, shut, today>>
  BY DEF Verified!AnswerLate
<1>2. /\ texts' \in [Verified!Text -> [day : Nat, status : Status]] /\ texts'[n].status = "expired"
      /\ \A m \in Verified!Text : m # n => texts'[m] = texts[m]
      /\ Numbered' /\ FitTheDay'
  BY <1>1, OnRecordStays DEF Status
<1>3. VerificationShape' /\ ClosedForAReason'
  BY <1>1, <1>2 DEF VerificationInv, VerificationShape, ClosedForAReason, Verified!DenialCounts
<1>4. AnswersOnRecord'
  BY <1>1, <1>2 DEF VerificationInv, VerificationShape, AnswersOnRecord
<1> QED BY <1>2, <1>3, <1>4 DEF VerificationInv

(* An answer is written, unless another one was first.                    *)
LEMMA TextEndKeeps ==
    ASSUME VerificationInv, NEW a \in answering, Verified!AnswerEnd(a)
    PROVE  VerificationInv'
<1> DEFINE status == IF a.yes THEN "confirmed" ELSE "denied"
<1>1. /\ a.n \in Verified!Text /\ a.yes \in BOOLEAN /\ a.state \in AlertState
      /\ texts[a.n].status # "none" /\ status \in Status \ {"none"}
      /\ texts' = [texts EXCEPT ![a.n].status = status]
      /\ answering' = answering \ {a} /\ accepted' = accepted \cup {<<a.n, a.yes>>}
      /\ UNCHANGED <<verAsked, sending, verOdd, shut, today>>
  BY DEF Verified!AnswerEnd, VerificationInv, VerificationShape, AnswersOnRecord, Status
<1>2. /\ texts' \in [Verified!Text -> [day : Nat, status : Status]] /\ texts'[a.n].status = status
      /\ \A m \in Verified!Text : m # a.n => texts'[m] = texts[m]
      /\ Numbered' /\ FitTheDay'
  BY <1>1, OnRecordStays
<1>3. /\ ~a.yes /\ Verified!Applies(a.state) => verAlert' = "resolved" /\ marked'
      /\ a.yes \/ ~Verified!Applies(a.state) => UNCHANGED <<verAlert, marked>>
  BY DEF Verified!AnswerEnd, Verified!Apply, Verified!Resolve
<1>4. VerificationShape'
  <2>1. accepted' \subseteq Verified!Text \X BOOLEAN
    <3>1. <<a.n, a.yes>> \in Verified!Text \X BOOLEAN
      BY <1>1
    <3> QED BY <1>1, <3>1 DEF VerificationInv, VerificationShape
  <2>2. verAlert' \in AlertState /\ marked' \in BOOLEAN
    <3>1. verAlert \in AlertState /\ marked \in BOOLEAN /\ "resolved" \in AlertState
      BY DEF VerificationInv, VerificationShape, AlertState
    <3>2. \/ verAlert' = "resolved" /\ marked' \in BOOLEAN
          \/ UNCHANGED <<verAlert, marked>>
      BY DEF Verified!AnswerEnd, Verified!Apply, Verified!Resolve
    <3> QED BY <3>1, <3>2
  <2>3. answering' \subseteq [n : Verified!Text, yes : BOOLEAN, state : AlertState]
    BY <1>1 DEF VerificationInv, VerificationShape
  <2> QED BY <1>1, <1>2, <2>1, <2>2, <2>3 DEF VerificationInv, VerificationShape
<1>5. AnswersOnRecord'
  <2>1. \A b \in answering' : texts'[b.n].status # "none"
    BY <1>1, <1>2 DEF VerificationInv, VerificationShape, AnswersOnRecord
  <2>2. ASSUME "answered twice" \notin verOdd
        PROVE  /\ \A b, c \in answering' : b.n = c.n => b = c
               /\ \A b \in answering' : texts'[b.n].status \in {"pending", "expired"}
               /\ \A n \in Verified!Text, yes \in BOOLEAN :
                     <<n, yes>> \in accepted' =>
                         texts'[n].status = IF yes THEN "confirmed" ELSE "denied"
               /\ \A n \in Verified!Text : texts'[n].status = "denied" => <<n, FALSE>> \in accepted'
    <3>1. \A b \in answering' : b.n # a.n /\ b \in answering /\ b.n \in Verified!Text
      BY <1>1, <2>2 DEF VerificationInv, VerificationShape, AnswersOnRecord
    <3>2. \A yes \in BOOLEAN : <<a.n, yes>> \notin accepted
      BY <1>1, <2>2 DEF VerificationInv, AnswersOnRecord
    <3>3. ASSUME NEW n \in Verified!Text, NEW yes \in BOOLEAN, <<n, yes>> \in accepted'
          PROVE  texts'[n].status = IF yes THEN "confirmed" ELSE "denied"
      <4>1. CASE <<n, yes>> \in accepted
        BY <1>2, <2>2, <3>2, <4>1 DEF VerificationInv, AnswersOnRecord
      <4>2. CASE n = a.n /\ yes = a.yes
        BY <1>2, <4>2
      <4> QED BY <1>1, <3>3, <4>1, <4>2
    <3>4. ASSUME NEW n \in Verified!Text, texts'[n].status = "denied" PROVE <<n,
                     FALSE>> \in accepted'
      <4>1. CASE n = a.n
        BY <1>1, <1>2, <3>4, <4>1
      <4>2. CASE n # a.n
        BY <1>1, <1>2, <2>2, <3>4, <4>2 DEF VerificationInv, AnswersOnRecord
      <4> QED BY <4>1, <4>2
    <3>5. /\ \A b, c \in answering' : b.n = c.n => b = c
          /\ \A b \in answering' : texts'[b.n].status \in {"pending", "expired"}
      BY <1>2, <2>2, <3>1 DEF VerificationInv, AnswersOnRecord
    <3> QED BY <3>3, <3>4, <3>5
  <2> QED BY <1>1, <2>1, <2>2 DEF AnswersOnRecord
<1>6. ClosedForAReason'
  <2>1. marked => marked'
    BY <1>3
  <2>2. ~a.yes => marked' \/ shut
    BY <1>1, <1>3 DEF VerificationInv, ClosedForAReason, Verified!Applies
  <2>3. Verified!DenialCounts'
    <3>1. <<a.n, a.yes>>[2] = a.yes
      OBVIOUS
    <3> QED BY <1>1, <2>1, <2>2, <3>1 DEF VerificationInv, ClosedForAReason, Verified!DenialCounts
  <2> QED BY <1>1, <1>3, <2>1, <2>3 DEF VerificationInv, ClosedForAReason
<1> QED BY <1>2, <1>4, <1>5, <1>6 DEF VerificationInv

(* Every step keeps the invariant.                                        *)
LEMMA VerificationStep == VerificationInv /\ [Verified!Next]_(Verified!vars) => VerificationInv'
<1> SUFFICES ASSUME VerificationInv, [Verified!Next]_(Verified!vars) PROVE VerificationInv'
  OBVIOUS
<1>1. CASE Verified!Day \/ Verified!AskText \/ Verified!PersonAcknowledges
  BY <1>1, TextDayKeeps, TextAskKeeps, TextAcknowledgesKeeps
<1>2. CASE \E d \in BOOLEAN : Verified!PersonResolves(d)
  BY <1>2, TextResolvesKeeps
<1>3. CASE \E o \in {"confirmed", "denied", "no_answer"} : Verified!RecordCall(o)
  BY <1>3, TextCallKeeps
<1>4. CASE \E s \in sending : Verified!Sent(s) \/ Verified!SendFails(s)
  BY <1>4, TextSentKeeps, TextSendFailsKeeps
<1>5. CASE \E n \in Verified!Text : Verified!AnswerLate(n)
               \/ \E yes \in BOOLEAN : Verified!AnswerStart(n, yes)
  BY <1>5, TextLateKeeps, TextStartKeeps
<1>6. CASE \E a \in answering : Verified!AnswerEnd(a)
  BY <1>6, TextEndKeeps
<1>7. CASE UNCHANGED Verified!vars
  <2>1. Numbered' /\ FitTheDay' /\ AnswersOnRecord'
    BY <1>7, TextsAlone, AnswersAlone DEF Verified!vars
  <2>2. VerificationShape' /\ ClosedForAReason'
    BY <1>7 DEF Verified!vars, VerificationInv, VerificationShape, ClosedForAReason,
       Verified!DenialCounts
  <2> QED BY <2>1, <2>2 DEF VerificationInv
<1> QED BY <1>1, <1>2, <1>3, <1>4, <1>5, <1>6, <1>7 DEF Verified!Next

(* The invariant says what was promised.                                  *)
LEMMA VerificationInvImplies == VerificationInv => Verified!TypeOK /\ Verified!OneAnswer
    /\ Verified!DenialCounts
<1> SUFFICES ASSUME VerificationInv PROVE Verified!TypeOK /\ Verified!OneAnswer
                        /\ Verified!DenialCounts
  OBVIOUS
<1>1. Verified!TypeOK
  <2>1. "overlap" \notin verOdd => \A d \in 0..MaxDays : Cardinality(OfDay(d)) <= PerDay
    BY VerificationBounds DEF VerificationInv, FitTheDay
  <2> QED BY <2>1, VerifiedCounts DEF VerificationInv, VerificationShape, Verified!TypeOK, OfDay,
                 Status, AlertState
<1>2. Verified!OneAnswer
  <2> SUFFICES ASSUME "answered twice" \notin verOdd
               PROVE  /\ \A a, b \in accepted : a[1] = b[1] => a = b
                      /\ \A n \in Verified!Text : (<<n, FALSE>> \in accepted) <=>
                             (texts[n].status = "denied")
    BY DEF Verified!OneAnswer
  <2>1. ASSUME NEW a \in accepted, NEW b \in accepted, a[1] = b[1] PROVE a = b
    <3>1. /\ a = <<a[1], a[2]>> /\ b = <<b[1], b[2]>> /\ a[1] \in Verified!Text
          /\ a[2] \in BOOLEAN /\ b[2] \in BOOLEAN
      <4>1. a \in Verified!Text \X BOOLEAN /\ b \in Verified!Text \X BOOLEAN
        BY DEF VerificationInv, VerificationShape
      <4>2. \A c \in Verified!Text \X BOOLEAN : c = <<c[1], c[2]>> /\ c[1] \in Verified!Text
                /\ c[2] \in BOOLEAN
        BY TextPairParts
      <4> QED BY <4>1, <4>2
    <3>2. a[2] = b[2]
      BY <2>1, <3>1 DEF VerificationInv, AnswersOnRecord
    <3> QED BY <2>1, <3>1, <3>2
  <2>2. \A n \in Verified!Text : (<<n, FALSE>> \in accepted) <=> (texts[n].status = "denied")
    BY DEF VerificationInv, AnswersOnRecord
  <2> QED BY <2>1, <2>2
<1> QED BY <1>1, <1>2 DEF VerificationInv, ClosedForAReason

(* An answer does not undo a dismissal.                                   *)
LEMMA DismissalStep == VerificationInv /\ [Verified!Next]_(Verified!vars) =>
    Verified!DismissalStandsStep
<1> SUFFICES ASSUME VerificationInv, [Verified!Next]_(Verified!vars),
                    verAlert = "dismissed", verAlert' = "resolved", "beside" \notin verOdd
             PROVE  \E d \in BOOLEAN : Verified!PersonResolves(d)
  BY DEF Verified!DismissalStandsStep
<1>1. CASE \E o \in {"confirmed", "denied", "no_answer"} : Verified!RecordCall(o)
  BY <1>1 DEF Verified!RecordCall, Verified!Apply, Verified!Applies
<1>2. CASE \E a \in answering : Verified!AnswerEnd(a)
  BY <1>2 DEF Verified!AnswerEnd, Verified!Apply, VerificationInv, ClosedForAReason
<1>3. CASE Verified!PersonAcknowledges
  BY <1>3 DEF Verified!PersonAcknowledges
<1> QED
  BY <1>1, <1>2, <1>3 DEF Verified!Next, Verified!vars, Verified!Day, Verified!AskText,
     Verified!Sent, Verified!SendFails, Verified!AnswerLate, Verified!AnswerStart

(* An answer that is late is not accepted.                                *)
LEMMA LateRefused == VerificationInv /\ [Verified!Next]_(Verified!vars) =>
    Verified!LateIsRefusedStep
<1> SUFFICES ASSUME VerificationInv, [Verified!Next]_(Verified!vars), NEW a \in answering',
                        a \notin answering
             PROVE  today - texts[a.n].day <= Ttl
  BY DEF Verified!LateIsRefusedStep
<1>1. PICK n \in Verified!Text, yes \in BOOLEAN : Verified!AnswerStart(n, yes)
  BY DEF Verified!Next, Verified!vars, Verified!Day, Verified!AskText, Verified!PersonAcknowledges,
     Verified!PersonResolves, Verified!RecordCall, Verified!Sent, Verified!SendFails,
         Verified!AnswerLate, Verified!AnswerEnd
<1>2. a.n = n /\ n \in Verified!Text /\ ~Verified!Expired(n)
  <2>1. a = [n |-> n, yes |-> yes, state |-> verAlert] /\ ~Verified!Expired(n)
    BY <1>1 DEF Verified!AnswerStart
  <2> QED BY <2>1
<1>3. today \in Nat /\ texts[n].day \in Nat /\ Ttl \in Nat
  BY <1>2, VerificationBounds DEF VerificationInv, VerificationShape
<1> QED BY <1>2, <1>3 DEF Verified!Expired

-----------------------------------------------------------------------------
(* The monthly digest                                                     *)

DigestShape ==
    /\ digNow \in 0 .. MaxTime
    /\ last \in Period .. digNow \cup {Digested!None}
           /\ built \in Period .. digNow \cup {Digested!None} /\ last <= built
    /\ made \in [Digested!Item -> 0 .. digNow \cup {Digested!None}]
    /\ digLate \subseteq digStored
           /\ digStored \subseteq {i \in Digested!Item : made[i] # Digested!None}
    /\ digCopies \in [Digested!Item -> 0 .. 2]
    /\ \/ digJob = Digested!Idle
       \/ /\ digJob = [at |-> digJob.at, until |-> built, items |-> digJob.items]
          /\ digJob.at \in {"mail", "commit"} /\ digJob.items \subseteq digStored
                 /\ built # Digested!None

(* While a month is at work it holds the rows of its time that were on    *)
(* record when it was built, and what was told belongs to a month stamped *)
(* or to this one.                                                        *)
MonthAtWork ==
    digJob # Digested!Idle =>
           /\ \A i \in digJob.items : Digested!Contains(made[i], Digested!Since, built)
           /\ \A i \in digStored \ digLate : Digested!Contains(made[i], Digested!Since, built) =>
                  i \in digJob.items
           /\ digJob.at = "commit" /\ digOdd = {} =>
                    \A i \in digJob.items \cap News : digCopies[i] > 0
Told ==
    "crash" \notin digOdd =>
           /\ digJob = Digested!Idle => last = built
           /\ \A i \in Digested!Item :
                 /\ digCopies[i] > 0 => \/ made[i] < last /\ made[i] # Digested!None
                                        \/ digJob # Digested!Idle /\ digJob.at = "commit"
                                               /\ i \in digJob.items
                 /\ digCopies[i] <= 1

DigestInv == DigestShape /\ MonthAtWork /\ Told /\ Digested!NothingFallsBetween

(* At the start nothing has been built.                                   *)
LEMMA DigestStart == Digested!Init => DigestInv
  BY DigestBounds DEF Digested!Init, DigestInv, DigestShape, MonthAtWork, Told,
     Digested!NothingFallsBetween, Digested!None,
                      Digested!Idle

(* A digest is built of a month that is over.                             *)
LEMMA DigestBuildKeeps == DigestInv /\ Digested!Build => DigestInv' /\ Digested!OneBuildAMonthStep
<1> SUFFICES ASSUME DigestInv, Digested!Build PROVE DigestInv' /\ Digested!OneBuildAMonthStep
  OBVIOUS
<1> DEFINE items == Digested!Month(Digested!Since, digNow)
<1>1. /\ digJob = Digested!Idle /\ digNow - Digested!Since >= Period /\ built' = digNow
      /\ digJob' = [at |-> IF Digested!WorthSending(items) THEN "mail" ELSE "commit",
                    until |-> digNow, items |-> items]
      /\ UNCHANGED <<digNow, last, made, digStored, digLate, digCopies, digFaults, digOdd>>
  BY DEF Digested!Build, Digested!Due
<1>2. digNow \in Nat /\ Digested!Since \in Nat /\ Digested!Since' = Digested!Since
          /\ digNow >= Period
  BY <1>1, DigestBounds DEF DigestInv, DigestShape, Digested!Since, Digested!None
<1>3. /\ digJob'.at \in {"mail", "commit"} /\ digJob'.until = digNow /\ digJob'.items = items
             /\ digJob' # Digested!Idle
      /\ digJob'.at = "commit" => items \cap News = {}
      /\ digJob' = [at |-> digJob'.at, until |-> digNow, items |-> items]
  BY <1>1 DEF Digested!WorthSending, Digested!Idle
<1>4. items \subseteq digStored /\ \A i \in digStored : i \in items <=> Digested!Contains(made[i],
          Digested!Since, digNow)
  BY DEF Digested!Month
<1> HIDE DEF items
<1>5. DigestShape'
  <2>1. built' \in Period .. digNow /\ built' # Digested!None /\ last <= built'
    BY <1>1, <1>2, DigestBounds DEF DigestInv, DigestShape, Digested!None
  <2> QED BY <1>1, <1>3, <1>4, <2>1 DEF DigestInv, DigestShape
<1>6. MonthAtWork'
  BY <1>1, <1>2, <1>3, <1>4 DEF MonthAtWork, Digested!Contains
<1>7. Told' /\ Digested!NothingFallsBetween'
  BY <1>1, <1>3 DEF DigestInv, Told, Digested!NothingFallsBetween
<1>8. Digested!OneBuildAMonthStep
  BY <1>1 DEF Digested!OneBuildAMonthStep, DigestInv, Told, Digested!Since
<1> QED BY <1>5, <1>6, <1>7, <1>8 DEF DigestInv

(* It is sent, with what falls in its month.                              *)
LEMMA DigestSendKeeps == DigestInv /\ Digested!Send => DigestInv'
<1> SUFFICES ASSUME DigestInv, Digested!Send PROVE DigestInv'
  OBVIOUS
<1>1. /\ digJob # Digested!Idle /\ digJob.at = "mail" /\ digJob.items \subseteq digStored
             /\ digStored \subseteq Digested!Item
      /\ digJob' = [at |-> "commit", until |-> built, items |-> digJob.items]
      /\ UNCHANGED <<digNow, last, made, digStored, digLate, built, digFaults, digOdd>>
  BY DEF Digested!Send, Digested!Idle, DigestInv, DigestShape
<1>2. digJob' # Digested!Idle /\ digJob'.at = "commit" /\ digJob'.items = digJob.items
          /\ Digested!Since' = Digested!Since
  BY <1>1 DEF Digested!Idle, Digested!Since
<1>3. /\ digCopies' \in [Digested!Item -> 0 .. 2]
      /\ \A i \in Digested!Item : IF i \in digJob.items THEN digCopies'[i] > 0
             /\ digCopies'[i] <= digCopies[i] + 1
                                  ELSE digCopies'[i] = digCopies[i]
      /\ \A i \in Digested!Item : digCopies[i] = 1 => digCopies'[i] \in {1, 2}
  BY DEF Digested!Send, DigestInv, DigestShape
<1>4. DigestShape'
  BY <1>1, <1>2, <1>3 DEF DigestInv, DigestShape
<1>5. MonthAtWork'
  BY <1>1, <1>2, <1>3 DEF DigestInv, MonthAtWork
<1>6. ASSUME "crash" \notin digOdd, NEW i \in digJob.items PROVE digCopies[i] = 0
  <2>1. i \in Digested!Item /\ made[i] \in Nat /\ made[i] >= Digested!Since
            /\ digCopies[i] \in 0 .. 2
    BY <1>1 DEF DigestInv, DigestShape, MonthAtWork, Digested!Contains, Digested!None
  <2>2. last # Digested!None => made[i] >= last
    BY <2>1 DEF Digested!Since
  <2>3. ~(made[i] < last)
    BY <2>1, <2>2 DEF DigestInv, DigestShape, Digested!None
  <2> QED BY <1>1, <1>6, <2>1, <2>3 DEF DigestInv, Told
<1>7. Told'
  <2>1. \A i \in Digested!Item : digCopies[i] \in 0 .. 2
    BY DEF DigestInv, DigestShape
  <2> QED BY <1>1, <1>2, <1>3, <1>6, <2>1 DEF DigestInv, Told
<1>8. Digested!NothingFallsBetween'
  <2> SUFFICES ASSUME digOdd = {}, NEW i \in News, made[i] # Digested!None, made[i] < last,
                      i \notin digLate, i \in digStored
               PROVE  digCopies'[i] = 1
    BY <1>1 DEF Digested!NothingFallsBetween
  <2>1. i \in Digested!Item /\ digCopies[i] = 1
    BY DEF DigestInv, Digested!NothingFallsBetween, Digested!Item
  <2>2. i \notin digJob.items
    BY <1>6, <2>1
  <2> QED BY <1>3, <2>1, <2>2
<1> QED BY <1>4, <1>5, <1>7, <1>8 DEF DigestInv

(* It is not sent.                                                        *)
LEMMA DigestMailFailsKeeps == DigestInv /\ Digested!MailFails => DigestInv'
<1> SUFFICES ASSUME DigestInv, Digested!MailFails PROVE DigestInv'
  OBVIOUS
<1>1. /\ digJob # Digested!Idle /\ digJob.at = "mail" /\ digOdd' = digOdd \cup {"mail"}
      /\ digJob' = [at |-> "commit", until |-> built, items |-> digJob.items]
      /\ UNCHANGED <<digNow, last, made, digStored, digLate, built, digCopies>>
  BY DEF Digested!MailFails, Digested!Idle, DigestInv, DigestShape
<1>2. digJob' # Digested!Idle /\ digJob'.at = "commit" /\ digJob'.items = digJob.items
          /\ Digested!Since' = Digested!Since
  BY <1>1 DEF Digested!Idle, Digested!Since
<1> QED BY <1>1, <1>2 DEF DigestInv, DigestShape, MonthAtWork, Told, Digested!NothingFallsBetween

(* Its time is committed.                                                 *)
LEMMA DigestCommitKeeps == DigestInv /\ Digested!Commit => DigestInv'
<1> SUFFICES ASSUME DigestInv, Digested!Commit PROVE DigestInv'
  OBVIOUS
<1>1. /\ digJob # Digested!Idle /\ digJob.at = "commit" /\ digJob.items \subseteq digStored
             /\ digStored \subseteq Digested!Item
      /\ last' = built /\ built # Digested!None /\ digJob' = Digested!Idle
      /\ UNCHANGED <<digNow, made, digStored, digLate, built, digCopies, digFaults, digOdd>>
  BY DEF Digested!Commit, Digested!Stamp, Digested!Idle, DigestInv, DigestShape
<1>2. DigestShape' /\ MonthAtWork'
  BY <1>1 DEF DigestInv, DigestShape, MonthAtWork, Digested!None
<1>3. /\ last \in Int /\ built \in Int /\ last <= built
      /\ \A i \in Digested!Item : made[i] \in Int /\ (made[i] # Digested!None => made[i] >= 0)
      /\ \A i \in digStored : made[i] # Digested!None
  BY DigestBounds DEF DigestInv, DigestShape, Digested!None
<1>4. Told'
  <2>1. \A i \in digJob.items : made[i] < built /\ made[i] # Digested!None
    BY <1>1, <1>3 DEF DigestInv, MonthAtWork, Digested!Contains
  <2> QED BY <1>1, <1>3, <2>1 DEF DigestInv, Told
<1>5. Digested!NothingFallsBetween'
  <2> SUFFICES ASSUME digOdd = {}, NEW i \in News, made[i] # Digested!None, made[i] < built,
                      i \notin digLate, i \in digStored
               PROVE  digCopies[i] = 1
    BY <1>1 DEF Digested!NothingFallsBetween
  <2>1. i \in Digested!Item /\ digCopies[i] \in 0 .. 2 /\ digCopies[i] <= 1
    BY DEF DigestInv, DigestShape, Told, Digested!Item
  <2>2. CASE made[i] < last
    BY <2>2 DEF DigestInv, Digested!NothingFallsBetween
  <2>3. CASE ~(made[i] < last)
    <3>1. Digested!Contains(made[i], Digested!Since, built)
      BY <1>3, <2>1, <2>3 DEF Digested!Contains, Digested!Since
    <3> QED BY <1>1, <2>1, <3>1 DEF DigestInv, MonthAtWork
  <2> QED BY <2>2, <2>3
<1> QED BY <1>2, <1>4, <1>5 DEF DigestInv

(* A crash forgets it.                                                    *)
LEMMA DigestCrashKeeps == DigestInv /\ Digested!Crash => DigestInv'
<1> SUFFICES ASSUME DigestInv, Digested!Crash PROVE DigestInv'
  OBVIOUS
<1>1. /\ digOdd' = digOdd \cup {"crash"} /\ digJob' = Digested!Idle
      /\ UNCHANGED <<digNow, last, made, digStored, digLate, built, digCopies>>
  BY DEF Digested!Crash
<1> QED BY <1>1 DEF DigestInv, DigestShape, MonthAtWork, Told, Digested!NothingFallsBetween

(* A row is made.                                                         *)
LEMMA DigestMakeKeeps == ASSUME DigestInv, NEW i \in Digested!Item, Digested!Make(i)
    PROVE DigestInv'
<1>1. /\ made[i] = Digested!None /\ i \notin digStored
      /\ made' \in [Digested!Item -> 0 .. digNow \cup {Digested!None}] /\ made'[i] = digNow
             /\ digNow # Digested!None
      /\ \A j \in Digested!Item : j # i => made'[j] = made[j]
      /\ UNCHANGED <<digNow, last, digStored, digLate, digJob, built, digCopies, digFaults, digOdd>>
  BY DEF Digested!Make, DigestInv, DigestShape, Digested!None
<1>2. /\ last \in Int /\ digNow \in Int /\ last <= digNow /\ Digested!Since' = Digested!Since
      /\ digStored \subseteq Digested!Item \ {i} /\ (digJob # Digested!Idle =>
             digJob.items \subseteq digStored)
  BY <1>1, DigestBounds DEF DigestInv, DigestShape, Digested!None, Digested!Since
<1>3. DigestShape'
  BY <1>1, <1>2 DEF DigestInv, DigestShape
<1>4. MonthAtWork'
  BY <1>1, <1>2 DEF DigestInv, MonthAtWork
<1>5. Told'
  BY <1>1, <1>2 DEF DigestInv, Told
<1>6. Digested!NothingFallsBetween'
  BY <1>1, <1>2 DEF DigestInv, Digested!NothingFallsBetween, Digested!Item
<1> QED BY <1>3, <1>4, <1>5, <1>6 DEF DigestInv

(* Its transaction commits.                                               *)
LEMMA DigestStoreKeeps == ASSUME DigestInv, NEW i \in Digested!Item, Digested!Store(i)
    PROVE DigestInv'
<1>1. /\ made[i] # Digested!None /\ i \notin digStored /\ digStored' = digStored \cup {i}
      /\ digLate' = IF built # Digested!None /\ made[i] < built THEN digLate \cup {i} ELSE digLate
      /\ UNCHANGED <<digNow, last, made, digJob, built, digCopies, digFaults, digOdd>>
  BY DEF Digested!Store
<1>2. last \in Int /\ built \in Int /\ last <= built /\ made[i] \in Nat /\ Digested!Since' =
          Digested!Since
  BY <1>1, DigestBounds DEF DigestInv, DigestShape, Digested!None, Digested!Since
<1>3. DigestShape'
  BY <1>1 DEF DigestInv, DigestShape
<1>4. MonthAtWork'
  BY <1>1, <1>2 DEF DigestInv, DigestShape, MonthAtWork, Digested!Contains
<1>5. Told'
  BY <1>1 DEF DigestInv, Told
<1>6. Digested!NothingFallsBetween'
  BY <1>1, <1>2 DEF DigestInv, DigestShape, Digested!NothingFallsBetween, Digested!Item,
     Digested!None
<1> QED BY <1>3, <1>4, <1>5, <1>6 DEF DigestInv

(* Time passes.                                                           *)
LEMMA DigestTickKeeps == DigestInv /\ Digested!Tick => DigestInv'
<1> SUFFICES ASSUME DigestInv, Digested!Tick PROVE DigestInv'
  OBVIOUS
<1>1. /\ digNow \in 0 .. MaxTime /\ digNow' \in 0 .. MaxTime /\ digNow' = digNow + 1
      /\ UNCHANGED <<last, made, digStored, digLate, digJob, built, digCopies, digFaults, digOdd>>
  BY DigestBounds DEF Digested!Tick, DigestInv, DigestShape
<1>2. 0 .. digNow \subseteq 0 .. digNow' /\ Period .. digNow \subseteq Period .. digNow'
  BY <1>1, DigestBounds
<1>3. DigestShape'
  BY <1>1, <1>2 DEF DigestInv, DigestShape
<1>4. MonthAtWork' /\ Told' /\ Digested!NothingFallsBetween'
  BY <1>1 DEF DigestInv, MonthAtWork, Told, Digested!NothingFallsBetween, Digested!Since
<1> QED BY <1>3, <1>4 DEF DigestInv

(* Every step keeps the invariant, and builds one digest a month.         *)
LEMMA DigestStep == DigestInv /\ [Digested!Next]_(Digested!vars) => DigestInv'
    /\ Digested!OneBuildAMonthStep
<1> SUFFICES ASSUME DigestInv, [Digested!Next]_(Digested!vars) PROVE DigestInv'
                        /\ Digested!OneBuildAMonthStep
  OBVIOUS
<1>1. DigestInv'
  <2>1. CASE \E i \in Digested!Item : Digested!Make(i) \/ Digested!Store(i)
    BY <2>1, DigestMakeKeeps, DigestStoreKeeps
  <2>2. CASE UNCHANGED Digested!vars
    BY <2>2 DEF Digested!vars, DigestInv, DigestShape, MonthAtWork, Told,
       Digested!NothingFallsBetween, Digested!Since
  <2> QED BY <2>1, <2>2, DigestBuildKeeps, DigestSendKeeps, DigestMailFailsKeeps,
             DigestCommitKeeps, DigestCrashKeeps,
             DigestTickKeeps DEF Digested!Next
<1>2. Digested!OneBuildAMonthStep
  BY DigestBuildKeeps DEF Digested!OneBuildAMonthStep
<1> QED BY <1>1, <1>2

(* The invariant says what was promised.                                  *)
LEMMA DigestInvImplies ==
    DigestInv => Digested!TypeOK /\ Digested!ToldInOneMonth /\ Digested!NothingFallsBetween
<1> SUFFICES ASSUME DigestInv PROVE Digested!TypeOK /\ Digested!ToldInOneMonth
                        /\ Digested!NothingFallsBetween
  OBVIOUS
<1>1. 0 .. digNow \subseteq 0 .. MaxTime /\ Period .. digNow \subseteq Period .. MaxTime
  BY DigestBounds DEF DigestInv, DigestShape
<1>2. digJob.at \in {"idle", "mail", "commit"} /\ digJob.items \subseteq digStored
  BY DEF DigestInv, DigestShape, Digested!Idle
<1>3. Digested!TypeOK
  BY <1>1, <1>2 DEF DigestInv, DigestShape, Digested!TypeOK
<1> QED BY <1>3 DEF DigestInv, Told, Digested!ToldInOneMonth

-----------------------------------------------------------------------------
(* Retention: what the purge keeps                                        *)

RetentionShape ==
    /\ day \in 0 .. MaxDay
    /\ retAlert \in [Alert -> -1 .. day] /\ token \in [Token -> -1 .. day]
    /\ kids \subseteq Purged!Kind \X Alert
    /\ retClicks \subseteq Token \X Int
    /\ body = {}

(* What refers to an alert or a link refers to one that is there.         *)
NoDangling ==
    /\ \A k \in kids : retAlert[k[2]] # Purged!None
    /\ \A c \in retClicks : token[c[1]] # Purged!None

(* What a run is about to delete was past its time on the day it began.   *)
RunIsDue ==
    /\ run.at \in {"idle", "batch", "commit", "last"}
    /\ run.at # "idle" =>
          /\ run = [at |-> run.at, day |-> run.day, gone |-> run.gone]
          /\ run.gone = [body |-> run.gone.body, clicks |-> run.gone.clicks,
                 token |-> run.gone.token,
                         trail |-> run.gone.trail, kids |-> run.gone.kids, alert |-> run.gone.alert]
          /\ run.day \in 0 .. day
          /\ \A t \in run.gone.token : t \in Token /\ Purged!Expired(token[t], TokenDays, run.day)
          /\ \A a \in run.gone.alert : a \in Alert /\ Purged!Expired(retAlert[a], AlertDays,
                 run.day)
          /\ \A k \in run.gone.kids : /\ k \in kids
                                      /\ Purged!Expired(retAlert[k[2]], AlertDays, run.day)

RetentionInv == RetentionShape /\ NoDangling /\ RunIsDue /\ Purged!KeptForItsTime

(* At the start there is nothing.                                         *)
LEMMA RetentionStart == Purged!Init => RetentionInv
<1> SUFFICES ASSUME Purged!Init PROVE RetentionInv
  OBVIOUS
<1>1. RetentionShape
  BY RetentionBounds DEF Purged!Init, RetentionShape, Purged!None
<1>2. NoDangling /\ RunIsDue /\ Purged!KeptForItsTime
  BY DEF Purged!Init, NoDangling, RunIsDue, Purged!KeptForItsTime, Purged!None, Purged!Idle
<1> QED BY <1>1, <1>2 DEF RetentionInv

(* A pair is its two parts.                                               *)
LEMMA PurgePairParts ==
    ASSUME NEW S, NEW T
    PROVE  \A c \in S \X T : c = <<c[1], c[2]>> /\ c[1] \in S /\ c[2] \in T
<1> SUFFICES ASSUME NEW c \in S \X T PROVE c = <<c[1], c[2]>> /\ c[1] \in S /\ c[2] \in T
  OBVIOUS
<1>1. PICK x \in S, y \in T : c = <<x, y>>
  OBVIOUS
<1> QED BY <1>1

(* What refers names an alert or a link.                                  *)
LEMMA WhatIsNamed ==
    ASSUME RetentionInv
    PROVE  (\A k \in kids : k[2] \in Alert) /\ (\A c \in retClicks : c[1] \in Token)
<1>1. (\A k \in kids : k \in Purged!Kind \X Alert) /\ (\A c \in retClicks : c \in Token \X Int)
  BY DEF RetentionInv, RetentionShape
<1> QED BY <1>1, PurgePairParts

(* An alert comes with its finding.                                       *)
LEMMA PurgeRaiseKeeps == ASSUME RetentionInv, NEW a \in Alert, Purged!RaiseAlert(a)
    PROVE RetentionInv'
<1>1. /\ retAlert[a] = Purged!None /\ retAlert' = [retAlert EXCEPT ![a] = day]
      /\ kids' = kids \cup {<<"finding", a>>}
      /\ UNCHANGED <<day, token, body, retClicks, run>>
  BY DEF Purged!RaiseAlert, Purged!Rest
<1>2. /\ retAlert' \in [Alert -> -1 .. day] /\ retAlert'[a] = day /\ day # Purged!None
      /\ \A b \in Alert : b # a => retAlert'[b] = retAlert[b]
  BY <1>1, RetentionBounds DEF RetentionInv, RetentionShape, Purged!None
<1>3. <<"finding", a>> \in Purged!Kind \X Alert /\ <<"finding", a>>[2] = a
  BY DEF Purged!Kind
<1>4. RetentionShape'
  BY <1>1, <1>2, <1>3 DEF RetentionInv, RetentionShape
<1>5. NoDangling'
  BY <1>1, <1>2, <1>3, WhatIsNamed DEF RetentionInv, NoDangling
<1>6. RunIsDue'
  BY <1>1, <1>2, WhatIsNamed DEF RetentionInv, RunIsDue, Purged!Expired
<1>7. Purged!KeptForItsTime'
  BY <1>1, <1>2 DEF RetentionInv, Purged!KeptForItsTime
<1> QED BY <1>4, <1>5, <1>6, <1>7 DEF RetentionInv

(* Another row refers to an alert that is there.                          *)
LEMMA PurgeReferKeeps ==
    ASSUME RetentionInv, NEW a \in Alert, NEW k \in Purged!Kind, Purged!Refer(k, a)
               PROVE RetentionInv'
<1>1. /\ retAlert[a] # Purged!None /\ kids' = kids \cup {<<k, a>>}
      /\ UNCHANGED <<day, retAlert, token, body, retClicks, run>>
  BY DEF Purged!Refer
<1>2. <<k, a>> \in Purged!Kind \X Alert /\ <<k, a>>[2] = a
  OBVIOUS
<1>3. RetentionShape' /\ NoDangling' /\ Purged!KeptForItsTime'
  BY <1>1, <1>2 DEF RetentionInv, RetentionShape, NoDangling, Purged!KeptForItsTime
<1>4. RunIsDue'
  BY <1>1 DEF RetentionInv, RunIsDue
<1> QED BY <1>3, <1>4 DEF RetentionInv

(* A link is rewritten.                                                   *)
LEMMA PurgeRewriteKeeps == ASSUME RetentionInv, NEW t \in Token, Purged!Rewrite(t)
    PROVE RetentionInv'
<1>1. /\ token[t] = Purged!None /\ token' = [token EXCEPT ![t] = day]
      /\ UNCHANGED <<day, retAlert, body, kids, retClicks, run>>
  BY DEF Purged!Rewrite, Purged!Rest
<1>2. /\ token' \in [Token -> -1 .. day] /\ token'[t] = day /\ day # Purged!None
      /\ \A u \in Token : u # t => token'[u] = token[u]
  BY <1>1, RetentionBounds DEF RetentionInv, RetentionShape, Purged!None
<1>3. RetentionShape' /\ Purged!KeptForItsTime'
  BY <1>1, <1>2 DEF RetentionInv, RetentionShape, Purged!KeptForItsTime
<1>4. NoDangling'
  BY <1>1, <1>2, WhatIsNamed DEF RetentionInv, NoDangling
<1>5. RunIsDue'
  BY <1>1, <1>2 DEF RetentionInv, RunIsDue, Purged!Expired
<1> QED BY <1>3, <1>4, <1>5 DEF RetentionInv

(* A link that works is followed.                                         *)
LEMMA PurgeFollowKeeps == ASSUME RetentionInv, NEW t \in Token, Purged!Follow(t) PROVE RetentionInv'
<1>1. /\ token[t] # Purged!None /\ retClicks' = retClicks \cup {<<t, day>>}
      /\ UNCHANGED <<day, retAlert, token, body, kids, run>>
  BY DEF Purged!Follow
<1>2. <<t, day>> \in Token \X Int /\ <<t, day>>[1] = t
  BY DEF RetentionInv, RetentionShape
<1>3. RetentionShape' /\ NoDangling' /\ RunIsDue' /\ Purged!KeptForItsTime'
  BY <1>1, <1>2 DEF RetentionInv, RetentionShape, NoDangling, RunIsDue, Purged!KeptForItsTime
<1> QED BY <1>3 DEF RetentionInv

(* A day passes; what is expired stays so.                                *)
LEMMA PurgeNextDayKeeps == RetentionInv /\ Purged!NextDay => RetentionInv'
<1> SUFFICES ASSUME RetentionInv, Purged!NextDay PROVE RetentionInv'
  OBVIOUS
<1>1. /\ day \in 0 .. MaxDay /\ day' \in 0 .. MaxDay /\ day' = day + 1
      /\ UNCHANGED <<retAlert, token, body, kids, retClicks, run>>
  BY RetentionBounds DEF Purged!NextDay, Purged!Rest, RetentionInv, RetentionShape
<1>2. -1 .. day \subseteq -1 .. day' /\ 0 .. day \subseteq 0 .. day'
  BY <1>1, RetentionBounds
<1>3. RetentionShape' /\ NoDangling'
  BY <1>1, <1>2 DEF RetentionInv, RetentionShape, NoDangling
<1>4. RunIsDue'
  BY <1>1, <1>2 DEF RetentionInv, RunIsDue
<1>5. Purged!KeptForItsTime'
  <2>1. \A a \in Alert : Purged!Expired(retAlert[a], AlertDays, day) =>
            Purged!Expired(retAlert[a], AlertDays, day')
    BY <1>1, RetentionBounds DEF RetentionInv, RetentionShape, Purged!Expired
  <2> QED BY <1>1, <2>1 DEF RetentionInv, Purged!KeptForItsTime
<1> QED BY <1>3, <1>4, <1>5 DEF RetentionInv

(* Steps that change only where the run is.                               *)
LEMMA OnlyTheRunMoves ==
    ASSUME RetentionInv, UNCHANGED <<day, retAlert, token, body, kids, retClicks>>, RunIsDue'
    PROVE  RetentionInv'
  BY DEF RetentionInv, RetentionShape, NoDangling, Purged!KeptForItsTime

(* A run decides what is past its time.                                   *)
LEMMA PurgeBeginKeeps == RetentionInv /\ Purged!Begin => RetentionInv'
<1> SUFFICES ASSUME RetentionInv, Purged!Begin PROVE RetentionInv'
  OBVIOUS
<1> DEFINE leaving == [body |-> {m \in body : Purged!Expired(retMail[m], BodyDays, day)},
                       clicks |-> Purged!ClicksToGo(day), token |-> Purged!DoomedTokens(day),
                       trail |-> {d \in trail : Purged!Expired(d, TrailDays, day)},
                       kids |-> Purged!FindingsToGo(day), alert |-> {}]
<1>1. /\ run' = [at |-> "batch", day |-> day, gone |-> leaving]
      /\ UNCHANGED <<day, retAlert, token, body, kids, retClicks>>
  BY DEF Purged!Begin, Purged!Nothing
<1>2. /\ leaving.token = Purged!DoomedTokens(day) /\ leaving.kids = Purged!FindingsToGo(day)
             /\ leaving.alert = {}
      /\ leaving = [body |-> leaving.body, clicks |-> leaving.clicks, token |-> leaving.token,
                    trail |-> leaving.trail, kids |-> leaving.kids, alert |-> leaving.alert]
  OBVIOUS
<1> HIDE DEF leaving
<1>3. /\ run'.at = "batch" /\ run'.day = day /\ run'.gone = leaving
      /\ run' = [at |-> run'.at, day |-> run'.day, gone |-> run'.gone]
  BY <1>1
<1>4. \A t \in Purged!DoomedTokens(day) : t \in Token /\ Purged!Expired(token[t], TokenDays, day)
  BY DEF Purged!DoomedTokens
<1>5. \A k \in Purged!FindingsToGo(day) : k \in kids /\ Purged!Expired(retAlert[k[2]], AlertDays,
          day)
  BY DEF Purged!FindingsToGo
<1>6. day \in 0 .. day
  BY DEF RetentionInv, RetentionShape
<1>7. RunIsDue'
  BY <1>1, <1>2, <1>3, <1>4, <1>5, <1>6 DEF RunIsDue
<1> QED BY <1>1, <1>7, OnlyTheRunMoves

(* It takes a batch of expired alerts with their children.                *)
LEMMA PurgePickKeeps == RetentionInv /\ Purged!PickBatch => RetentionInv'
<1> SUFFICES ASSUME RetentionInv, Purged!PickBatch PROVE RetentionInv'
  OBVIOUS
<1>1. PICK batch \in SUBSET Purged!ExpiredAlerts :
         run' = [run EXCEPT !.at = "commit", !.gone.alert = batch,
                            !.gone.kids = @ \cup Purged!Children(batch)]
  BY DEF Purged!PickBatch
<1>2. UNCHANGED <<day, retAlert, token, body, kids, retClicks>> /\ run.at = "batch"
  BY DEF Purged!PickBatch
<1>3. /\ run = [at |-> run.at, day |-> run.day, gone |-> run.gone]
      /\ run.gone = [body |-> run.gone.body, clicks |-> run.gone.clicks, token |-> run.gone.token,
                     trail |-> run.gone.trail, kids |-> run.gone.kids, alert |-> run.gone.alert]
  BY <1>2 DEF RetentionInv, RunIsDue
<1> DEFINE leaving == [body |-> run.gone.body, clicks |-> run.gone.clicks, token |-> run.gone.token,
                       trail |-> run.gone.trail, kids |-> run.gone.kids \cup Purged!Children(batch),
                       alert |-> batch]
<1>4. run' = [at |-> "commit", day |-> run.day, gone |-> leaving]
  BY <1>1, <1>3
<1>5. /\ leaving.token = run.gone.token /\ leaving.kids = run.gone.kids \cup Purged!Children(batch)
      /\ leaving.alert = batch
      /\ leaving = [body |-> leaving.body, clicks |-> leaving.clicks, token |-> leaving.token,
                    trail |-> leaving.trail, kids |-> leaving.kids, alert |-> leaving.alert]
  OBVIOUS
<1> HIDE DEF leaving
<1>6. /\ run'.at = "commit" /\ run'.day = run.day /\ run'.gone = leaving
      /\ run' = [at |-> run'.at, day |-> run'.day, gone |-> run'.gone]
  BY <1>4
<1>7. \A a \in batch : a \in Alert /\ Purged!Expired(retAlert[a], AlertDays, run.day)
  BY DEF Purged!ExpiredAlerts
<1>8. \A k \in Purged!Children(batch) : k \in kids /\ Purged!Expired(retAlert[k[2]], AlertDays,
          run.day)
  BY <1>7 DEF Purged!Children
<1>9. RunIsDue'
  BY <1>2, <1>5, <1>6, <1>7, <1>8 DEF RetentionInv, RunIsDue
<1> QED BY <1>2, <1>9, OnlyTheRunMoves

(* It finds no expired alert any more.                                    *)
LEMMA PurgeNoBatchKeeps == RetentionInv /\ Purged!NoBatch => RetentionInv'
<1> SUFFICES ASSUME RetentionInv, Purged!NoBatch PROVE RetentionInv'
  OBVIOUS
<1>1. /\ UNCHANGED <<day, retAlert, token, body, kids, retClicks>>
      /\ run' = [at |-> "last", day |-> run.day, gone |-> run.gone] /\ run.at = "batch"
  BY DEF Purged!NoBatch, RetentionInv, RunIsDue
<1>2. /\ run'.at = "last" /\ run'.day = run.day /\ run'.gone = run.gone
      /\ run' = [at |-> run'.at, day |-> run'.day, gone |-> run'.gone]
  BY <1>1
<1>3. RunIsDue'
  BY <1>1, <1>2 DEF RetentionInv, RunIsDue
<1> QED BY <1>1, <1>3, OnlyTheRunMoves

(* A run that ends without a commit.                                      *)
LEMMA PurgeStopsKeeps ==
    ASSUME RetentionInv, run' = Purged!Idle, UNCHANGED <<day, retAlert, token, body, kids,
               retClicks>>
    PROVE  RetentionInv'
<1>1. RunIsDue'
  BY DEF RunIsDue, Purged!Idle
<1> QED BY <1>1, OnlyTheRunMoves

(* It deletes what nothing refers to any more, and no link before its     *)
(* time.                                                                  *)
LEMMA PurgeCommitKeeps == RetentionInv /\ Purged!Commit => RetentionInv' /\ Purged!LinksWorkStep
<1> SUFFICES ASSUME RetentionInv, Purged!Commit PROVE RetentionInv' /\ Purged!LinksWorkStep
  OBVIOUS
<1>1. /\ ~Purged!Referred /\ run.at # "idle" /\ run.day \in 0 .. day
      /\ retAlert' = [a \in Alert |-> IF a \in run.gone.alert THEN Purged!None ELSE retAlert[a]]
      /\ token' = [t \in Token |-> IF t \in run.gone.token THEN Purged!None ELSE token[t]]
      /\ kids' = kids \ run.gone.kids /\ retClicks' = retClicks \ run.gone.clicks
      /\ day' = day /\ body' = {}
      /\ run' = Purged!Idle \/ run' = [at |-> "batch", day |-> run.day, gone |-> Purged!Nothing]
  BY DEF Purged!Commit, RetentionInv, RunIsDue, RetentionShape
<1>2. retAlert' \in [Alert -> -1 .. day] /\ token' \in [Token -> -1 .. day]
  BY <1>1 DEF RetentionInv, RetentionShape, Purged!None
<1>3. RetentionShape'
  BY <1>1, <1>2 DEF RetentionInv, RetentionShape
<1>4. NoDangling'
  <2>1. \A k \in kids' : k \in kids /\ k[2] \in Alert /\ k[2] \notin run.gone.alert
    BY <1>1, WhatIsNamed DEF Purged!Referred, Purged!Remaining
  <2>2. \A c \in retClicks' : c \in retClicks /\ c[1] \in Token /\ c[1] \notin run.gone.token
    BY <1>1, WhatIsNamed DEF Purged!Referred, Purged!Remaining
  <2> QED BY <1>1, <2>1, <2>2 DEF RetentionInv, NoDangling
<1>5. RunIsDue'
  <2>1. CASE run' = Purged!Idle
    BY <2>1 DEF RunIsDue, Purged!Idle
  <2>2. CASE run' = [at |-> "batch", day |-> run.day, gone |-> Purged!Nothing]
    BY <1>1, <2>2 DEF RunIsDue, Purged!Nothing
  <2> QED BY <1>1, <2>1, <2>2
<1>6. /\ day \in Int /\ run.day \in Int /\ run.day <= day
      /\ \A a \in Alert : retAlert[a] \in Int
      /\ \A t \in Token : token[t] \in Int
  BY <1>1 DEF RetentionInv, RetentionShape
<1>7. Purged!KeptForItsTime'
  <2> SUFFICES ASSUME NEW a \in Alert, retAlert'[a] # Purged!None, ~Purged!Expired(retAlert'[a],
                          AlertDays, day)
               PROVE  <<"finding", a>> \in kids'
    BY <1>1 DEF Purged!KeptForItsTime
  <2>1. retAlert'[a] = retAlert[a] /\ <<"finding", a>> \in kids
    BY <1>1 DEF RetentionInv, Purged!KeptForItsTime
  <2>2. <<"finding", a>> \notin run.gone.kids
    <3>1. <<"finding", a>>[2] = a
      OBVIOUS
    <3>2. ~Purged!Expired(retAlert[a], AlertDays, run.day)
      BY <1>6, <2>1, RetentionBounds DEF Purged!Expired
    <3> QED BY <1>1, <3>1, <3>2 DEF RetentionInv, RunIsDue
  <2> QED BY <1>1, <2>1, <2>2
<1>8. Purged!LinksWorkStep
  <2> SUFFICES ASSUME NEW t \in Token, token[t] # Purged!None, token'[t] = Purged!None
               PROVE  Purged!Expired(token[t], TokenDays, day)
    BY DEF Purged!LinksWorkStep
  <2>1. Purged!Expired(token[t], TokenDays, run.day)
    BY <1>1 DEF RetentionInv, RunIsDue
  <2> QED BY <1>6, <2>1, RetentionBounds DEF Purged!Expired
<1> QED BY <1>3, <1>4, <1>5, <1>7, <1>8 DEF RetentionInv

(* Every step keeps the invariant, and every link for its time.           *)
LEMMA RetentionStep == RetentionInv /\ [Purged!Next]_(Purged!vars) => RetentionInv'
    /\ Purged!LinksWorkStep
<1> SUFFICES ASSUME RetentionInv, [Purged!Next]_(Purged!vars) PROVE RetentionInv'
                        /\ Purged!LinksWorkStep
  OBVIOUS
<1>1. RetentionInv'
  <2>1. CASE Purged!Purge
    <3>1. CASE Purged!RollBack
      BY <3>1, PurgeStopsKeeps DEF Purged!RollBack
    <3> QED BY <2>1, <3>1, PurgeBeginKeeps, PurgePickKeeps, PurgeNoBatchKeeps, PurgeCommitKeeps
               DEF Purged!Purge
  <2>2. CASE Purged!Crash
    BY <2>2, PurgeStopsKeeps DEF Purged!Crash
  <2>3. CASE \E a \in Alert : Purged!RaiseAlert(a) \/ \E k \in Purged!Kind : Purged!Refer(k, a)
    BY <2>3, PurgeRaiseKeeps, PurgeReferKeeps
  <2>4. CASE \E t \in Token : Purged!Rewrite(t) \/ Purged!Follow(t)
    BY <2>4, PurgeRewriteKeeps, PurgeFollowKeeps
  <2>5. CASE Purged!Observe \/ (\E m \in KeptMail : Purged!Receive(m)) \/ UNCHANGED Purged!vars
    <3>1. UNCHANGED <<day, retAlert, token, body, kids, retClicks, run>>
      BY <2>5 DEF Purged!Observe, Purged!Receive, Purged!Rest, Purged!vars
    <3>2. RunIsDue'
      BY <3>1 DEF RetentionInv, RunIsDue
    <3> QED BY <3>1, <3>2, OnlyTheRunMoves
  <2> QED BY <2>1, <2>2, <2>3, <2>4, <2>5, PurgeNextDayKeeps DEF Purged!Next
<1>2. Purged!LinksWorkStep
  <2>1. CASE \E t \in Token : Purged!Rewrite(t)
    <3>1. PICK t \in Token : Purged!Rewrite(t)
      BY <2>1
    <3>2. /\ token[t] = Purged!None
          /\ \A u \in Token : u # t => token'[u] = token[u]
      BY <3>1 DEF Purged!Rewrite, RetentionInv, RetentionShape
    <3> QED BY <3>2 DEF Purged!LinksWorkStep
  <2>2. CASE Purged!Commit
    BY <2>2, PurgeCommitKeeps
  <2>3. CASE token' = token
    BY <2>3 DEF Purged!LinksWorkStep
  <2> QED BY <2>1, <2>2, <2>3
          DEF Purged!Next, Purged!vars, Purged!Purge, Purged!Begin, Purged!PickBatch,
             Purged!NoBatch, Purged!RollBack, Purged!Crash, Purged!NextDay, Purged!Observe,
              Purged!RaiseAlert, Purged!Refer, Purged!Receive, Purged!Follow, Purged!Rest
<1> QED BY <1>1, <1>2

(* The invariant says what was promised.                                  *)
LEMMA RetentionInvImplies == RetentionInv => Purged!TypeOK /\ Purged!KeptForItsTime
  BY DEF RetentionInv, RetentionShape, NoDangling, RunIsDue, Purged!TypeOK

-----------------------------------------------------------------------------
(* Accounting: tokens and notes                                           *)

LoopJob == [at : {"rest", "list", "token", "store", "call", "mark"},
            todo : SUBSET (Provider \X (BankAlert \cup {Accounting!NoAlert})),
            p : Provider \cup {"none"},
            a : BankAlert \cup {Accounting!NoAlert}, token : Nat, id : Nat]
Resting == {"rest", "list"}
Current == <<accJob["bills"].p, accJob["bills"].a>>
Raised == {a \in BankAlert : accAlert[a] # "none"}

(* The rows of the connections, the tokens issued for them and the loops. *)
AccTables ==
    /\ conn \in [Provider -> Accounting!Row] /\ live \in [Provider -> SUBSET Nat]
    /\ issued \in [Provider -> 0 .. MaxTokens] /\ stale \subseteq Provider
    /\ accConsents \in 0 .. MaxConsents /\ accJob \in [Loop -> LoopJob]
    /\ \A p \in Provider : /\ Accounting!On(p) = (conn[p].token > 0)
                           /\ ~Accounting!On(p) => conn[p] = Accounting!NoConn
                           /\ live[p] \subseteq 1 .. issued[p]
                           /\ conn[p].token <= issued[p]
    /\ \A l \in Loop :
          /\ accJob[l].at \in Resting <=> accJob[l].p = "none"
          /\ accJob[l].p # "none" => accJob[l].id # 0
                 /\ accJob[l].token \in 1 .. issued[accJob[l].p]

(* Alerts on the way through the bills loop have been raised.             *)
AccAlerts ==
    /\ accAlert \in [BankAlert -> {"none", "open", "dismissed", "old"}]
    /\ done \subseteq Raised
    /\ notes \in [Provider \X BankAlert -> 0 .. 2] /\ accFaults \in Nat
    /\ \A x \in accJob["bills"].todo : x[2] \in Raised
    /\ accJob["bills"].p # "none" =>
             accJob["bills"].a \in Raised /\ Current \notin accJob["bills"].todo

(* Until something odd happens to a connection, whoever works on it has the*)
(* row before it; a token that is still honoured is the stored one, except*)
(* while the one loop that has spent it is about to store the next.       *)
RefreshInTurn ==
    accOdd = {} =>
           /\ \A l \in Loop : accJob[l].p # "none" => Accounting!On(accJob[l].p)
                  /\ conn[accJob[l].p].id = accJob[l].id
           /\ \A l \in Loop : accJob[l].at = "token" =>
                 accJob[l].token = conn[accJob[l].p].token
                 \/ accJob[l].token \notin live[accJob[l].p]
           /\ \A l \in Loop : accJob[l].at = "store" =>
                 accJob[l].token \in live[accJob[l].p]
                 /\ conn[accJob[l].p].token \notin live[accJob[l].p]
           /\ \A l, k \in Loop :
                 accJob[l].at = "store" /\ accJob[k].at = "store" /\ accJob[l].p = accJob[k].p =>
                 l = k
           /\ \A p \in Provider :
                 Accounting!On(p) => \/ conn[p].token \in live[p]
                                     \/ \E l \in Loop : accJob[l].at = "store" /\ accJob[l].p = p

(* A bill that has its note is done with, or is just being marked.        *)
NotesInTurn ==
    \A p \in Provider, a \in BankAlert :
        /\ notes[<<p, a>>] = 2 => p \notin Idempotent /\ accFaults > 0
        /\ notes[<<p, a>>] = 1 /\ accFaults = 0 =>
              /\ <<p, a>> \notin accJob["bills"].todo
              /\ a \in done \/ (accJob["bills"].at = "mark" /\ Current = <<p, a>>)
              /\ accJob["bills"].at \in {"token", "store", "call"} => Current # <<p, a>>

AccInv == AccTables /\ AccAlerts /\ RefreshInTurn /\ NotesInTurn

(* A loop at rest.                                                        *)
LEMMA RestIsJob == Accounting!Rest \in LoopJob /\ Accounting!Rest.at = "rest"
    /\ Accounting!Rest.p = "none" /\ Accounting!Rest.todo = {}
  BY DEF Accounting!Rest, LoopJob, Accounting!NoAlert

(* At the start nothing is connected.                                     *)
LEMMA AccountingStart == Accounting!Init => AccInv
<1> SUFFICES ASSUME Accounting!Init PROVE AccInv
  OBVIOUS
<1>1. Accounting!NoConn \in Accounting!Row /\ Accounting!NoConn.id = 0
          /\ Accounting!NoConn.token = 0
  BY AccountingBounds DEF Accounting!NoConn, Accounting!Row
<1>2. \A l \in Loop : accJob[l] = Accounting!Rest
  BY DEF Accounting!Init
<1>3. accJob["bills"] = Accounting!Rest
  BY <1>2, AccountingBounds
<1>4. AccTables
  <2>1. accJob \in [Loop -> LoopJob]
    BY RestIsJob DEF Accounting!Init
  <2>2. /\ conn \in [Provider -> Accounting!Row] /\ live \in [Provider -> SUBSET Nat]
        /\ issued \in [Provider -> 0 .. MaxTokens] /\ stale \subseteq Provider
        /\ accConsents \in 0 .. MaxConsents
    BY <1>1, AccountingBounds DEF Accounting!Init
  <2>3. \A p \in Provider : conn[p] = Accounting!NoConn /\ live[p] = {} /\ issued[p] = 0
    BY DEF Accounting!Init
  <2> QED BY <1>1, <1>2, <2>1, <2>2, <2>3, RestIsJob DEF AccTables, Accounting!On, Resting
<1>5. AccAlerts
  BY <1>3, RestIsJob DEF Accounting!Init, AccAlerts
<1>6. RefreshInTurn
  BY <1>1, <1>2, RestIsJob DEF Accounting!Init, RefreshInTurn, Accounting!On
<1>7. NotesInTurn
  BY DEF Accounting!Init, NotesInTurn
<1> QED BY <1>4, <1>5, <1>6, <1>7 DEF AccInv

-----------------------------------------------------------------------------
(* One loop moves on, and the rows keep their ids and their tokens.       *)
SameRows ==
    /\ conn' \in [Provider -> Accounting!Row]
    /\ \A p \in Provider : /\ conn'[p].id = conn[p].id /\ conn'[p].token = conn[p].token
                           /\ conn[p] = Accounting!NoConn => conn'[p] = Accounting!NoConn

(* A step of a loop writes that loop's job.                               *)
LEMMA JobMoves ==
    ASSUME AccInv, NEW l \in Loop, NEW s \in LoopJob, Accounting!Step(l, s)
    PROVE  /\ accJob' \in [Loop -> LoopJob] /\ accJob'[l] = s
           /\ \A k \in Loop : k # l => accJob'[k] = accJob[k]
  BY DEF Accounting!Step, AccInv, AccTables

(* Rows that are not written are the same rows.                           *)
LEMMA RowsStay == UNCHANGED conn /\ AccInv => SameRows
  BY DEF SameRows, AccInv, AccTables

(* The tables keep their shape.                                           *)
LEMMA TablesKept ==
    ASSUME AccInv, NEW l \in Loop, NEW s \in LoopJob, Accounting!Step(l, s), SameRows,
           UNCHANGED <<live, issued, stale, accConsents>>,
           s.at \in Resting <=> s.p = "none",
           s.p # "none" => s.id # 0 /\ s.token \in 1 .. issued[s.p]
    PROVE  AccTables'
<1>1. /\ accJob' \in [Loop -> LoopJob] /\ accJob'[l] = s
      /\ \A k \in Loop : k # l => accJob'[k] = accJob[k]
  BY JobMoves
<1>2. \A p \in Provider : Accounting!On(p)' = Accounting!On(p)
  BY DEF Accounting!On, SameRows
<1>3. \A k \in Loop :
          /\ accJob'[k].at \in Resting <=> accJob'[k].p = "none"
          /\ accJob'[k].p # "none" => accJob'[k].id # 0
                 /\ accJob'[k].token \in 1 .. issued'[accJob'[k].p]
  BY <1>1 DEF AccInv, AccTables
<1>4. \A p \in Provider : /\ Accounting!On(p)' = (conn'[p].token > 0)
                          /\ ~Accounting!On(p)' => conn'[p] = Accounting!NoConn
                          /\ live'[p] \subseteq 1 .. issued'[p]
                          /\ conn'[p].token <= issued'[p]
  BY <1>2 DEF AccInv, AccTables, SameRows
<1>5. conn' \in [Provider -> Accounting!Row]
  BY DEF SameRows
<1> QED BY <1>1, <1>3, <1>4, <1>5 DEF AccInv, AccTables

(* Tokens stay in turn.                                                   *)
LEMMA TurnKept ==
    ASSUME AccInv, NEW l \in Loop, NEW s \in LoopJob, Accounting!Step(l, s), SameRows,
           UNCHANGED live, accOdd = {} => accJob[l].at # "store", s.at # "store",
           s.at \in Resting <=> s.p = "none",
           accOdd' = {} => accOdd = {},
           accOdd' = {} /\ s.p # "none" => /\ Accounting!On(s.p) /\ conn[s.p].id = s.id
                                           /\ s.at = "token" => s.token = conn[s.p].token
    PROVE  RefreshInTurn'
<1> SUFFICES ASSUME accOdd' = {} PROVE RefreshInTurn'
  BY DEF RefreshInTurn
<1>1. /\ accJob' \in [Loop -> LoopJob] /\ accJob'[l] = s
      /\ \A k \in Loop : k # l => accJob'[k] = accJob[k]
  BY JobMoves
<1>2. /\ \A p \in Provider : Accounting!On(p)' = Accounting!On(p) /\ conn'[p].id = conn[p].id
             /\ conn'[p].token = conn[p].token
      /\ \A k \in Loop : accJob[k].p # "none" => accJob[k].p \in Provider
      /\ \A k \in Loop : accJob[k].at \in {"store", "token"} => accJob[k].p # "none"
      /\ s.p # "none" => s.p \in Provider
  BY DEF Accounting!On, SameRows, AccInv, AccTables, LoopJob, Resting
<1>3. accOdd = {} /\ accJob[l].at # "store"
  OBVIOUS
<1>4. s.at = "token" => s.p # "none"
  BY DEF Resting
<1> QED BY <1>1, <1>2, <1>3, <1>4 DEF AccInv, RefreshInTurn

(* What is known of an alert stays so.                                    *)
LEMMA AlertsKept ==
    ASSUME AccInv, NEW l \in Loop, NEW s \in LoopJob, Accounting!Step(l, s), UNCHANGED accAlert,
           done' \subseteq Raised, notes' \in [Provider \X BankAlert -> 0 .. 2], accFaults' \in Nat,
           l = "bills" => /\ \A x \in s.todo : x[2] \in Raised
                          /\ s.p # "none" => s.a \in Raised /\ <<s.p, s.a>> \notin s.todo
    PROVE  AccAlerts'
<1>1. /\ accJob'[l] = s /\ \A k \in Loop : k # l => accJob'[k] = accJob[k]
  BY JobMoves
<1>2. Raised' = Raised
  BY DEF Raised
<1>3. CASE l = "bills"
  BY <1>1, <1>2, <1>3 DEF AccInv, AccAlerts, Current
<1>4. CASE l # "bills"
  BY <1>1, <1>2, <1>4, AccountingBounds DEF AccInv, AccAlerts, Current
<1> QED BY <1>3, <1>4

(* No note is written, and the bills loop goes on to what is not noted.   *)
LEMMA NotesKept ==
    ASSUME AccInv, NEW l \in Loop, NEW s \in LoopJob, Accounting!Step(l, s), UNCHANGED <<done,
               notes, accFaults>>,
           s.at \in Resting <=> s.p = "none",
           l = "bills" =>
               /\ accJob[l].at # "mark"
               /\ \A x \in s.todo : x \in accJob[l].todo \/ x[2] \notin done
               /\ s.p # "none" => \/ <<s.p, s.a>> \in accJob[l].todo
                                  \/ /\ accJob[l].at \in {"token", "store", "call"}
                                     /\ Current = <<s.p, s.a>>
    PROVE  NotesInTurn'
<1>1. /\ accJob'[l] = s /\ \A k \in Loop : k # l => accJob'[k] = accJob[k]
  BY JobMoves
<1>2. CASE l # "bills"
  <2>1. accJob'["bills"] = accJob["bills"] /\ Current' = Current
    BY <1>1, <1>2, AccountingBounds DEF Current
  <2> QED BY <2>1 DEF AccInv, NotesInTurn
<1>3. CASE l = "bills"
  <2> SUFFICES ASSUME NEW p \in Provider, NEW a \in BankAlert
               PROVE  /\ notes[<<p, a>>] = 2 => p \notin Idempotent /\ accFaults > 0
                      /\ notes[<<p, a>>] = 1 /\ accFaults = 0 =>
                            /\ <<p, a>> \notin s.todo /\ a \in done
                            /\ s.at \in {"token", "store", "call"} => <<s.p, s.a>> # <<p, a>>
    BY <1>1, <1>3 DEF NotesInTurn, Current
  <2>1. notes[<<p, a>>] = 2 => p \notin Idempotent /\ accFaults > 0
    BY DEF AccInv, NotesInTurn
  <2>2. ASSUME notes[<<p, a>>] = 1, accFaults = 0
        PROVE  /\ <<p, a>> \notin s.todo /\ a \in done
               /\ s.at \in {"token", "store", "call"} => <<s.p, s.a>> # <<p, a>>
    <3>1. /\ <<p, a>> \notin accJob["bills"].todo /\ a \in done
          /\ accJob["bills"].at \in {"token", "store", "call"} => Current # <<p, a>>
      BY <1>3, <2>2 DEF AccInv, NotesInTurn
    <3>2. <<p, a>>[2] = a
      OBVIOUS
    <3>3. <<p, a>> \notin s.todo
      BY <1>3, <3>1, <3>2
    <3>4. s.at \in {"token", "store", "call"} => s.p # "none"
      BY DEF Resting
    <3> QED BY <1>3, <3>1, <3>3, <3>4
  <2> QED BY <2>1, <2>2
<1> QED BY <1>2, <1>3

-----------------------------------------------------------------------------
(* The loops' steps that write no token and no note.                      *)
LEMMA ListIs ==
    ASSUME NEW todo
    PROVE  [Accounting!Rest EXCEPT !.at = "list", !.todo = todo] =
               [at |-> "list", todo |-> todo, p |-> "none", a |-> Accounting!NoAlert, token |-> 0,
               id |-> 0]
<1>1. /\ DOMAIN Accounting!Rest = {"at", "todo", "p", "a", "token", "id"}
      /\ Accounting!Rest.p = "none" /\ Accounting!Rest.a = Accounting!NoAlert
             /\ Accounting!Rest.token = 0 /\ Accounting!Rest.id = 0
  BY DEF Accounting!Rest
<1> DEFINE r == [Accounting!Rest EXCEPT !.at = "list", !.todo = todo]
<1>2. /\ r = [x \in DOMAIN Accounting!Rest |-> r[x]] /\ r.at = "list" /\ r.todo = todo
      /\ r.p = "none" /\ r.a = Accounting!NoAlert /\ r.token = 0 /\ r.id = 0
  BY <1>1
<1> HIDE DEF r
<1>3. r = [at |-> "list", todo |-> todo, p |-> "none", a |-> Accounting!NoAlert, token |-> 0,
          id |-> 0]
  BY <1>1, <1>2
<1> QED BY <1>3 DEF r

(* A loop lists the connections.                                          *)
LEMMA AccStartSyncKeeps == ASSUME AccInv, NEW l \in Loop, Accounting!StartSync(l) PROVE AccInv'
<1>1. PICK todo \in SUBSET Accounting!Due(l) :
         Accounting!Step(l, [Accounting!Rest EXCEPT !.at = "list", !.todo = {<<p,
         Accounting!NoAlert>> : p \in todo}])
  BY DEF Accounting!StartSync
<1> DEFINE s == [at |-> "list", todo |-> {<<p, Accounting!NoAlert>> : p \in todo}, p |-> "none",
                 a |-> Accounting!NoAlert, token |-> 0, id |-> 0]
<1>2. Accounting!Step(l, s)
  BY <1>1, ListIs
<1>3. s \in LoopJob /\ s.at = "list" /\ s.p = "none"
  BY DEF LoopJob, Accounting!Due
<1> HIDE DEF s
<1>4. /\ l # "bills" /\ accJob[l].at = "rest"
      /\ UNCHANGED <<conn, live, issued, stale, accAlert, done, notes, accConsents, accFaults,
             accOdd>>
  BY DEF Accounting!StartSync
<1>5. SameRows
  BY <1>4, RowsStay
<1>6. /\ done' \subseteq Raised /\ notes' \in [Provider \X BankAlert -> 0 .. 2]
             /\ accFaults' \in Nat
  BY <1>4 DEF AccInv, AccAlerts
<1>7. AccTables' /\ RefreshInTurn'
  BY <1>2, <1>3, <1>4, <1>5, TablesKept, TurnKept DEF Resting
<1>8. AccAlerts' /\ NotesInTurn'
  BY <1>2, <1>3, <1>4, <1>6, AlertsKept, NotesKept DEF Resting
<1> QED BY <1>7, <1>8 DEF AccInv

(* The loop of the bills lists the alerts to note.                        *)
LEMMA AccStartFlaggingKeeps == AccInv /\ Accounting!StartFlagging => AccInv'
<1> SUFFICES ASSUME AccInv, Accounting!StartFlagging PROVE AccInv'
  OBVIOUS
<1> DEFINE todo == {x \in Provider \X Accounting!Open : Accounting!On(x[1]) /\ conn[x[1]].flag}
           s == [at |-> "list", todo |-> todo, p |-> "none", a |-> Accounting!NoAlert,
           token |-> 0, id |-> 0]
<1>1. /\ Accounting!Step("bills", s) /\ accJob["bills"].at = "rest" /\ "bills" \in Loop
      /\ UNCHANGED <<conn, live, issued, stale, accAlert, done, notes, accConsents, accFaults,
             accOdd>>
  BY ListIs DEF Accounting!StartFlagging
<1>2. s \in LoopJob /\ s.at = "list" /\ s.p = "none" /\ s.todo = todo
  BY DEF LoopJob, Accounting!Open
<1>3. \A x \in todo : x[2] \in Raised /\ x[2] \notin done
  BY DEF Accounting!Open, Raised, Accounting!Unmarked
<1> HIDE DEF s, todo
<1>4. SameRows
  BY <1>1, RowsStay
<1>5. done' \subseteq Raised /\ notes' \in [Provider \X BankAlert -> 0 .. 2] /\ accFaults' \in Nat
  BY <1>1 DEF AccInv, AccAlerts
<1>6. AccTables' /\ RefreshInTurn'
  BY <1>1, <1>2, <1>4, TablesKept, TurnKept DEF Resting
<1>7. AccAlerts' /\ NotesInTurn'
  BY <1>1, <1>2, <1>3, <1>5, AlertsKept, NotesKept DEF Resting
<1> QED BY <1>6, <1>7 DEF AccInv

(* What a loop is about to do is well formed.                             *)
LEMMA AccJobIs ==
    ASSUME AccInv, NEW l \in Loop
    PROVE  /\ accJob[l] \in LoopJob
           /\ accJob[l].todo \subseteq Provider \X (BankAlert \cup {Accounting!NoAlert})
           /\ accJob[l].at \in Resting <=> accJob[l].p = "none"
           /\ accJob[l].p # "none" => /\ accJob[l].p \in Provider /\ accJob[l].id # 0
                                      /\ accJob[l].token \in 1 .. issued[accJob[l].p]
  BY DEF AccInv, AccTables, LoopJob

(* A loop takes the next of its list.                                     *)
LEMMA AccTakeKeeps == ASSUME AccInv, NEW l \in Loop, Accounting!Take(l) PROVE AccInv'
<1>1. PICK x \in accJob[l].todo :
         Accounting!Step(l, IF Accounting!On(x[1])
                            THEN [at |-> IF Accounting!Matched(l, x[1]) THEN "token" ELSE "mark",
                                  todo |-> accJob[l].todo \ {x}, p |-> x[1], a |-> x[2],
                                  token |-> conn[x[1]].token, id |-> conn[x[1]].id]
                            ELSE [Accounting!Rest EXCEPT !.at = "list", !.todo =
                            accJob[l].todo \ {x}])
  BY DEF Accounting!Take
<1>2. /\ accJob[l].at = "list"
      /\ UNCHANGED <<conn, live, issued, stale, accAlert, done, notes, accConsents, accFaults,
             accOdd>>
  BY DEF Accounting!Take
<1>3. /\ x \in Provider \X (BankAlert \cup {Accounting!NoAlert}) /\ accJob[l].p = "none"
      /\ accJob[l].todo \subseteq Provider \X (BankAlert \cup {Accounting!NoAlert})
  BY <1>2, AccJobIs DEF Resting
<1>4. PICK p \in Provider, a \in BankAlert \cup {Accounting!NoAlert} : x = <<p, a>>
  BY <1>3
<1>5. x[1] = p /\ x[2] = a
  BY <1>4
<1>6. SameRows
  BY <1>2, RowsStay
<1>7. done' \subseteq Raised /\ notes' \in [Provider \X BankAlert -> 0 .. 2] /\ accFaults' \in Nat
  BY <1>2 DEF AccInv, AccAlerts
<1>8. l = "bills" => a \in Raised /\ \A y \in accJob[l].todo : y[2] \in Raised
  BY <1>5 DEF AccInv, AccAlerts
<1>9. CASE Accounting!On(p)
  <2> DEFINE s == [at |-> IF Accounting!Matched(l, p) THEN "token" ELSE "mark",
                 todo |-> accJob[l].todo \ {x},
                   p |-> p, a |-> a, token |-> conn[p].token, id |-> conn[p].id]
  <2>1. Accounting!Step(l, s)
    BY <1>1, <1>5, <1>9
  <2>2. /\ conn[p].token \in Nat /\ conn[p].id \in Nat /\ conn[p].token > 0 /\ conn[p].id # 0
        /\ conn[p].token <= issued[p] /\ p # "none" /\ issued[p] \in Nat
    BY <1>9, AccountingBounds DEF AccInv, AccTables, Accounting!Row, Accounting!On
  <2>3. /\ s \in LoopJob /\ s.at \in {"token", "mark"} /\ s.p = p /\ s.a = a
        /\ s.todo = accJob[l].todo \ {x} /\ s.token = conn[p].token /\ s.id = conn[p].id
    BY <1>3, <2>2 DEF LoopJob
  <2> HIDE DEF s
  <2>4. AccTables'
    BY <1>2, <1>6, <2>1, <2>2, <2>3, TablesKept DEF Resting
  <2>5. RefreshInTurn'
    BY <1>2, <1>6, <1>9, <2>1, <2>2, <2>3, TurnKept DEF Resting
  <2>6. AccAlerts'
    BY <1>2, <1>4, <1>7, <1>8, <2>1, <2>3, AlertsKept
  <2>7. NotesInTurn'
    BY <1>2, <1>4, <2>1, <2>2, <2>3, NotesKept DEF Resting
  <2> QED BY <2>4, <2>5, <2>6, <2>7 DEF AccInv
<1>10. CASE ~Accounting!On(p)
  <2> DEFINE s == [at |-> "list", todo |-> accJob[l].todo \ {x}, p |-> "none",
                 a |-> Accounting!NoAlert,
                   token |-> 0, id |-> 0]
  <2>1. Accounting!Step(l, s)
    BY <1>1, <1>5, <1>10, ListIs
  <2>2. s \in LoopJob /\ s.at = "list" /\ s.p = "none" /\ s.todo = accJob[l].todo \ {x}
    BY <1>3 DEF LoopJob
  <2> HIDE DEF s
  <2>3. AccTables' /\ RefreshInTurn'
    BY <1>2, <1>6, <2>1, <2>2, TablesKept, TurnKept DEF Resting
  <2>4. AccAlerts' /\ NotesInTurn'
    BY <1>2, <1>7, <1>8, <2>1, <2>2, AlertsKept, NotesKept DEF Resting
  <2> QED BY <2>3, <2>4 DEF AccInv
<1> QED BY <1>9, <1>10

(* A loop comes to the end of its list.                                   *)
LEMMA AccEndListKeeps == ASSUME AccInv, NEW l \in Loop, Accounting!EndList(l) PROVE AccInv'
<1>1. /\ accJob[l].at = "list" /\ Accounting!Step(l, Accounting!Rest)
      /\ UNCHANGED <<conn, live, issued, stale, accAlert, done, notes, accConsents, accFaults,
             accOdd>>
  BY DEF Accounting!EndList
<1>2. SameRows
  BY <1>1, RowsStay
<1>3. done' \subseteq Raised /\ notes' \in [Provider \X BankAlert -> 0 .. 2] /\ accFaults' \in Nat
  BY <1>1 DEF AccInv, AccAlerts
<1>4. AccTables' /\ RefreshInTurn'
  BY <1>1, <1>2, RestIsJob, TablesKept, TurnKept DEF Resting
<1>5. AccAlerts' /\ NotesInTurn'
  BY <1>1, <1>3, RestIsJob, AlertsKept, NotesKept DEF Resting
<1> QED BY <1>4, <1>5 DEF AccInv

(* A job that goes on to another place keeps what it holds.               *)
LEMMA ToIs ==
    ASSUME AccInv, NEW l \in Loop, NEW at \in {"token", "store", "call", "mark"}
    PROVE  /\ Accounting!To(l, at) \in LoopJob /\ Accounting!To(l, at).at = at /\ Accounting!To(l,
                  at).p = accJob[l].p
           /\ Accounting!To(l, at).a = accJob[l].a /\ Accounting!To(l, at).todo = accJob[l].todo
           /\ Accounting!To(l, at).token = accJob[l].token /\ Accounting!To(l, at).id = accJob[l].id
<1>1. accJob[l] \in LoopJob
  BY AccJobIs
<1> QED BY <1>1 DEF Accounting!To, LoopJob

(* A loop presents the refresh token it read.                             *)
LEMMA AccUseTokenKeeps == ASSUME AccInv, NEW l \in Loop, Accounting!UseToken(l) PROVE AccInv'
<1>1. /\ accJob[l].at = "token" /\ Accounting!Step(l, Accounting!To(l, "call"))
      /\ UNCHANGED <<conn, live, issued, stale, accAlert, done, notes, accConsents, accFaults,
             accOdd>>
  BY DEF Accounting!UseToken
<1>2. SameRows
  BY <1>1, RowsStay
<1>3. done' \subseteq Raised /\ notes' \in [Provider \X BankAlert -> 0 .. 2] /\ accFaults' \in Nat
  BY <1>1 DEF AccInv, AccAlerts
<1>4. accJob[l].p # "none" /\ accJob[l].id # 0 /\ accJob[l].token \in 1 .. issued[accJob[l].p]
  BY <1>1, AccJobIs DEF Resting
<1> DEFINE s == Accounting!To(l, "call")
<1>5. /\ s \in LoopJob /\ s.at = "call" /\ s.p = accJob[l].p /\ s.a = accJob[l].a /\ s.todo =
             accJob[l].todo
      /\ s.token = accJob[l].token /\ s.id = accJob[l].id
  BY ToIs
<1> HIDE DEF s
<1>6. Accounting!Step(l, s)
  BY <1>1 DEF s
<1>7. AccTables'
  BY <1>1, <1>2, <1>4, <1>5, <1>6, TablesKept DEF Resting
<1>8. RefreshInTurn'
  <2>1. accOdd = {} => Accounting!On(accJob[l].p) /\ conn[accJob[l].p].id = accJob[l].id
    BY <1>4 DEF AccInv, RefreshInTurn
  <2> QED BY <1>1, <1>2, <1>4, <1>5, <1>6, <2>1, TurnKept DEF Resting
<1>9. AccAlerts'
  <2>1. l = "bills" => /\ \A x \in s.todo : x[2] \in Raised
                       /\ s.a \in Raised /\ <<s.p, s.a>> \notin s.todo
    BY <1>4, <1>5 DEF AccInv, AccAlerts, Current
  <2> QED BY <1>1, <1>3, <1>5, <1>6, <2>1, AlertsKept
<1>10. NotesInTurn'
  <2>1. l = "bills" => Current = <<s.p, s.a>>
    BY <1>5 DEF Current
  <2> QED BY <1>1, <1>4, <1>5, <1>6, <2>1, NotesKept DEF Resting
<1> QED BY <1>7, <1>8, <1>9, <1>10 DEF AccInv

-----------------------------------------------------------------------------
(* What a call that ended leaves.                                         *)
LEMMA AfterIs ==
    ASSUME AccInv, NEW l \in Loop
    PROVE  /\ Accounting!After(l) \in LoopJob /\ Accounting!After(l).at \in Resting
                  /\ Accounting!After(l).p = "none"
           /\ Accounting!After(l).todo \subseteq accJob[l].todo
<1>1. Accounting!Next1(l) = [at |-> "list", todo |-> accJob[l].todo, p |-> "none",
          a |-> Accounting!NoAlert,
                             token |-> 0, id |-> 0]
  BY ListIs DEF Accounting!Next1
<1>2. accJob[l].todo \subseteq Provider \X (BankAlert \cup {Accounting!NoAlert})
  BY AccJobIs
<1>3. /\ Accounting!Next1(l) \in LoopJob /\ Accounting!Next1(l).at = "list"
             /\ Accounting!Next1(l).p = "none"
      /\ Accounting!Next1(l).todo = accJob[l].todo
  BY <1>1, <1>2 DEF LoopJob
<1>4. Accounting!After(l) = Accounting!Next1(l) \/ Accounting!After(l) = Accounting!Rest
  BY DEF Accounting!After
<1> QED BY <1>3, <1>4, RestIsJob DEF Resting

(* A row that is written over, with its id and its token.                 *)
LEMMA RowWritten ==
    ASSUME AccInv, NEW p \in Provider, NEW grant \in Accounting!Row, conn' = [conn EXCEPT ![p] =
               grant],
           grant.id = conn[p].id, grant.token = conn[p].token, Accounting!On(p) \/ grant = conn[p]
    PROVE  SameRows
<1>1. /\ conn' \in [Provider -> Accounting!Row] /\ conn'[p] = grant
      /\ \A q \in Provider : q # p => conn'[q] = conn[q]
  BY DEF AccInv, AccTables
<1>2. conn[p] = Accounting!NoConn => conn'[p] = Accounting!NoConn
  BY <1>1 DEF Accounting!On, Accounting!NoConn
<1> QED BY <1>1, <1>2 DEF SameRows

(* The connection a loop holds is one that is on.                         *)
LEMMA HeldIsOn ==
    ASSUME AccInv, NEW l \in Loop, accJob[l].p # "none"
    PROVE  /\ accJob[l].p \in Provider /\ (Accounting!Holds(l) => Accounting!On(accJob[l].p))
                  /\ (accOdd = {} => Accounting!Holds(l))
           /\ conn[accJob[l].p] \in Accounting!Row
  BY AccJobIs DEF Accounting!Holds, Accounting!On, AccInv, AccTables, RefreshInTurn

(* What a loop does with a connection that fails.                         *)
LEMMA FailsIs ==
    ASSUME AccInv, NEW l \in Loop, accJob[l].p # "none", Accounting!Fails(l)
    PROVE  SameRows /\ Accounting!Step(l, Accounting!After(l))
<1> DEFINE p == accJob[l].p
           grant == Accounting!Errored(l, conn[p])
<1>1. /\ p \in Provider /\ conn[p] \in Accounting!Row /\ (Accounting!Holds(l) => Accounting!On(p))
  BY HeldIsOn
<1>2. conn' = [conn EXCEPT ![p] = grant] /\ Accounting!Step(l, Accounting!After(l))
  BY DEF Accounting!Fails, Accounting!AfterError
<1>3. /\ grant \in Accounting!Row /\ grant.id = conn[p].id /\ grant.token = conn[p].token
      /\ Accounting!On(p) \/ grant = conn[p]
  BY <1>1 DEF Accounting!Errored, Accounting!Row
<1> HIDE DEF grant, p
<1> QED BY <1>1, <1>2, <1>3, RowWritten

(* A loop goes on to the next of its list.                                *)
LEMMA GoesOn ==
    ASSUME AccInv, NEW l \in Loop, Accounting!Step(l, Accounting!After(l)), SameRows,
           UNCHANGED <<live, issued, stale, accConsents, accAlert>>,
           accOdd' = {} => accOdd = {} /\ accJob[l].at # "store",
           accOdd = {} => accJob[l].at # "store"
    PROVE  /\ AccTables' /\ RefreshInTurn'
           /\ done' \subseteq Raised /\ notes' \in [Provider \X BankAlert -> 0 .. 2]
                  /\ accFaults' \in Nat =>
                    AccAlerts'
           /\ UNCHANGED <<done, notes, accFaults>> /\ accJob[l].at # "mark" => NotesInTurn'
<1> DEFINE s == Accounting!After(l)
<1>1. s \in LoopJob /\ s.at \in Resting /\ s.p = "none" /\ s.todo \subseteq accJob[l].todo
  BY AfterIs
<1>2. s.at # "store" /\ (l = "bills" => \A x \in s.todo : x[2] \in Raised)
  BY <1>1 DEF Resting, AccInv, AccAlerts
<1> HIDE DEF s
<1>3. Accounting!Step(l, s)
  BY DEF s
<1>4. AccTables' /\ RefreshInTurn'
  BY <1>1, <1>2, <1>3, TablesKept, TurnKept
<1>5. ASSUME done' \subseteq Raised, notes' \in [Provider \X BankAlert -> 0 .. 2],
                 accFaults' \in Nat
      PROVE  AccAlerts'
  BY <1>1, <1>2, <1>3, <1>5, AlertsKept
<1>6. ASSUME UNCHANGED <<done, notes, accFaults>>, accJob[l].at # "mark"
      PROVE  NotesInTurn'
  <2>1. l = "bills" => \A x \in s.todo : x \in accJob[l].todo \/ x[2] \notin done
    BY <1>1
  <2> QED BY <1>1, <1>3, <1>6, <2>1, NotesKept
<1> QED BY <1>4, <1>5, <1>6

(* The provider refuses the token.                                        *)
LEMMA AccRefusedKeeps == ASSUME AccInv, NEW l \in Loop, Accounting!Refused(l) PROVE AccInv'
<1>1. /\ accJob[l].at \in {"token", "store"} /\ (accJob[l].at = "store" =>
             ~Accounting!Holds(l)) /\ Accounting!Fails(l)
      /\ UNCHANGED <<live, issued, stale, accAlert, done, notes, accConsents, accFaults, accOdd>>
  BY DEF Accounting!Refused
<1>2. accJob[l].p # "none"
  BY <1>1, AccJobIs DEF Resting
<1>3. SameRows /\ Accounting!Step(l, Accounting!After(l)) /\ (accOdd = {} => accJob[l].at # "store")
  BY <1>1, <1>2, FailsIs, HeldIsOn
<1>4. done' \subseteq Raised /\ notes' \in [Provider \X BankAlert -> 0 .. 2] /\ accFaults' \in Nat
  BY <1>1 DEF AccInv, AccAlerts
<1> QED BY <1>1, <1>3, <1>4, GoesOn DEF AccInv

(* A call fails.                                                          *)
LEMMA AccCallFailsKeeps == ASSUME AccInv, NEW l \in Loop, Accounting!CallFails(l) PROVE AccInv'
<1>1. /\ accJob[l].at = "call" /\ accFaults' = accFaults + 1 /\ accOdd' = accOdd
             /\ Accounting!Fails(l)
      /\ UNCHANGED <<live, issued, stale, accAlert, done, accConsents>>
  BY DEF Accounting!CallFails, Accounting!Fault
<1>2. accJob[l].p # "none"
  BY <1>1, AccJobIs DEF Resting
<1>3. SameRows /\ Accounting!Step(l, Accounting!After(l))
  BY <1>1, <1>2, FailsIs
<1>4. accFaults \in Nat /\ accFaults' > 0 /\ accFaults' \in Nat /\ done' \subseteq Raised
  BY <1>1 DEF AccInv, AccAlerts
<1>5. \/ notes' = notes
      \/ /\ accJob["bills"].p \in Provider /\ accJob["bills"].a \in BankAlert
         /\ notes[Current] < 2 /\ ~(accJob["bills"].p \in Idempotent /\ notes[Current] = 1)
         /\ notes' = [notes EXCEPT ![Current] = @ + 1]
  BY <1>2, AccJobIs DEF Accounting!CallFails, Current, AccInv, AccAlerts, Raised
<1>6. /\ notes' \in [Provider \X BankAlert -> 0 .. 2]
      /\ \A p \in Provider, a \in BankAlert :
            notes'[<<p, a>>] = 2 => notes[<<p, a>>] = 2 \/ p \notin Idempotent
  <2>1. CASE notes' = notes
    BY <2>1 DEF AccInv, AccAlerts
  <2>2. ASSUME NEW q \in Provider, NEW b \in BankAlert, Current = <<q, b>>, q = accJob["bills"].p,
               notes[<<q, b>>] < 2, ~(q \in Idempotent /\ notes[<<q, b>>] = 1),
               notes' = [notes EXCEPT ![<<q, b>>] = @ + 1]
        PROVE  /\ notes' \in [Provider \X BankAlert -> 0 .. 2]
               /\ \A p \in Provider, a \in BankAlert :
                     notes'[<<p, a>>] = 2 => notes[<<p, a>>] = 2 \/ p \notin Idempotent
    <3>1. notes \in [Provider \X BankAlert -> 0 .. 2] /\ <<q, b>> \in Provider \X BankAlert
      BY DEF AccInv, AccAlerts
    <3>2. notes[<<q, b>>] \in 0 .. 2 /\ notes[<<q, b>>] + 1 \in 0 .. 2
      BY <2>2, <3>1
    <3>3. notes' \in [Provider \X BankAlert -> 0 .. 2]
      BY <2>2, <3>1, <3>2
    <3>4. ASSUME NEW p \in Provider, NEW a \in BankAlert, notes'[<<p, a>>] = 2
          PROVE  notes[<<p, a>>] = 2 \/ p \notin Idempotent
      <4>1. CASE <<p, a>> = <<q, b>>
        BY <2>2, <3>1, <3>2, <3>4, <4>1
      <4>2. CASE <<p, a>> # <<q, b>>
        BY <2>2, <3>1, <3>4, <4>2
      <4> QED BY <4>1, <4>2
    <3> QED BY <3>3, <3>4
  <2> QED BY <1>5, <2>1, <2>2 DEF Current
<1>7. AccTables' /\ RefreshInTurn' /\ AccAlerts'
  BY <1>1, <1>3, <1>4, <1>6, GoesOn
<1>8. NotesInTurn'
  <2>1. \A p \in Provider, a \in BankAlert : notes[<<p, a>>] = 2 => p \notin Idempotent
    BY DEF NotesInTurn, AccInv
  <2>2. \A p \in Provider, a \in BankAlert : notes'[<<p, a>>] = 2 => p \notin Idempotent
    BY <1>6, <2>1
  <2>3. accFaults' # 0
    BY <1>4
  <2> QED BY <1>4, <2>2, <2>3 DEF NotesInTurn
<1> QED BY <1>7, <1>8 DEF AccInv

(* A sync is through.                                                     *)
LEMMA AccFinishSyncKeeps == ASSUME AccInv, NEW l \in Loop, Accounting!FinishSync(l) PROVE AccInv'
<1> DEFINE p == accJob[l].p
           grant == IF Accounting!Holds(l) THEN [conn[p] EXCEPT !.known = TRUE, !.error = FALSE,
           !.asked = FALSE]
                    ELSE conn[p]
<1>1. /\ accJob[l].at = "call" /\ l # "bills" /\ Accounting!Step(l, Accounting!After(l))
      /\ conn' = [conn EXCEPT ![p] = grant]
      /\ UNCHANGED <<live, issued, stale, accAlert, done, notes, accConsents, accFaults, accOdd>>
  BY DEF Accounting!FinishSync
<1>2. p # "none"
  BY <1>1, AccJobIs DEF Resting
<1>3. /\ p \in Provider /\ conn[p] \in Accounting!Row /\ (Accounting!Holds(l) => Accounting!On(p))
  BY <1>2, HeldIsOn
<1>4. /\ grant \in Accounting!Row /\ grant.id = conn[p].id /\ grant.token = conn[p].token
      /\ Accounting!On(p) \/ grant = conn[p]
  BY <1>3 DEF Accounting!Row
<1>5. SameRows
  <2> HIDE DEF grant, p
  <2> QED BY <1>1, <1>3, <1>4, RowWritten
<1>6. done' \subseteq Raised /\ notes' \in [Provider \X BankAlert -> 0 .. 2] /\ accFaults' \in Nat
  BY <1>1 DEF AccInv, AccAlerts
<1> QED BY <1>1, <1>5, <1>6, GoesOn DEF AccInv

-----------------------------------------------------------------------------
(* A note is attached to the supplier's bills.                            *)
LEMMA AccNoteBillsKeeps == AccInv /\ Accounting!NoteBills => AccInv'
<1> SUFFICES ASSUME AccInv, Accounting!NoteBills PROVE AccInv'
  OBVIOUS
<1> DEFINE l == "bills"
           s == Accounting!To(l, "mark")
<1>1. /\ accJob[l].at = "call" /\ Accounting!Step(l, s) /\ notes' = [notes EXCEPT ![Current] =
             Accounting!Noted(Current[1], @)]
      /\ UNCHANGED <<conn, live, issued, stale, accAlert, done, accConsents, accFaults, accOdd>>
  BY DEF Accounting!NoteBills, Current
<1>2. /\ l \in Loop /\ accJob[l].p # "none" /\ accJob[l].p \in Provider /\ accJob[l].id # 0
      /\ accJob[l].token \in 1 .. issued[accJob[l].p] /\ accJob[l].a \in Raised
             /\ accJob[l].a \in BankAlert
      /\ Current \notin accJob[l].todo
  BY <1>1, AccountingBounds, AccJobIs DEF Resting, AccInv, AccAlerts, Raised
<1>3. /\ s \in LoopJob /\ s.at = "mark" /\ s.p = accJob[l].p /\ s.a = accJob[l].a /\ s.todo =
             accJob[l].todo
      /\ s.token = accJob[l].token /\ s.id = accJob[l].id
  BY <1>2, ToIs
<1> HIDE DEF s
<1>4. SameRows
  BY <1>1, RowsStay
<1>5. PICK q \in Provider, b \in BankAlert : Current = <<q, b>> /\ q = accJob[l].p /\ b =
               accJob[l].a
  BY <1>2 DEF Current
<1>6. /\ <<q, b>> \in Provider \X BankAlert /\ <<q, b>>[1] = q
             /\ notes \in [Provider \X BankAlert -> 0 .. 2]
      /\ notes[<<q, b>>] \in 0 .. 2 /\ Accounting!Noted(q, notes[<<q, b>>]) \in 1 .. 2
      /\ Accounting!Noted(q, notes[<<q, b>>]) = 2 =>
            notes[<<q, b>>] = 2 \/ (q \notin Idempotent /\ notes[<<q, b>>] = 1)
  BY DEF Accounting!Noted, AccInv, AccAlerts
<1>7. /\ notes' \in [Provider \X BankAlert -> 0 .. 2] /\ notes'[<<q, b>>] = Accounting!Noted(q,
             notes[<<q, b>>])
      /\ \A p \in Provider, a \in BankAlert : <<p, a>> # <<q, b>> => notes'[<<p, a>>] = notes[<<p,
             a>>]
  BY <1>1, <1>5, <1>6
<1>8. AccTables'
  BY <1>1, <1>2, <1>3, <1>4, TablesKept DEF Resting
<1>9. RefreshInTurn'
  <2>1. accOdd = {} => Accounting!On(accJob[l].p) /\ conn[accJob[l].p].id = accJob[l].id
    BY <1>2 DEF AccInv, RefreshInTurn
  <2> QED BY <1>1, <1>2, <1>3, <1>4, <2>1, TurnKept DEF Resting
<1>10. AccAlerts'
  <2>1. /\ \A x \in s.todo : x[2] \in Raised
        /\ s.a \in Raised /\ <<s.p, s.a>> \notin s.todo
    BY <1>2, <1>3 DEF AccInv, AccAlerts, Current
  <2>2. done' \subseteq Raised /\ accFaults' \in Nat
    BY <1>1 DEF AccInv, AccAlerts
  <2> QED BY <1>1, <1>2, <1>3, <1>7, <2>1, <2>2, AlertsKept
<1>11. NotesInTurn'
  <2>1. accJob'[l] = s
    BY <1>1, <1>2, <1>3, JobMoves
  <2>2. Current' = <<q, b>>
    BY <1>3, <1>5, <2>1 DEF Current
  <2>3. accFaults = 0 => notes[<<q, b>>] = 0
    BY <1>1, <1>5, <1>6 DEF AccInv, NotesInTurn
  <2> SUFFICES ASSUME NEW p \in Provider, NEW a \in BankAlert
               PROVE  /\ notes'[<<p, a>>] = 2 => p \notin Idempotent /\ accFaults' > 0
                      /\ notes'[<<p, a>>] = 1 /\ accFaults' = 0 =>
                            /\ <<p, a>> \notin accJob'["bills"].todo
                            /\ a \in done' \/ (accJob'["bills"].at = "mark" /\ Current' = <<p, a>>)
                            /\ accJob'["bills"].at \in {"token", "store", "call"} =>
                                   Current' # <<p, a>>
    BY DEF NotesInTurn
  <2>4. CASE <<p, a>> = <<q, b>>
    <3>1. p = q /\ a = b
      BY <2>4
    <3>2. accFaults \in Nat /\ (notes[<<q, b>>] = 2 => q \notin Idempotent /\ accFaults > 0)
      BY DEF AccInv, AccAlerts, NotesInTurn
    <3>3. notes'[<<q, b>>] = 2 => q \notin Idempotent /\ accFaults > 0
      BY <1>6, <1>7, <2>3, <3>2
    <3> QED BY <1>1, <1>2, <1>3, <1>5, <2>1, <2>2, <3>1, <3>3
  <2>5. CASE <<p, a>> # <<q, b>>
    BY <1>1, <1>3, <1>5, <1>7, <2>1, <2>2, <2>5 DEF AccInv, NotesInTurn
  <2> QED BY <2>4, <2>5
<1> QED BY <1>8, <1>9, <1>10, <1>11 DEF AccInv

(* The alert is marked as noted.                                          *)
LEMMA AccMarkKeeps == AccInv /\ Accounting!Mark => AccInv'
<1> SUFFICES ASSUME AccInv, Accounting!Mark PROVE AccInv'
  OBVIOUS
<1> DEFINE l == "bills"
<1>1. /\ accJob[l].at = "mark" /\ Accounting!Step(l, Accounting!After(l)) /\ done' =
             done \cup {accJob[l].a}
      /\ UNCHANGED <<conn, live, issued, stale, accAlert, notes, accConsents, accFaults, accOdd>>
  BY DEF Accounting!Mark, Accounting!After
<1>2. l \in Loop /\ accJob[l].p # "none" /\ accJob[l].a \in Raised
  BY <1>1, AccountingBounds, AccJobIs DEF Resting, AccInv, AccAlerts
<1>3. SameRows
  BY <1>1, RowsStay
<1>4. done' \subseteq Raised /\ notes' \in [Provider \X BankAlert -> 0 .. 2] /\ accFaults' \in Nat
  BY <1>1, <1>2 DEF AccInv, AccAlerts
<1>5. AccTables' /\ RefreshInTurn' /\ AccAlerts'
  BY <1>1, <1>2, <1>3, <1>4, GoesOn
<1>6. NotesInTurn'
  <2>1. accJob'[l] = Accounting!After(l) /\ Accounting!After(l).at \in Resting
            /\ Accounting!After(l).todo \subseteq accJob[l].todo
    BY <1>1, <1>2, AfterIs, JobMoves
  <2>2. \A p \in Provider, a \in BankAlert : Current = <<p, a>> => a = accJob[l].a
    BY DEF Current
  <2> QED BY <1>1, <2>1, <2>2 DEF AccInv, NotesInTurn, Resting
<1> QED BY <1>5, <1>6 DEF AccInv

-----------------------------------------------------------------------------
(* A loop spends the stored token: nobody else is storing one, and whoever*)
(* read the same token comes too late.                                    *)
LEMMA AccRefreshKeeps == ASSUME AccInv, NEW l \in Loop, Accounting!Refresh(l) PROVE AccInv'
<1> DEFINE p == accJob[l].p
           n == issued[p] + 1
           s == [Accounting!To(l, "store") EXCEPT !.token = n]
<1>1. /\ accJob[l].at = "token" /\ accJob[l].token \in live[p] /\ issued[p] < MaxTokens
      /\ live' = [live EXCEPT ![p] = (@ \ {accJob[l].token}) \cup {n}]
      /\ issued' = [issued EXCEPT ![p] = n] /\ Accounting!Step(l, s)
      /\ UNCHANGED <<conn, stale, accAlert, done, notes, accConsents, accFaults, accOdd>>
  BY DEF Accounting!Refresh
<1>2. /\ p \in Provider /\ p # "none" /\ accJob[l].id # 0
      /\ issued[p] \in 0 .. MaxTokens /\ n \in 1 .. MaxTokens /\ n > issued[p]
      /\ accJob[l].token \in 1 .. issued[p]
  BY <1>1, AccJobIs, AccountingBounds DEF Resting, AccInv, AccTables
<1>3. /\ s \in LoopJob /\ s.at = "store" /\ s.p = p /\ s.a = accJob[l].a /\ s.todo = accJob[l].todo
      /\ s.token = n /\ s.id = accJob[l].id
  <2>1. /\ Accounting!To(l, "store") \in LoopJob /\ Accounting!To(l, "store").at = "store"
               /\ Accounting!To(l, "store").p = p
        /\ Accounting!To(l, "store").a = accJob[l].a /\ Accounting!To(l, "store").todo =
               accJob[l].todo
        /\ Accounting!To(l, "store").id = accJob[l].id
    BY ToIs
  <2> DEFINE t == Accounting!To(l, "store")
  <2> HIDE DEF t, p
  <2>2. t \in LoopJob => [t EXCEPT !.token = n] \in LoopJob
    BY <1>2 DEF LoopJob
  <2>3. t \in LoopJob => /\ [t EXCEPT !.token = n].at = t.at /\ [t EXCEPT !.token = n].p = t.p
                         /\ [t EXCEPT !.token = n].a = t.a /\ [t EXCEPT !.token = n].todo = t.todo
                         /\ [t EXCEPT !.token = n].token = n /\ [t EXCEPT !.token = n].id = t.id
    BY DEF LoopJob
  <2> QED BY <2>1, <2>2, <2>3 DEF t
<1> HIDE DEF s
<1>4. /\ accJob' \in [Loop -> LoopJob] /\ accJob'[l] = s
      /\ \A k \in Loop : k # l => accJob'[k] = accJob[k]
  BY <1>1, <1>3, JobMoves
<1>5. /\ live' \in [Provider -> SUBSET Nat] /\ live'[p] = (live[p] \ {accJob[l].token}) \cup {n}
      /\ issued' \in [Provider -> 0 .. MaxTokens] /\ issued'[p] = n
      /\ \A q \in Provider : q # p => live'[q] = live[q] /\ issued'[q] = issued[q]
  BY <1>1, <1>2 DEF AccInv, AccTables
<1>6. AccTables'
  <2>1. \A k \in Loop : /\ accJob'[k].at \in Resting <=> accJob'[k].p = "none"
                        /\ accJob'[k].p # "none" =>
                                 accJob'[k].id # 0
                                 /\ accJob'[k].token \in 1 .. issued'[accJob'[k].p]
    <3> SUFFICES ASSUME NEW k \in Loop
                 PROVE  /\ accJob'[k].at \in Resting <=> accJob'[k].p = "none"
                        /\ accJob'[k].p # "none" =>
                                 accJob'[k].id # 0
                                 /\ accJob'[k].token \in 1 .. issued'[accJob'[k].p]
      OBVIOUS
    <3>1. CASE k = l
      BY <1>2, <1>3, <1>4, <1>5, <3>1 DEF Resting
    <3>2. CASE k # l
      BY <1>2, <1>4, <1>5, <3>2, AccJobIs
    <3> QED BY <3>1, <3>2
  <2>2. \A q \in Provider : live'[q] \subseteq 1 .. issued'[q] /\ conn[q].token <= issued'[q]
    <3> SUFFICES ASSUME NEW q \in Provider
                 PROVE  live'[q] \subseteq 1 .. issued'[q] /\ conn[q].token <= issued'[q]
      OBVIOUS
    <3>1. live[q] \subseteq 1 .. issued[q] /\ conn[q].token <= issued[q] /\ conn[q].token \in Nat
      BY DEF AccInv, AccTables, Accounting!Row
    <3> QED BY <1>2, <1>5, <3>1
  <2>3. \A q \in Provider : Accounting!On(q)' = Accounting!On(q)
    BY <1>1 DEF Accounting!On
  <2> QED BY <1>1, <1>4, <1>5, <2>1, <2>2, <2>3 DEF AccInv, AccTables
<1>7. RefreshInTurn'
  <2> SUFFICES ASSUME accOdd = {} PROVE RefreshInTurn'
    BY <1>1 DEF RefreshInTurn
  <2>1. /\ Accounting!On(p) /\ conn[p].id = accJob[l].id /\ accJob[l].token = conn[p].token
        /\ conn[p].token \in live[p]
        /\ \A k \in Loop : ~(accJob[k].at = "store" /\ accJob[k].p = p)
    BY <1>1, <1>2 DEF AccInv, RefreshInTurn
  <2>2. conn[p].token # n /\ conn[p].token \notin live'[p] /\ n \in live'[p]
    BY <1>2, <1>5, <2>1
  <2>3. \A q \in Provider : Accounting!On(q)' = Accounting!On(q)
    BY <1>1 DEF Accounting!On
  <2>4. \A k \in Loop : accJob'[k].p # "none" =>
            conn'[accJob'[k].p].id # 0 /\ conn'[accJob'[k].p].id = accJob'[k].id
    <3>1. \A k \in Loop : accJob[k].p # "none" => conn[accJob[k].p].id # 0
              /\ conn[accJob[k].p].id = accJob[k].id
      BY DEF AccInv, RefreshInTurn, Accounting!On
    <3>2. accJob'[l].p = accJob[l].p /\ accJob'[l].id = accJob[l].id
      BY <1>3, <1>4
    <3>3. \A k \in Loop : accJob'[k].p = accJob[k].p /\ accJob'[k].id = accJob[k].id
      BY <1>4, <3>2
    <3> QED BY <1>1, <3>1, <3>3
  <2>5. \A k \in Loop : accJob'[k].at = "token" =>
            accJob'[k].token = conn'[accJob'[k].p].token
            \/ accJob'[k].token \notin live'[accJob'[k].p]
    <3> SUFFICES ASSUME NEW k \in Loop, accJob'[k].at = "token"
                 PROVE  accJob[k].token = conn[accJob[k].p].token
                            \/ accJob[k].token \notin live'[accJob[k].p]
      BY <1>1, <1>3, <1>4
    <3>1. accJob'[k] = accJob[k] /\ accJob[k].at = "token" /\ accJob[k].p \in Provider
          /\ accJob[k].token \in 1 .. issued[accJob[k].p]
      BY <1>3, <1>4, AccJobIs DEF Resting
    <3>2. accJob[k].token = conn[accJob[k].p].token \/ accJob[k].token \notin live[accJob[k].p]
      BY <3>1 DEF AccInv, RefreshInTurn
    <3> QED BY <1>2, <1>5, <3>1, <3>2
  <2>6. \A k \in Loop : accJob'[k].at = "store" =>
            accJob'[k].token \in live'[accJob'[k].p]
            /\ conn'[accJob'[k].p].token \notin live'[accJob'[k].p]
    <3>1. \A k \in Loop : accJob[k].at = "store" =>
              /\ accJob[k].p \in Provider /\ accJob[k].p # p
              /\ accJob[k].token \in live[accJob[k].p]
                     /\ conn[accJob[k].p].token \notin live[accJob[k].p]
      BY <2>1, AccJobIs DEF AccInv, RefreshInTurn, Resting
    <3> QED BY <1>1, <1>3, <1>4, <1>5, <2>2, <3>1
  <2>7. \A j, k \in Loop :
            accJob'[j].at = "store" /\ accJob'[k].at = "store" /\ accJob'[j].p = accJob'[k].p =>
            j = k
    BY <1>3, <1>4, <2>1 DEF AccInv, RefreshInTurn
  <2>8. \A q \in Provider :
            Accounting!On(q)' => \/ conn'[q].token \in live'[q]
                                 \/ \E k \in Loop : accJob'[k].at = "store" /\ accJob'[k].p = q
    <3> SUFFICES ASSUME NEW q \in Provider, Accounting!On(q)
                 PROVE  \/ conn[q].token \in live'[q]
                        \/ \E k \in Loop : accJob'[k].at = "store" /\ accJob'[k].p = q
      BY <1>1, <2>3
    <3>1. CASE q = p
      BY <1>3, <1>4, <3>1
    <3>2. CASE q # p
      <4>1. CASE conn[q].token \in live[q]
        BY <1>5, <3>2, <4>1
      <4>2. CASE \E k \in Loop : accJob[k].at = "store" /\ accJob[k].p = q
        BY <1>4, <3>2, <4>2
      <4> QED BY <4>1, <4>2 DEF AccInv, RefreshInTurn
    <3> QED BY <3>1, <3>2
  <2> QED BY <2>4, <2>5, <2>6, <2>7, <2>8 DEF RefreshInTurn, Accounting!On
<1>8. AccAlerts'
  <2>1. done' \subseteq Raised /\ notes' \in [Provider \X BankAlert -> 0 .. 2] /\ accFaults' \in Nat
    BY <1>1 DEF AccInv, AccAlerts
  <2>2. l = "bills" => /\ \A x \in s.todo : x[2] \in Raised
                       /\ s.a \in Raised /\ <<s.p, s.a>> \notin s.todo
    BY <1>2, <1>3 DEF AccInv, AccAlerts, Current
  <2> QED BY <1>1, <1>3, <2>1, <2>2, AlertsKept
<1>9. NotesInTurn'
  <2>1. l = "bills" => Current = <<s.p, s.a>>
    BY <1>3 DEF Current
  <2> QED BY <1>1, <1>2, <1>3, <2>1, NotesKept DEF Resting
<1> QED BY <1>6, <1>7, <1>8, <1>9 DEF AccInv

(* The token the provider issued instead is stored.                       *)
LEMMA AccStoreTokenKeeps == ASSUME AccInv, NEW l \in Loop, Accounting!StoreToken(l) PROVE AccInv'
<1> DEFINE p == accJob[l].p
           s == Accounting!To(l, "call")
           grant == [conn[p] EXCEPT !.token = accJob[l].token]
<1>1. /\ accJob[l].at = "store" /\ Accounting!Holds(l) /\ conn' = [conn EXCEPT ![p] = grant]
      /\ stale' = stale \ {p} /\ Accounting!Step(l, s)
      /\ UNCHANGED <<live, issued, accAlert, done, notes, accConsents, accFaults, accOdd>>
  BY DEF Accounting!StoreToken, Accounting!Rotated
<1>2. /\ p \in Provider /\ p # "none" /\ accJob[l].id # 0 /\ conn[p] \in Accounting!Row
             /\ Accounting!On(p)
      /\ conn[p].id = accJob[l].id /\ accJob[l].token \in 1 .. issued[p]
             /\ issued[p] \in 0 .. MaxTokens
  BY <1>1, AccJobIs, HeldIsOn DEF Resting, AccInv, AccTables, Accounting!Holds
<1>3. /\ s \in LoopJob /\ s.at = "call" /\ s.p = p /\ s.a = accJob[l].a /\ s.todo = accJob[l].todo
      /\ s.token = accJob[l].token /\ s.id = accJob[l].id
  BY ToIs
<1>4. grant \in Accounting!Row /\ grant.id = conn[p].id /\ grant.token = accJob[l].token
  BY <1>2, AccountingBounds DEF Accounting!Row
<1> HIDE DEF s, grant
<1>5. /\ accJob' \in [Loop -> LoopJob] /\ accJob'[l] = s
      /\ \A k \in Loop : k # l => accJob'[k] = accJob[k]
  BY <1>1, <1>3, JobMoves
<1>6. /\ conn' \in [Provider -> Accounting!Row] /\ conn'[p] = grant
      /\ \A q \in Provider : q # p => conn'[q] = conn[q]
      /\ \A q \in Provider : Accounting!On(q)' = Accounting!On(q) /\ conn'[q].id = conn[q].id
  BY <1>1, <1>2, <1>4 DEF AccInv, AccTables, Accounting!On
<1>7. AccTables'
  <2>1. \A k \in Loop : /\ accJob'[k].at \in Resting <=> accJob'[k].p = "none"
                        /\ accJob'[k].p # "none" =>
                                 accJob'[k].id # 0
                                 /\ accJob'[k].token \in 1 .. issued'[accJob'[k].p]
    BY <1>1, <1>2, <1>3, <1>5, AccJobIs DEF Resting
  <2>2. \A q \in Provider : /\ Accounting!On(q)' = (conn'[q].token > 0)
                            /\ ~Accounting!On(q)' => conn'[q] = Accounting!NoConn
                            /\ live'[q] \subseteq 1 .. issued'[q]
                            /\ conn'[q].token <= issued'[q]
    <3> SUFFICES ASSUME NEW q \in Provider
                 PROVE  /\ Accounting!On(q)' = (conn'[q].token > 0)
                        /\ ~Accounting!On(q)' => conn'[q] = Accounting!NoConn
                        /\ live'[q] \subseteq 1 .. issued'[q]
                        /\ conn'[q].token <= issued'[q]
      OBVIOUS
    <3>1. CASE q = p
      <4>1. conn'[q].token > 0 /\ conn'[q].token <= issued[q] /\ Accounting!On(q)'
                /\ Accounting!On(q)
        BY <1>2, <1>4, <1>6, <3>1
      <4>2. live[q] \subseteq 1 .. issued[q]
        BY DEF AccInv, AccTables
      <4> QED BY <1>1, <4>1, <4>2
    <3>2. CASE q # p
      BY <1>1, <1>6, <3>2 DEF AccInv, AccTables
    <3> QED BY <3>1, <3>2
  <2> QED BY <1>1, <1>5, <1>6, <2>1, <2>2 DEF AccInv, AccTables
<1>8. RefreshInTurn'
  <2> SUFFICES ASSUME accOdd = {} PROVE RefreshInTurn'
    BY <1>1 DEF RefreshInTurn
  <2>1. /\ accJob[l].token \in live[p] /\ conn[p].token \notin live[p]
        /\ \A k \in Loop : k # l => ~(accJob[k].at = "store" /\ accJob[k].p = p)
    BY <1>1 DEF AccInv, RefreshInTurn
  <2>2. \A k \in Loop : accJob'[k].p = accJob[k].p /\ accJob'[k].id = accJob[k].id
    BY <1>3, <1>5
  <2>3. \A k \in Loop : accJob[k].p # "none" =>
            accJob[k].p \in Provider /\ Accounting!On(accJob[k].p) /\ conn[accJob[k].p].id =
            accJob[k].id
    BY AccJobIs DEF AccInv, RefreshInTurn
  <2>4. \A k \in Loop : accJob'[k].at = "token" =>
            accJob'[k].token = conn'[accJob'[k].p].token
            \/ accJob'[k].token \notin live'[accJob'[k].p]
    <3> SUFFICES ASSUME NEW k \in Loop, accJob'[k].at = "token"
                 PROVE  accJob[k].token = conn'[accJob[k].p].token
                            \/ accJob[k].token \notin live[accJob[k].p]
      BY <1>1, <1>3, <1>5
    <3>1. accJob[k].at = "token" /\ accJob[k].p \in Provider
      BY <1>3, <1>5, AccJobIs DEF Resting
    <3>2. accJob[k].token = conn[accJob[k].p].token \/ accJob[k].token \notin live[accJob[k].p]
      BY <3>1 DEF AccInv, RefreshInTurn
    <3> QED BY <1>6, <2>1, <3>1, <3>2
  <2>5. \A k \in Loop : accJob'[k].at = "store" =>
            accJob'[k].token \in live'[accJob'[k].p]
            /\ conn'[accJob'[k].p].token \notin live'[accJob'[k].p]
    <3>1. \A k \in Loop : accJob'[k].at = "store" =>
              /\ accJob'[k] = accJob[k] /\ accJob[k].p \in Provider /\ accJob[k].p # p
              /\ accJob[k].token \in live[accJob[k].p]
                     /\ conn[accJob[k].p].token \notin live[accJob[k].p]
      BY <1>3, <1>5, <2>1, AccJobIs DEF AccInv, RefreshInTurn, Resting
    <3> QED BY <1>1, <1>6, <3>1
  <2>6. \A j, k \in Loop :
            accJob'[j].at = "store" /\ accJob'[k].at = "store" /\ accJob'[j].p = accJob'[k].p =>
            j = k
    BY <1>3, <1>5 DEF AccInv, RefreshInTurn
  <2>7. \A q \in Provider :
            Accounting!On(q)' => \/ conn'[q].token \in live'[q]
                                 \/ \E k \in Loop : accJob'[k].at = "store" /\ accJob'[k].p = q
    <3> SUFFICES ASSUME NEW q \in Provider, Accounting!On(q)
                 PROVE  \/ conn'[q].token \in live[q]
                        \/ \E k \in Loop : accJob'[k].at = "store" /\ accJob'[k].p = q
      BY <1>1, <1>6
    <3>1. CASE q = p
      BY <1>4, <1>6, <2>1, <3>1
    <3>2. CASE q # p
      <4>1. CASE conn[q].token \in live[q]
        BY <1>6, <3>2, <4>1
      <4>2. CASE \E k \in Loop : accJob[k].at = "store" /\ accJob[k].p = q
        BY <1>5, <3>2, <4>2
      <4> QED BY <4>1, <4>2 DEF AccInv, RefreshInTurn
    <3> QED BY <3>1, <3>2
  <2> QED BY <1>6, <2>2, <2>3, <2>4, <2>5, <2>6, <2>7 DEF RefreshInTurn
<1>9. AccAlerts'
  <2>1. done' \subseteq Raised /\ notes' \in [Provider \X BankAlert -> 0 .. 2] /\ accFaults' \in Nat
    BY <1>1 DEF AccInv, AccAlerts
  <2>2. l = "bills" => /\ \A x \in s.todo : x[2] \in Raised
                       /\ s.a \in Raised /\ <<s.p, s.a>> \notin s.todo
    BY <1>2, <1>3 DEF AccInv, AccAlerts, Current
  <2> QED BY <1>1, <1>3, <2>1, <2>2, AlertsKept
<1>10. NotesInTurn'
  <2>1. l = "bills" => Current = <<s.p, s.a>>
    BY <1>3 DEF Current
  <2> QED BY <1>1, <1>2, <1>3, <2>1, NotesKept DEF Resting
<1> QED BY <1>7, <1>8, <1>9, <1>10 DEF AccInv

-----------------------------------------------------------------------------
(* The worker dies.                                                       *)
LEMMA AccCrashKeeps == AccInv /\ Accounting!Crash => AccInv'
<1> SUFFICES ASSUME AccInv, Accounting!Crash PROVE AccInv'
  OBVIOUS
<1>1. /\ accJob' = [l \in Loop |-> Accounting!Rest] /\ accFaults' = accFaults + 1
             /\ "crash" \in accOdd'
      /\ UNCHANGED <<conn, live, issued, stale, accAlert, done, notes, accConsents>>
  BY DEF Accounting!Crash, Accounting!Fault
<1>2. accJob' \in [Loop -> LoopJob] /\ \A l \in Loop : accJob'[l] = Accounting!Rest
  BY <1>1, RestIsJob
<1>3. accJob'["bills"] = Accounting!Rest /\ accFaults' \in Nat /\ accFaults' > 0 /\ accOdd' # {}
  BY <1>1, <1>2, AccountingBounds DEF AccInv, AccAlerts
<1>4. AccTables'
  <2>1. \A p \in Provider : Accounting!On(p)' = Accounting!On(p)
    BY <1>1 DEF Accounting!On
  <2> QED BY <1>1, <1>2, <2>1, RestIsJob DEF AccInv, AccTables, Resting
<1>5. AccAlerts'
  BY <1>1, <1>3, RestIsJob DEF AccInv, AccAlerts, Raised
<1>6. NotesInTurn'
  <2>1. \A p \in Provider, a \in BankAlert : notes'[<<p, a>>] = 2 => p \notin Idempotent
    BY <1>1 DEF AccInv, NotesInTurn
  <2>2. accFaults' # 0
    BY <1>3
  <2> QED BY <1>3, <2>1, <2>2 DEF NotesInTurn
<1> QED BY <1>3, <1>4, <1>5, <1>6 DEF AccInv, RefreshInTurn

(* Steps that leave the connections and the tokens alone, or the alerts   *)
(* and the notes.                                                         *)
LEMMA TablesAlone ==
    ASSUME AccInv, UNCHANGED <<conn, live, issued, accConsents, accJob, accOdd>>,
               stale' \subseteq Provider
    PROVE  AccTables' /\ RefreshInTurn'
<1>1. \A p \in Provider : Accounting!On(p)' = Accounting!On(p)
  BY DEF Accounting!On
<1>2. AccTables'
  BY <1>1 DEF AccInv, AccTables
<1>3. RefreshInTurn'
  BY DEF AccInv, RefreshInTurn, Accounting!On
<1> QED BY <1>2, <1>3

(* A step that touches no alert and no note.                              *)
LEMMA NotesAlone ==
    ASSUME AccInv, UNCHANGED <<done, notes, accJob, accFaults>>, UNCHANGED accAlert
    PROVE  AccAlerts' /\ NotesInTurn'
<1>1. Raised' = Raised /\ Current' = Current
  BY DEF Raised, Current
<1> QED BY <1>1 DEF AccInv, AccAlerts, NotesInTurn

(* The customer acts on a connection: under way with it, that is odd.     *)
LEMMA CustomerActs ==
    ASSUME AccInv, NEW p \in Provider, NEW grant \in Accounting!Row, conn' = [conn EXCEPT ![p] =
               grant],
           UNCHANGED <<live, issued, accJob, accConsents>>, stale' = stale,
           accOdd' = accOdd \cup {"overlap" : x \in {y \in {p} : Accounting!Busy(y)}},
           grant = Accounting!NoConn \/ (Accounting!On(p) /\ grant.id = conn[p].id
           /\ grant.token = conn[p].token)
    PROVE  AccTables' /\ RefreshInTurn'
<1>1. /\ conn' \in [Provider -> Accounting!Row] /\ conn'[p] = grant
      /\ \A q \in Provider : q # p => conn'[q] = conn[q] /\ Accounting!On(q)' = Accounting!On(q)
  BY DEF AccInv, AccTables, Accounting!On
<1>2. Accounting!NoConn.id = 0 /\ Accounting!NoConn.token = 0
  BY DEF Accounting!NoConn
<1>3. /\ Accounting!On(p)' = (grant.token > 0) /\ (~Accounting!On(p)' => grant =
             Accounting!NoConn) /\ grant.token <= issued[p]
      /\ grant # Accounting!NoConn => Accounting!On(p)'
  <2>1. issued[p] \in Nat /\ conn[p].token <= issued[p] /\ (Accounting!On(p) = (conn[p].token > 0))
    BY DEF AccInv, AccTables
  <2> QED BY <1>1, <1>2, <2>1 DEF Accounting!On
<1>4. AccTables'
  <2>1. \A q \in Provider : /\ Accounting!On(q)' = (conn'[q].token > 0)
                            /\ ~Accounting!On(q)' => conn'[q] = Accounting!NoConn
                            /\ live'[q] \subseteq 1 .. issued'[q]
                            /\ conn'[q].token <= issued'[q]
    <3> SUFFICES ASSUME NEW q \in Provider
                 PROVE  /\ Accounting!On(q)' = (conn'[q].token > 0)
                        /\ ~Accounting!On(q)' => conn'[q] = Accounting!NoConn
                        /\ live'[q] \subseteq 1 .. issued'[q]
                        /\ conn'[q].token <= issued'[q]
      OBVIOUS
    <3>1. live[q] \subseteq 1 .. issued[q]
      BY DEF AccInv, AccTables
    <3>2. CASE q = p
      BY <1>1, <1>3, <3>1, <3>2
    <3>3. CASE q # p
      BY <1>1, <3>1, <3>3 DEF AccInv, AccTables
    <3> QED BY <3>2, <3>3
  <2> QED BY <1>1, <2>1 DEF AccInv, AccTables
<1>5. RefreshInTurn'
  <2> SUFFICES ASSUME accOdd' = {} PROVE RefreshInTurn'
    BY DEF RefreshInTurn
  <2>1. accOdd = {} /\ ~Accounting!Busy(p)
    OBVIOUS
  <2>2. \A l \in Loop : accJob[l].p # "none" => accJob[l].p \in Provider /\ accJob[l].p # p
    <3>1. \A l \in Loop : accJob[l].p = p => accJob[l].at = "rest"
      BY <2>1 DEF Accounting!Busy
    <3> QED BY <3>1, AccJobIs DEF Resting
  <2>3. \A l \in Loop : accJob[l].at \in {"token", "store"} => accJob[l].p # "none"
    BY AccJobIs DEF Resting
  <2>4. grant = Accounting!NoConn \/ grant.token = conn[p].token
    OBVIOUS
  <2>5. Accounting!On(p)' => Accounting!On(p) /\ grant.token = conn[p].token
    BY <1>1, <1>2 DEF Accounting!On
  <2>6. \A q \in Provider :
                       Accounting!On(q)' => \/ conn'[q].token \in live'[q]
                                            \/ \E l \in Loop : accJob'[l].at = "store"
                                                   /\ accJob'[l].p = q
    BY <1>1, <2>1, <2>5 DEF AccInv, RefreshInTurn
  <2>7. /\ \A l \in Loop : accJob'[l].p # "none" =>
              conn'[accJob'[l].p].id # 0 /\ conn'[accJob'[l].p].id = accJob'[l].id
        /\ \A l \in Loop : accJob'[l].at = "token" =>
              accJob'[l].token = conn'[accJob'[l].p].token
              \/ accJob'[l].token \notin live'[accJob'[l].p]
        /\ \A l \in Loop : accJob'[l].at = "store" =>
              accJob'[l].token \in live'[accJob'[l].p]
              /\ conn'[accJob'[l].p].token \notin live'[accJob'[l].p]
    BY <1>1, <2>1, <2>2, <2>3 DEF AccInv, RefreshInTurn, Accounting!On
  <2>8. \A l, k \in Loop :
            accJob'[l].at = "store" /\ accJob'[k].at = "store" /\ accJob'[l].p = accJob'[k].p =>
            l = k
    BY <2>1 DEF AccInv, RefreshInTurn
  <2> QED BY <2>6, <2>7, <2>8 DEF RefreshInTurn, Accounting!On
<1> QED BY <1>4, <1>5

(* The customer presses sync, changes the settings or disconnects.        *)
LEMMA AccClickKeeps ==
    ASSUME AccInv, NEW p \in Provider, Accounting!SyncNow(p) \/ Accounting!Disconnect(p)
               \/ \E on \in BOOLEAN : Accounting!SetFlagging(p, on)
    PROVE  AccInv'
<1>1. PICK grant : /\ Accounting!Click(p, grant)
                   /\ \/ grant = [conn[p] EXCEPT !.asked = TRUE]
                      \/ grant = Accounting!NoConn
                      \/ \E on \in BOOLEAN : grant = [conn[p] EXCEPT !.flag = on]
  BY DEF Accounting!SyncNow, Accounting!Disconnect, Accounting!SetFlagging
<1>2. conn[p] \in Accounting!Row /\ Accounting!NoConn \in Accounting!Row /\ Accounting!On(p)
  BY <1>1, AccountingBounds DEF Accounting!Click, AccInv, AccTables, Accounting!NoConn,
     Accounting!Row
<1>3. grant \in Accounting!Row /\ (grant = Accounting!NoConn \/ (grant.id = conn[p].id
          /\ grant.token = conn[p].token))
  BY <1>1, <1>2 DEF Accounting!Row
<1>4. /\ conn' = [conn EXCEPT ![p] = grant]
      /\ accOdd' = accOdd \cup {"overlap" : x \in {y \in {p} : Accounting!Busy(y)}}
      /\ UNCHANGED <<live, issued, stale, accAlert, done, notes, accJob, accConsents, accFaults>>
  BY <1>1 DEF Accounting!Click
<1>5. AccTables' /\ RefreshInTurn'
  BY <1>2, <1>3, <1>4, CustomerActs
<1>6. AccAlerts' /\ NotesInTurn'
  BY <1>4, NotesAlone
<1> QED BY <1>5, <1>6 DEF AccInv

(* The customer consents, again.                                          *)
LEMMA AccConsentKeeps == ASSUME AccInv, NEW p \in Provider, Accounting!Consent(p) PROVE AccInv'
<1> DEFINE n == issued[p] + 1
           grant == Accounting!Connected(p, n)
<1>1. /\ accConsents < MaxConsents /\ accConsents' = accConsents + 1 /\ issued[p] < MaxTokens
      /\ issued' = [issued EXCEPT ![p] = n] /\ live' = [live EXCEPT ![p] = @ \cup {n}]
      /\ conn' = [conn EXCEPT ![p] = grant] /\ stale' = stale \ {p}
      /\ accOdd' = accOdd \cup {"overlap" : x \in {y \in {p} : Accounting!Busy(y)}}
      /\ UNCHANGED <<accAlert, done, notes, accJob, accFaults>>
  BY DEF Accounting!Consent
<1>2. /\ conn[p] \in Accounting!Row /\ accConsents \in Nat /\ accConsents' \in 1 .. MaxConsents
      /\ issued[p] \in Nat /\ n \in 1 .. MaxTokens /\ live[p] \subseteq 1 .. issued[p]
  BY <1>1, AccountingBounds DEF AccInv, AccTables
<1>3. grant \in Accounting!Row /\ grant.id # 0 /\ grant.token = n
  <2>1. (Accounting!On(p) => conn[p].flag) \in BOOLEAN /\ conn[p].known \in BOOLEAN
            /\ n \in 0 .. MaxTokens
    BY <1>2 DEF Accounting!Row
  <2>2. (IF Accounting!On(p) THEN conn[p].id ELSE accConsents + 1) \in 0 .. MaxConsents
    BY <1>1, <1>2 DEF Accounting!Row
  <2>3. (IF Accounting!On(p) THEN conn[p].id ELSE accConsents + 1) # 0
    BY <1>2 DEF Accounting!On
  <2> QED BY <2>1, <2>2, <2>3 DEF Accounting!Connected, Accounting!Row
<1> HIDE DEF grant
<1>4. /\ conn' \in [Provider -> Accounting!Row] /\ conn'[p] = grant /\ Accounting!On(p)'
      /\ issued' \in [Provider -> 0 .. MaxTokens] /\ issued'[p] = n
      /\ live' \in [Provider -> SUBSET Nat] /\ live'[p] = live[p] \cup {n}
      /\ \A q \in Provider : q # p => /\ conn'[q] = conn[q] /\ Accounting!On(q)' = Accounting!On(q)
                                      /\ issued'[q] = issued[q] /\ live'[q] = live[q]
  BY <1>1, <1>2, <1>3 DEF AccInv, AccTables, Accounting!On
<1>5. AccTables'
  <2>1. \A q \in Provider : /\ Accounting!On(q)' = (conn'[q].token > 0)
                            /\ ~Accounting!On(q)' => conn'[q] = Accounting!NoConn
                            /\ live'[q] \subseteq 1 .. issued'[q]
                            /\ conn'[q].token <= issued'[q]
    <3> SUFFICES ASSUME NEW q \in Provider
                 PROVE  /\ Accounting!On(q)' = (conn'[q].token > 0)
                        /\ ~Accounting!On(q)' => conn'[q] = Accounting!NoConn
                        /\ live'[q] \subseteq 1 .. issued'[q]
                        /\ conn'[q].token <= issued'[q]
      OBVIOUS
    <3>1. CASE q = p
      <4>1. conn'[p].token > 0 /\ conn'[p].token <= issued'[p] /\ live'[p] \subseteq 1 .. issued'[p]
        BY <1>2, <1>3, <1>4
      <4> QED BY <1>4, <3>1, <4>1
    <3>2. CASE q # p
      BY <1>4, <3>2 DEF AccInv, AccTables
    <3> QED BY <3>1, <3>2
  <2>2. \A l \in Loop : /\ accJob'[l].at \in Resting <=> accJob'[l].p = "none"
                        /\ accJob'[l].p # "none" =>
                                 accJob'[l].id # 0
                                 /\ accJob'[l].token \in 1 .. issued'[accJob'[l].p]
    <3>1. \A q \in Provider : 1 .. issued[q] \subseteq 1 .. issued'[q]
      BY <1>2, <1>4
    <3> QED BY <1>1, <3>1, AccJobIs
  <2> QED BY <1>1, <1>2, <1>4, <2>1, <2>2 DEF AccInv, AccTables
<1>6. RefreshInTurn'
  <2> SUFFICES ASSUME accOdd' = {} PROVE RefreshInTurn'
    BY DEF RefreshInTurn
  <2>1. accOdd = {} /\ ~Accounting!Busy(p)
    BY <1>1
  <2>2. \A l \in Loop : accJob[l].p # "none" => accJob[l].p \in Provider /\ accJob[l].p # p
    <3>1. \A l \in Loop : accJob[l].p = p => accJob[l].at = "rest"
      BY <2>1 DEF Accounting!Busy
    <3> QED BY <3>1, AccJobIs DEF Resting
  <2>3. \A l \in Loop : accJob[l].at \in {"token", "store"} => accJob[l].p # "none"
    BY AccJobIs DEF Resting
  <2>4. \A q \in Provider :
            Accounting!On(q)' => \/ conn'[q].token \in live'[q]
                                 \/ \E l \in Loop : accJob'[l].at = "store" /\ accJob'[l].p = q
    BY <1>1, <1>3, <1>4, <2>1 DEF AccInv, RefreshInTurn
  <2>5. /\ \A l \in Loop : accJob'[l].p # "none" =>
              conn'[accJob'[l].p].id # 0 /\ conn'[accJob'[l].p].id = accJob'[l].id
        /\ \A l \in Loop : accJob'[l].at = "token" =>
              accJob'[l].token = conn'[accJob'[l].p].token
              \/ accJob'[l].token \notin live'[accJob'[l].p]
        /\ \A l \in Loop : accJob'[l].at = "store" =>
              accJob'[l].token \in live'[accJob'[l].p]
              /\ conn'[accJob'[l].p].token \notin live'[accJob'[l].p]
    BY <1>1, <1>4, <2>1, <2>2, <2>3 DEF AccInv, RefreshInTurn, Accounting!On
  <2>6. \A l, k \in Loop :
            accJob'[l].at = "store" /\ accJob'[k].at = "store" /\ accJob'[l].p = accJob'[k].p =>
            l = k
    BY <1>1, <2>1 DEF AccInv, RefreshInTurn
  <2> QED BY <2>4, <2>5, <2>6 DEF RefreshInTurn, Accounting!On
<1>7. AccAlerts' /\ NotesInTurn'
  BY <1>1, NotesAlone
<1> QED BY <1>5, <1>6, <1>7 DEF AccInv

(* An access token runs out.                                              *)
LEMMA AccExpireKeeps == ASSUME AccInv, NEW p \in Provider, Accounting!Expire(p) PROVE AccInv'
<1>1. /\ stale' \subseteq Provider
      /\ UNCHANGED <<conn, live, issued, accAlert, done, notes, accJob, accConsents, accFaults,
             accOdd>>
  BY DEF Accounting!Expire, AccInv, AccTables
<1> QED BY <1>1, TablesAlone, NotesAlone DEF AccInv

(* An alert is raised or decided.                                         *)
LEMMA AccSetAlertKeeps ==
    ASSUME AccInv, NEW a \in BankAlert, NEW from, NEW to \in {"open", "dismissed", "old"},
           Accounting!SetAlert(a, from, to)
    PROVE  AccInv'
<1>1. /\ accAlert' = [accAlert EXCEPT ![a] = to]
      /\ UNCHANGED <<conn, live, issued, stale, done, notes, accJob, accConsents, accFaults,
             accOdd>>
  BY DEF Accounting!SetAlert
<1>2. AccTables' /\ RefreshInTurn'
  BY <1>1, TablesAlone DEF AccInv, AccTables
<1>3. accAlert' \in [BankAlert -> {"none", "open", "dismissed", "old"}] /\ Raised \subseteq Raised'
  BY <1>1 DEF AccInv, AccAlerts, Raised
<1>4. AccAlerts'
  BY <1>1, <1>3 DEF AccInv, AccAlerts, Current
<1>5. NotesInTurn'
  BY <1>1 DEF AccInv, NotesInTurn, Current
<1> QED BY <1>2, <1>4, <1>5 DEF AccInv

(* Every step keeps the invariant.                                        *)
LEMMA AccountingStep == AccInv /\ [Accounting!Next]_(Accounting!vars) => AccInv'
<1> SUFFICES ASSUME AccInv, [Accounting!Next]_(Accounting!vars) PROVE AccInv'
  OBVIOUS
<1>1. CASE \E p \in Provider : \/ Accounting!Consent(p) \/ Accounting!SyncNow(p)
                                   \/ Accounting!Disconnect(p) \/ Accounting!Expire(p)
                               \/ \E on \in BOOLEAN : Accounting!SetFlagging(p, on)
  BY <1>1, AccConsentKeeps, AccClickKeeps, AccExpireKeeps
<1>2. CASE \E l \in Loop : Accounting!LoopStep(l)
  BY <1>2, AccStartSyncKeeps, AccTakeKeeps, AccEndListKeeps, AccUseTokenKeeps, AccRefreshKeeps,
     AccStoreTokenKeeps,
     AccRefusedKeeps, AccCallFailsKeeps, AccFinishSyncKeeps DEF Accounting!LoopStep
<1>3. CASE \E a \in BankAlert : \/ Accounting!SetAlert(a, "none", "open")
                                \/ Accounting!SetAlert(a, "open", "dismissed")
                                       \/ Accounting!SetAlert(a, "open", "old")
  BY <1>3, AccSetAlertKeeps
<1>4. CASE UNCHANGED Accounting!vars
  <2>1. /\ UNCHANGED <<conn, live, issued, stale, accAlert, done, notes, accJob, accConsents,
               accFaults, accOdd>>
        /\ stale' \subseteq Provider
    BY <1>4 DEF Accounting!vars, AccInv, AccTables
  <2> QED BY <2>1, TablesAlone, NotesAlone DEF AccInv
<1> QED BY <1>1, <1>2, <1>3, <1>4, AccStartFlaggingKeeps, AccNoteBillsKeeps, AccMarkKeeps,
           AccCrashKeeps
        DEF Accounting!Next

(* The invariant says what was promised.                                  *)
LEMMA AccountingInvImplies == AccInv => Accounting!TypeOK /\ Accounting!ConnectionLives
    /\ Accounting!NotedOnce
<1> SUFFICES ASSUME AccInv PROVE Accounting!TypeOK /\ Accounting!ConnectionLives
                        /\ Accounting!NotedOnce
  OBVIOUS
<1>1. Accounting!TypeOK
  BY DEF AccInv, AccTables, AccAlerts, Accounting!TypeOK, Raised, Resting
<1>2. Accounting!ConnectionLives
  BY DEF AccInv, RefreshInTurn, Accounting!ConnectionLives
<1>3. Accounting!NotedOnce
  <2> SUFFICES ASSUME NEW p \in Provider, NEW a \in BankAlert, notes[<<p, a>>] = 2
               PROVE  <<p, a>>[1] \notin Idempotent /\ accFaults > 0
    BY DEF Accounting!NotedOnce
  <2>1. <<p, a>>[1] = p
    OBVIOUS
  <2> QED BY <2>1 DEF AccInv, NotesInTurn
<1> QED BY <1>1, <1>2, <1>3

-----------------------------------------------------------------------------
(* Reminders: the days before access ends                                 *)

RemJob == [at : {"idle", "mail", "commit"}, kind : Reminded!Deadline \cup {"none"},
           mark : Marks \cup {Reminded!None}, left : -1 .. Length, mail : BOOLEAN]

RemShape ==
    /\ access \in Reminded!Deadline \cup {"free"} /\ remLeft \in -1 .. Length
    /\ access = "free" => remLeft = -1
    /\ mark \in Marks \cup {Reminded!None} /\ period \in 1 .. MaxPeriods
    /\ remJob \in RemJob /\ (remJob.at = "idle" => remJob = Reminded!Idle) /\ (remJob.at =
           "mail" => remJob.mail)
    /\ remJob.mail => remJob.kind \in Reminded!Deadline /\ remJob.left >= 0
    /\ ran \in BOOLEAN /\ remSince \in -1 .. Length
    /\ \A w \in remTold : /\ w = <<w[1], w[2], w[3]>>
                          /\ w[1] \in 1 .. period /\ w[2] \in Reminded!Deadline /\ w[3] \in Nat

(* Until a webhook writes the row under it, the job decides by what is in *)
(* the row, a day or more ago.                                            *)
Steady ==
    "overlap" \notin remOdd /\ remJob # Reminded!Idle =>
        /\ remJob.left >= remLeft
        /\ remJob.mail => /\ remJob.kind = access /\ Reminded!Tells(access, remJob.left, mark)
                          /\ remJob.mark = Reminded!Remember(access, remJob.left)
        /\ ~remJob.mail /\ access \in Reminded!Deadline /\ remJob.left >= 0 =>
               ~Reminded!Tells(access, remJob.left, mark)
        /\ ~remJob.mail => remJob.kind = "none"

(* The mark is as far as what has been told in the period, or is about to *)
(* be written; a calm notice stands alone.                                *)
OnItsWay(w) == remJob.at = "commit" /\ remJob.mail /\ w = Reminded!Warning
Spoken ==
    remOdd \cap {"crash", "overlap"} = {} =>
           /\ twice = {}
           /\ \A w \in remTold : w[1] = period /\ access # "free" =>
                 \/ mark # Reminded!None /\ mark <= Reminded!DueMark(w[3]) /\ (w[2] =
                        "renewing" => mark = 0)
                 \/ OnItsWay(w)
           /\ \A w, v \in remTold : w[1] = v[1] /\ w[2] = "renewing" => v = w

(* A mark was told, on a day that it was the closest of; and every mark a *)
(* run has seen since access is running out was told on its day.          *)
OfTheEnd(w) == w[1] = period /\ w[2] \in {"trial", "ending"}
Announced(d) == \E w \in remTold : OfTheEnd(w) /\ w[3] = d
Seen(d) == d <= remSince /\ (remLeft < d \/ (remLeft = d /\ ran))
RemindedCounted ==
    remOdd \cap {"mail", "overlap", "calm"} = {} =>
           /\ remJob.at = "commit" /\ remJob.mail => Reminded!Warning \in remTold
           /\ mark # Reminded!None /\ access # "free" =>
                    \E w \in remTold : OfTheEnd(w) /\ w[3] >= remLeft /\ Reminded!DueMark(w[3]) =
                    mark
           /\ access \in {"trial", "ending", "free"} => \A d \in Marks : Seen(d) => Announced(d)

RemInv == RemShape /\ Steady /\ Spoken /\ RemindedCounted

-----------------------------------------------------------------------------
(* The least-number principle, for sets of numbers.                       *)
LEMMA RemLeast == ASSUME NEW T \in SUBSET Nat, T # {} PROVE \E x \in T : \A y \in T : x <= y
<1> DEFINE R == OpToRel(<, Nat)
<1>1. \A x, y \in Nat : <<x, y>> \in R <=> x < y
  BY DEF OpToRel
<1>2. IsWellFoundedOn(R, Nat)
  BY NatLessThanWellFounded
<1> HIDE DEF R
<1>3. PICK x \in T : \A y \in T : <<y, x>> \notin R
  BY <1>2, WFMin
<1>4. ASSUME NEW y \in T PROVE x <= y
  <2>1. x \in Nat /\ y \in Nat
    OBVIOUS
  <2>2. ~(y < x)
    BY <1>1, <1>3, <1>4, <2>1
  <2> QED BY <2>1, <2>2
<1> QED BY <1>3, <1>4

(* The mark that is due is the closest one the days left have reached.    *)
LEMMA DueMarkIs ==
    ASSUME NEW n \in Int
    PROVE  \/ Reminded!DueMark(n) = Reminded!None /\ \A e \in Marks : ~(n <= e)
           \/ Reminded!DueMark(n) \in Marks /\ n <= Reminded!DueMark(n)
                  /\ \A e \in Marks : n <= e => Reminded!DueMark(n) <= e
<1>1. CASE Reminded!Reached(n) = {}
  BY <1>1 DEF Reminded!DueMark, Reminded!Reached
<1>2. CASE Reminded!Reached(n) # {}
  <2>1. \E d \in Reminded!Reached(n) : \A e \in Reminded!Reached(n) : d <= e
    <3>1. Reminded!Reached(n) \in SUBSET Nat
      BY RemindersBounds DEF Reminded!Reached
    <3> QED BY <1>2, <3>1, RemLeast
  <2>2. Reminded!DueMark(n) \in Reminded!Reached(n)
            /\ \A e \in Reminded!Reached(n) : Reminded!DueMark(n) <= e
    BY <1>2, <2>1 DEF Reminded!DueMark
  <2> QED BY <2>2 DEF Reminded!Reached
<1> QED BY <1>1, <1>2

(* The mark that is due, as a number.                                     *)
LEMMA DueMarkIsIn ==
    ASSUME NEW n \in Int
    PROVE  /\ Reminded!DueMark(n) \in Int
           /\ Reminded!DueMark(n) # Reminded!None => Reminded!DueMark(n) \in Nat
                  /\ Reminded!DueMark(n) \in Marks /\ Reminded!DueMark(n) >= n
           /\ n \in Marks => Reminded!DueMark(n) = n
<1>1. Reminded!None = -1
  BY DEF Reminded!None
<1>2. CASE Reminded!DueMark(n) = Reminded!None /\ \A e \in Marks : ~(n <= e)
  <2>1. n \notin Marks
    BY <1>2, RemindersBounds
  <2> QED BY <1>1, <1>2, <2>1
<1>3. CASE /\ Reminded!DueMark(n) \in Marks /\ n <= Reminded!DueMark(n)
           /\ \A e \in Marks : n <= e => Reminded!DueMark(n) <= e
  <2>1. Reminded!DueMark(n) \in Nat
    BY <1>3, RemindersBounds
  <2>2. n \in Marks => Reminded!DueMark(n) <= n
    BY <1>3
  <2> QED BY <1>1, <1>3, <2>1, <2>2
<1> QED BY <1>2, <1>3, DueMarkIs

(* At the start nothing has been told.                                    *)
LEMMA RemindersStart == Reminded!Init => RemInv
<1> SUFFICES ASSUME Reminded!Init PROVE RemInv
  OBVIOUS
<1>1. Reminded!Idle \in RemJob /\ Reminded!Idle.at = "idle" /\ Reminded!Idle.mail = FALSE
  BY RemindersBounds DEF Reminded!Idle, RemJob, Reminded!Deadline
<1>2. Length \in -1 .. Length /\ 1 \in 1 .. MaxPeriods /\ Reminded!Idle.left = 0
  BY RemindersBounds DEF Reminded!Idle
<1> HIDE DEF Reminded!Idle
<1>22. RemShape
  BY <1>1, <1>2 DEF Reminded!Init, RemShape, Reminded!Deadline
<1>3. Steady /\ Spoken
  BY <1>1 DEF Reminded!Init, Steady, Spoken
<1>4. RemindedCounted
  <2>1. \A d \in Marks : ~Seen(d)
    BY RemindersBounds DEF Reminded!Init, Seen
  <2> QED BY <1>1, <2>1 DEF Reminded!Init, RemindedCounted
<1> QED BY <1>22, <1>3, <1>4 DEF RemInv

(* The job decides by the row it reads.                                   *)
LEMMA RemReadKeeps == RemInv /\ Reminded!Read => RemInv'
<1> SUFFICES ASSUME RemInv, Reminded!Read PROVE RemInv'
  OBVIOUS
<1>1. /\ remJob = Reminded!Idle
      /\ UNCHANGED <<access, remLeft, mark, period, ran, remTold, twice, remSince, remOdd>>
  BY DEF Reminded!Read
<1>2. \/ /\ access \in Reminded!Deadline /\ remLeft >= 0 /\ Reminded!Tells(access, remLeft, mark)
         /\ remJob' = [at |-> "mail", kind |-> access, mark |-> Reminded!Remember(access, remLeft),
                       left |-> remLeft, mail |-> TRUE]
      \/ /\ ~(access \in Reminded!Deadline /\ remLeft >= 0 /\ Reminded!Tells(access, remLeft, mark))
         /\ remJob' = [at |-> "commit", kind |-> "none", mark |-> Reminded!None, left |-> remLeft,
                mail |-> FALSE]
  BY DEF Reminded!Read, Reminded!Idle
<1>3. remLeft \in -1 .. Length
  BY DEF RemInv, RemShape
<1>4. access \in Reminded!Deadline /\ remLeft >= 0 /\ Reminded!Tells(access, remLeft, mark) =>
          Reminded!Remember(access, remLeft) \in Marks \cup {Reminded!None}
  BY <1>3, DueMarkIs, RemindersBounds DEF Reminded!Remember
<1>5. /\ remJob' \in RemJob /\ remJob'.at # "idle" /\ remJob'.left = remLeft
      /\ remJob'.at = "mail" => remJob'.mail
      /\ remJob'.at = "commit" => ~remJob'.mail
      /\ remJob'.mail => /\ remJob'.kind = access /\ access \in Reminded!Deadline /\ remLeft >= 0
                         /\ Reminded!Tells(access, remLeft, mark) /\ remJob'.mark =
                                Reminded!Remember(access, remLeft)
      /\ ~remJob'.mail => /\ remJob'.kind = "none"
                          /\ ~(access \in Reminded!Deadline /\ remLeft >= 0
                                 /\ Reminded!Tells(access, remLeft, mark))
  <2>1. CASE remJob' = [at |-> "mail", kind |-> access, mark |-> Reminded!Remember(access, remLeft),
                        left |-> remLeft, mail |-> TRUE]
             /\ access \in Reminded!Deadline /\ remLeft >= 0 /\ Reminded!Tells(access, remLeft,
                    mark)
    BY <1>3, <1>4, <2>1 DEF RemJob
  <2>2. CASE remJob' = [at |-> "commit", kind |-> "none", mark |-> Reminded!None, left |-> remLeft,
                        mail |-> FALSE]
             /\ ~(access \in Reminded!Deadline /\ remLeft >= 0 /\ Reminded!Tells(access, remLeft,
                    mark))
    <3>1. remJob' \in RemJob
      BY <1>3, <2>2 DEF RemJob
    <3> QED BY <2>2, <3>1
  <2> QED BY <1>2, <2>1, <2>2
<1>6. remJob.at = "idle"
  BY <1>1 DEF Reminded!Idle
<1>7. RemShape'
  BY <1>1, <1>5 DEF RemInv, RemShape
<1>8. Steady'
  BY <1>1, <1>3, <1>5 DEF Steady
<1>9. Spoken'
  BY <1>1, <1>5, <1>6 DEF RemInv, Spoken, OnItsWay
<1>10. RemindedCounted'
  BY <1>1, <1>5, <1>6 DEF RemInv, RemindedCounted, OfTheEnd, Announced, Seen
<1> QED BY <1>7, <1>8, <1>9, <1>10 DEF RemInv

(* A job that has read goes on, or ends.                                  *)
LEMMA RemAtCommit ==
    ASSUME RemInv, remJob.at = "mail"
    PROVE  LET after == [remJob EXCEPT !.at = "commit"]
           IN  /\ after \in RemJob /\ after.at = "commit" /\ after.kind = remJob.kind
                      /\ remJob # Reminded!Idle
               /\ after.mark = remJob.mark /\ after.left = remJob.left /\ after.mail =
                      remJob.mail /\ remJob.mail
               /\ after # Reminded!Idle
<1>1. remJob \in RemJob /\ remJob.mail
  BY DEF RemInv, RemShape
<1>2. [remJob EXCEPT !.at = "commit"] = [at |-> "commit", kind |-> remJob.kind,
          mark |-> remJob.mark,
                                        left |-> remJob.left, mail |-> remJob.mail]
  <2>1. PICK x \in {"idle", "mail", "commit"}, k \in Reminded!Deadline \cup {"none"},
                 m \in Marks \cup {Reminded!None},
             l \in -1 .. Length, b \in BOOLEAN :
               remJob = [at |-> x, kind |-> k, mark |-> m, left |-> l, mail |-> b]
    BY <1>1 DEF RemJob
  <2> QED BY <2>1
<1>3. Reminded!Idle.mail = FALSE
  BY DEF Reminded!Idle
<1>4. [at |-> "commit", kind |-> remJob.kind, mark |-> remJob.mark, left |-> remJob.left,
       mail |-> remJob.mail] \in RemJob
  BY <1>1 DEF RemJob
<1> QED BY <1>1, <1>2, <1>3, <1>4

(* A warning goes out that had not, and belongs to its period.            *)
LEMMA RemSendKeeps == RemInv /\ Reminded!Send => RemInv'
<1> SUFFICES ASSUME RemInv, Reminded!Send PROVE RemInv'
  OBVIOUS
<1> DEFINE after == [remJob EXCEPT !.at = "commit"]
<1>1. /\ remJob.at = "mail" /\ remJob' = after /\ remTold' = remTold \cup {Reminded!Warning}
      /\ twice' = IF Reminded!Warning \in remTold THEN twice \cup {Reminded!Warning} ELSE twice
      /\ UNCHANGED <<access, remLeft, mark, period, ran, remSince, remOdd>>
  BY DEF Reminded!Send
<1>2. /\ after \in RemJob /\ after.at = "commit" /\ after.kind = remJob.kind
             /\ remJob # Reminded!Idle
      /\ after.mark = remJob.mark /\ after.left = remJob.left /\ after.mail = remJob.mail
             /\ remJob.mail
      /\ after # Reminded!Idle
  BY <1>1, RemAtCommit
<1> HIDE DEF after
<1>3. /\ remJob.kind \in Reminded!Deadline /\ remJob.left \in Nat /\ period \in 1 .. period
      /\ period \in Nat
  BY <1>2 DEF RemInv, RemShape, RemJob
<1>4. /\ Reminded!Warning[1] = period /\ Reminded!Warning[2] = remJob.kind
             /\ Reminded!Warning[3] = remJob.left
      /\ Reminded!Warning = <<Reminded!Warning[1], Reminded!Warning[2], Reminded!Warning[3]>>
             /\ Reminded!Warning' = Reminded!Warning
  BY <1>1, <1>2 DEF Reminded!Warning
<1>5. RemShape'
  BY <1>1, <1>2, <1>3, <1>4 DEF RemInv, RemShape
<1>6. Steady'
  BY <1>1, <1>2 DEF RemInv, Steady
<1>7. ASSUME remOdd \cap {"crash", "overlap"} = {}
      PROVE  \A w \in remTold : w[1] = period =>
                w[2] # "renewing" /\ w # Reminded!Warning /\ remJob.kind # "renewing"
  <2> SUFFICES ASSUME NEW w \in remTold, w[1] = period
               PROVE  w[2] # "renewing" /\ w # Reminded!Warning /\ remJob.kind # "renewing"
    OBVIOUS
  <2>1. remJob.kind = access /\ Reminded!Tells(access, remJob.left, mark) /\ access # "free"
    BY <1>2, <1>3, <1>7 DEF RemInv, Steady, Reminded!Deadline
  <2>2. mark # Reminded!None /\ mark <= Reminded!DueMark(w[3]) /\ (w[2] = "renewing" => mark = 0)
    BY <1>1, <1>7, <2>1 DEF RemInv, Spoken, OnItsWay
  <2>3. Reminded!DueMark(remJob.left) \in Nat /\ mark > Reminded!DueMark(remJob.left)
            /\ access # "renewing"
    BY <1>3, <2>1, <2>2, DueMarkIsIn DEF Reminded!Tells
  <2>4. mark \in Nat
    BY <2>2, RemindersBounds DEF RemInv, RemShape
  <2> QED BY <1>4, <2>1, <2>2, <2>3, <2>4
<1>8. Spoken'
  <2> SUFFICES ASSUME remOdd \cap {"crash", "overlap"} = {} PROVE Spoken'
    BY <1>1 DEF Spoken
  <2>1. Reminded!Warning \notin remTold
    BY <1>4, <1>7
  <2>2. \A w \in remTold' : w[1] = period /\ access # "free" =>
            \/ mark # Reminded!None /\ mark <= Reminded!DueMark(w[3]) /\ (w[2] = "renewing" =>
                   mark = 0)
            \/ OnItsWay(w)'
    BY <1>1, <1>2, <1>4 DEF RemInv, Spoken, OnItsWay
  <2>3. \A w, v \in remTold' : w[1] = v[1] /\ w[2] = "renewing" => v = w
    BY <1>1, <1>4, <1>7 DEF RemInv, Spoken
  <2> QED BY <1>1, <2>1, <2>2, <2>3 DEF RemInv, Spoken
<1>9. RemindedCounted'
  BY <1>1, <1>2, <1>4 DEF RemInv, RemindedCounted, OfTheEnd, Announced, Seen
<1> QED BY <1>5, <1>6, <1>8, <1>9 DEF RemInv

(* A warning does not go.                                                 *)
LEMMA RemMailFailsKeeps == RemInv /\ Reminded!MailFails => RemInv'
<1> SUFFICES ASSUME RemInv, Reminded!MailFails PROVE RemInv'
  OBVIOUS
<1> DEFINE after == [remJob EXCEPT !.at = "commit"]
<1>1. /\ remJob.at = "mail" /\ remJob' = after /\ remOdd' = remOdd \cup {"mail"}
      /\ UNCHANGED <<access, remLeft, mark, period, ran, remTold, twice, remSince>>
  BY DEF Reminded!MailFails
<1>2. /\ after \in RemJob /\ after.at = "commit" /\ after.kind = remJob.kind
             /\ remJob # Reminded!Idle
      /\ after.mark = remJob.mark /\ after.left = remJob.left /\ after.mail = remJob.mail
             /\ remJob.mail
      /\ after # Reminded!Idle
  BY <1>1, RemAtCommit
<1> HIDE DEF after
<1>3. RemShape'
  BY <1>1, <1>2 DEF RemInv, RemShape
<1>4. Steady'
  BY <1>1, <1>2 DEF RemInv, Steady
<1>5. Spoken'
  BY <1>1, <1>2 DEF RemInv, Spoken, OnItsWay
<1>6. RemindedCounted'
  BY <1>1 DEF RemindedCounted
<1> QED BY <1>3, <1>4, <1>5, <1>6 DEF RemInv

(* Every mark of a day on which a run was through has been told.          *)
LEMMA DayIsTold ==
    ASSUME RemInv, remJob.at = "commit", remOdd \cap {"mail", "overlap", "calm"} = {},
           remJob.left = remLeft, access \in {"trial", "ending"}, remLeft \in Marks
    PROVE  Announced(remLeft)
<1>1. remLeft \in Nat /\ Reminded!DueMark(remLeft) = remLeft
  <2>1. remLeft \in Nat
    BY RemindersBounds
  <2> QED BY <2>1, DueMarkIsIn
<1>2. remJob # Reminded!Idle
  BY DEF Reminded!Idle
<1>3. CASE remJob.mail
  <2>1. Reminded!Warning \in remTold /\ remJob.kind = access
    BY <1>2, <1>3 DEF RemInv, Steady, RemindedCounted
  <2>2. OfTheEnd(Reminded!Warning) /\ Reminded!Warning[3] = remLeft
    BY <2>1 DEF OfTheEnd, Reminded!Warning
  <2> QED BY <2>1, <2>2 DEF Announced
<1>4. CASE ~remJob.mail
  <2>1. ~Reminded!Tells(access, remLeft, mark)
    BY <1>1, <1>2, <1>4 DEF RemInv, Steady, Reminded!Deadline
  <2>2. mark \in Nat /\ mark <= remLeft
    <3>1. mark # Reminded!None /\ ~(mark > remLeft) /\ remLeft # Reminded!None
      BY <1>1, <2>1 DEF Reminded!Tells, Reminded!None
    <3>2. mark \in Nat
      BY <3>1, RemindersBounds DEF RemInv, RemShape
    <3> QED BY <1>1, <3>1, <3>2
  <2>3. PICK w \in remTold : OfTheEnd(w) /\ w[3] >= remLeft /\ Reminded!DueMark(w[3]) = mark
    BY <2>2 DEF RemInv, RemindedCounted, Reminded!None
  <2>4. w[3] \in Nat
    BY DEF RemInv, RemShape
  <2>5. Reminded!DueMark(w[3]) >= w[3]
    BY <2>2, <2>3, <2>4, DueMarkIs DEF Reminded!None
  <2>6. w[3] = remLeft
    BY <1>1, <2>2, <2>3, <2>4, <2>5
  <2> QED BY <2>3, <2>6 DEF Announced
<1> QED BY <1>3, <1>4, <1>2 DEF RemInv, RemShape, RemJob

(* The mark of what was told is written.                                  *)
LEMMA RemCommitKeeps == RemInv /\ Reminded!Commit => RemInv'
<1> SUFFICES ASSUME RemInv, Reminded!Commit PROVE RemInv'
  OBVIOUS
<1>1. /\ remJob.at = "commit" /\ remJob' = Reminded!Idle /\ ran' = (ran \/ remJob.left = remLeft)
      /\ mark' = IF remJob.mail THEN remJob.mark ELSE mark
      /\ remOdd' = IF remJob.kind = "renewing" THEN remOdd \cup {"calm"} ELSE remOdd
      /\ UNCHANGED <<access, remLeft, period, remTold, twice, remSince>>
  BY DEF Reminded!Commit
<1>2. remJob # Reminded!Idle /\ Reminded!Idle \in RemJob /\ Reminded!Idle.at = "idle"
          /\ Reminded!Idle.mail = FALSE
  BY <1>1, RemindersBounds DEF Reminded!Idle, RemJob, Reminded!Deadline
<1>3. RemShape'
  BY <1>1, <1>2 DEF RemInv, RemShape, RemJob
<1>4. Steady'
  BY <1>1 DEF Steady
<1>5. ASSUME remJob.mail, "overlap" \notin remOdd
      PROVE  /\ remJob.kind = access /\ access \in Reminded!Deadline /\ Reminded!Tells(access,
                    remJob.left, mark)
             /\ mark' = Reminded!Remember(access, remJob.left)
                    /\ Reminded!DueMark(remJob.left) \in Nat
             /\ remJob.left \in Nat /\ remJob.left >= remLeft
                    /\ Reminded!DueMark(remJob.left) >= remJob.left
             /\ Reminded!Warning[1] = period /\ Reminded!Warning[2] = access
                    /\ Reminded!Warning[3] = remJob.left
  <2>1. /\ remJob.kind = access /\ access \in Reminded!Deadline /\ Reminded!Tells(access,
               remJob.left, mark)
        /\ remJob.left >= remLeft /\ remJob.left \in Nat /\ mark' = Reminded!Remember(access,
               remJob.left)
    BY <1>1, <1>2, <1>5 DEF RemInv, RemShape, RemJob, Steady
  <2>2. Reminded!DueMark(remJob.left) \in Nat /\ Reminded!DueMark(remJob.left) >= remJob.left
    BY <2>1, DueMarkIsIn DEF Reminded!Tells
  <2> QED BY <2>1, <2>2 DEF Reminded!Warning
<1>6. Spoken'
  <2> SUFFICES ASSUME remOdd \cap {"crash", "overlap"} = {}
               PROVE  \A w \in remTold : w[1] = period /\ access # "free" =>
                         mark' # Reminded!None /\ mark' <= Reminded!DueMark(w[3]) /\ (w[2] =
                         "renewing" => mark' = 0)
    BY <1>1 DEF RemInv, Spoken
  <2> SUFFICES ASSUME NEW w \in remTold, w[1] = period, access # "free"
               PROVE  mark' # Reminded!None /\ mark' <= Reminded!DueMark(w[3]) /\ (w[2] =
                          "renewing" => mark' = 0)
    OBVIOUS
  <2>1. \/ mark # Reminded!None /\ mark <= Reminded!DueMark(w[3]) /\ (w[2] = "renewing" => mark = 0)
        \/ remJob.mail /\ w = Reminded!Warning
    BY DEF RemInv, Spoken, OnItsWay
  <2>2. CASE ~remJob.mail
    BY <1>1, <2>1, <2>2
  <2>3. CASE remJob.mail /\ w = Reminded!Warning
    BY <1>5, <2>3 DEF Reminded!Remember, Reminded!None, Reminded!Deadline
  <2>4. CASE remJob.mail /\ mark # Reminded!None /\ mark <= Reminded!DueMark(w[3]) /\ (w[2] =
                 "renewing" => mark = 0)
    <3>1. mark > Reminded!DueMark(remJob.left) /\ access # "renewing"
              /\ Reminded!DueMark(remJob.left) \in Nat
      BY <1>5, <2>4 DEF Reminded!Tells
    <3>2. mark \in Nat /\ mark' = Reminded!DueMark(remJob.left)
      BY <1>5, <2>4, <3>1, RemindersBounds DEF Reminded!Remember, RemInv, RemShape
    <3>3. Reminded!DueMark(w[3]) \in Int
      <4>1. w[3] \in Int
        BY DEF RemInv, RemShape
      <4> QED BY <4>1, DueMarkIsIn
    <3> QED BY <2>4, <3>1, <3>2, <3>3 DEF Reminded!None
  <2> QED BY <2>1, <2>2, <2>3, <2>4
<1>7. RemindedCounted'
  <2> SUFFICES ASSUME remOdd' \cap {"mail", "overlap", "calm"} = {} PROVE RemindedCounted'
    BY DEF RemindedCounted
  <2>1. remJob.kind # "renewing" /\ remOdd' = remOdd
    BY <1>1
  <2>2. mark' # Reminded!None /\ access # "free" =>
              \E w \in remTold : OfTheEnd(w) /\ w[3] >= remLeft /\ Reminded!DueMark(w[3]) = mark'
    <3>1. CASE remJob.mail
      <4>1. Reminded!Warning \in remTold
        BY <1>1, <2>1, <3>1 DEF RemInv, RemindedCounted
      <4>2. OfTheEnd(Reminded!Warning) /\ mark' = Reminded!DueMark(remJob.left)
        BY <1>5, <2>1, <3>1 DEF OfTheEnd, Reminded!Remember, Reminded!Deadline
      <4> QED BY <1>5, <2>1, <3>1, <4>1, <4>2
    <3>2. CASE ~remJob.mail
      BY <1>1, <2>1, <3>2 DEF RemInv, RemindedCounted
    <3> QED BY <3>1, <3>2
  <2>3. ASSUME access \in {"trial", "ending", "free"}, NEW d \in Marks, Seen(d)'
        PROVE  Announced(d)
    <3>1. CASE Seen(d)
      BY <2>1, <2>3, <3>1 DEF RemInv, RemindedCounted
    <3>2. CASE ~Seen(d)
      <4>1. d <= remSince /\ remLeft = d /\ remJob.left = remLeft
        BY <1>1, <2>3, <3>2 DEF Seen
      <4>2. access # "free"
        BY <4>1, RemindersBounds DEF RemInv, RemShape
      <4> QED BY <1>1, <2>1, <2>3, <4>1, <4>2, DayIsTold
    <3> QED BY <3>1, <3>2
  <2>4. \A w : OfTheEnd(w)' <=> OfTheEnd(w)
    BY <1>1 DEF OfTheEnd
  <2>5. \A d : Announced(d) => Announced(d)'
    BY <1>1, <2>4 DEF Announced
  <2> QED BY <1>1, <1>2, <2>2, <2>3, <2>4, <2>5 DEF RemindedCounted
<1> QED BY <1>3, <1>4, <1>6, <1>7 DEF RemInv

(* The process dies, with what was told and not yet committed.            *)
LEMMA RemCrashKeeps == RemInv /\ Reminded!Crash => RemInv'
<1> SUFFICES ASSUME RemInv, Reminded!Crash PROVE RemInv'
  OBVIOUS
<1>1. /\ remJob' = Reminded!Idle /\ remOdd' = remOdd \cup {"crash"}
      /\ UNCHANGED <<access, remLeft, mark, period, ran, remTold, twice, remSince>>
  BY DEF Reminded!Crash
<1>2. Reminded!Idle \in RemJob /\ Reminded!Idle.at = "idle" /\ Reminded!Idle.mail = FALSE
  BY RemindersBounds DEF Reminded!Idle, RemJob, Reminded!Deadline
<1>3. RemShape' /\ Steady' /\ Spoken'
  BY <1>1, <1>2 DEF RemInv, RemShape, Steady, Spoken
<1>4. RemindedCounted'
  BY <1>1, <1>2 DEF RemInv, RemindedCounted, OfTheEnd, Announced, Seen
<1> QED BY <1>3, <1>4 DEF RemInv

-----------------------------------------------------------------------------
(* A period starts without a mark.                                        *)
LEMMA RemStartKeeps ==
    ASSUME RemInv, Reminded!Start("renewing")
    PROVE  RemInv'
<1>1. /\ period < MaxPeriods /\ access' = "renewing" /\ remLeft' = Length /\ period' = period + 1
      /\ mark' = Reminded!None /\ remSince' = Length /\ UNCHANGED <<remJob, ran, remTold, twice>>
      /\ remOdd' = (remOdd \ {"calm"}) \cup (IF remJob # Reminded!Idle THEN {"overlap"} ELSE {})
  BY DEF Reminded!Start
<1>2. Length \in -1 .. Length /\ period \in Nat /\ period' \in 1 .. MaxPeriods
      /\ \A w \in remTold : w[1] \in 1 .. period' /\ w[1] # period'
  BY <1>1, RemindersBounds DEF RemInv, RemShape
<1>3. RemShape'
  BY <1>1, <1>2 DEF RemInv, RemShape, Reminded!Deadline
<1>4. "overlap" \notin remOdd' => remJob = Reminded!Idle /\ "overlap" \notin remOdd
  BY <1>1
<1>5. Reminded!Idle.at = "idle"
  BY DEF Reminded!Idle
<1>6. Steady'
  BY <1>1, <1>4 DEF Steady
<1>7. Spoken'
  BY <1>1, <1>2 DEF RemInv, Spoken
<1>8. RemindedCounted'
  BY <1>1, <1>4, <1>5 DEF RemindedCounted
<1> QED BY <1>3, <1>6, <1>7, <1>8 DEF RemInv

(* A plan is set to cancel, or is not any more.                           *)
LEMMA RemChangeKeeps ==
    ASSUME RemInv, NEW a \in {"renewing", "ending"}, NEW b \in {"renewing", "ending"},
               Reminded!Change(a, b)
    PROVE  RemInv'
<1>1. /\ access = a /\ remLeft >= 0 /\ access' = b /\ remSince' = IF ran THEN remLeft - 1
             ELSE remLeft
      /\ remOdd' = remOdd \cup (IF remJob # Reminded!Idle THEN {"overlap"} ELSE {})
      /\ UNCHANGED <<remLeft, mark, period, remJob, ran, remTold, twice>>
  BY DEF Reminded!Change, Reminded!Overlap
<1>2. remLeft \in 0 .. Length /\ remSince' \in -1 .. Length
  BY <1>1, RemindersBounds DEF RemInv, RemShape
<1>3. RemShape'
  BY <1>1, <1>2 DEF RemInv, RemShape, Reminded!Deadline
<1>4. "overlap" \notin remOdd' => remJob = Reminded!Idle /\ "overlap" \notin remOdd
  BY <1>1
<1>5. Steady'
  BY <1>1, <1>4 DEF Steady
<1>55. remJob = Reminded!Idle => remJob.at # "commit"
  BY DEF Reminded!Idle
<1>6. Spoken'
  BY <1>1, <1>4, <1>55 DEF RemInv, Spoken, OnItsWay, Reminded!Deadline
<1>7. RemindedCounted'
  <2>1. \A d \in Marks : ~Seen(d)'
    BY <1>1, <1>2, RemindersBounds DEF Seen
  <2>2. \A w : OfTheEnd(w)' <=> OfTheEnd(w)
    BY <1>1 DEF OfTheEnd
  <2>3. access # "free" /\ access' # "free"
    BY <1>1
  <2> QED BY <1>1, <1>4, <1>55, <2>1, <2>2, <2>3 DEF RemInv, RemindedCounted
<1> QED BY <1>3, <1>5, <1>6, <1>7 DEF RemInv

(* Access ends.                                                           *)
LEMMA RemLoseKeeps == RemInv /\ Reminded!Lose => RemInv'
<1> SUFFICES ASSUME RemInv, Reminded!Lose PROVE RemInv'
  OBVIOUS
<1>1. /\ access \in {"trial", "ending"} /\ remLeft < 0 /\ access' = "free"
      /\ mark' \in {mark, Reminded!None}
      /\ remOdd' = remOdd \cup (IF remJob # Reminded!Idle THEN {"overlap"} ELSE {})
      /\ UNCHANGED <<remLeft, period, remJob, ran, remTold, twice, remSince>>
  BY DEF Reminded!Lose, Reminded!Overlap
<1>2. remLeft = -1
  BY <1>1 DEF RemInv, RemShape
<1>3. RemShape'
  BY <1>1, <1>2 DEF RemInv, RemShape
<1>4. "overlap" \notin remOdd' => remJob = Reminded!Idle /\ "overlap" \notin remOdd
  BY <1>1
<1>5. Steady' /\ Spoken'
  BY <1>1, <1>4 DEF RemInv, Steady, Spoken
<1>6. RemindedCounted'
  <2>1. \A d : (Seen(d)' <=> Seen(d)) /\ (Announced(d)' <=> Announced(d))
    BY <1>1 DEF Seen, Announced, OfTheEnd
  <2>2. remJob = Reminded!Idle => remJob.at # "commit"
    BY DEF Reminded!Idle
  <2> QED BY <1>1, <1>4, <2>1, <2>2 DEF RemInv, RemindedCounted
<1> QED BY <1>3, <1>5, <1>6 DEF RemInv

(* A day passes after its run.                                            *)
LEMMA RemDayPassesKeeps == RemInv /\ Reminded!DayPasses => RemInv'
<1> SUFFICES ASSUME RemInv, Reminded!DayPasses PROVE RemInv'
  OBVIOUS
<1>1. /\ ran /\ remLeft >= 0 /\ access \in Reminded!Deadline /\ remLeft' = remLeft - 1 /\ ran' =
             FALSE
      /\ UNCHANGED <<access, mark, period, remJob, remTold, twice, remSince, remOdd>>
  BY DEF Reminded!DayPasses
<1>2. remLeft \in 0 .. Length /\ remLeft' \in -1 .. Length
  BY <1>1, RemindersBounds DEF RemInv, RemShape
<1>3. RemShape'
  BY <1>1, <1>2 DEF RemInv, RemShape, Reminded!Deadline
<1>4. remJob.left \in Int /\ \A w \in remTold : w[3] \in Int
  BY DEF RemInv, RemShape, RemJob
<1>5. Steady'
  BY <1>1, <1>2, <1>4 DEF RemInv, Steady
<1>55. Reminded!Warning' = Reminded!Warning
  BY <1>1 DEF Reminded!Warning
<1>6. Spoken'
  BY <1>1, <1>55 DEF RemInv, Spoken, OnItsWay
<1>7. RemindedCounted'
  <2>1. \A d \in Marks : Seen(d)' => Seen(d)
    BY <1>1, <1>2, RemindersBounds DEF Seen
  <2>2. \A d : Announced(d)' <=> Announced(d)
    BY <1>1 DEF Announced, OfTheEnd
  <2>3. \A w \in remTold : w[3] >= remLeft => w[3] >= remLeft'
    BY <1>1, <1>2, <1>4
  <2>4. (\A w : OfTheEnd(w)' <=> OfTheEnd(w)) /\ Reminded!Warning' = Reminded!Warning
    BY <1>1 DEF OfTheEnd, Reminded!Warning
  <2> QED BY <1>1, <2>1, <2>2, <2>3, <2>4 DEF RemInv, RemindedCounted
<1> QED BY <1>3, <1>5, <1>6, <1>7 DEF RemInv

(* Every step keeps the invariant.                                        *)
LEMMA RemindersStep == RemInv /\ [Reminded!Next]_(Reminded!vars) => RemInv'
<1> SUFFICES ASSUME RemInv, [Reminded!Next]_(Reminded!vars) PROVE RemInv'
  OBVIOUS
<1>1. CASE Reminded!Buy \/ Reminded!Renew
  BY <1>1, RemStartKeeps DEF Reminded!Buy, Reminded!Renew
<1>2. CASE Reminded!Cancel \/ Reminded!Resume
  BY <1>2, RemChangeKeeps DEF Reminded!Cancel, Reminded!Resume
<1>3. CASE UNCHANGED Reminded!vars
  BY <1>3 DEF Reminded!vars, RemInv, RemShape, Steady, Spoken, RemindedCounted, OnItsWay,
     Reminded!Warning, OfTheEnd,
              Announced, Seen
<1> QED BY <1>1, <1>2, <1>3, RemReadKeeps, RemSendKeeps, RemMailFailsKeeps, RemCommitKeeps,
           RemCrashKeeps, RemLoseKeeps, RemDayPassesKeeps DEF Reminded!Next

(* The invariant says what was promised.                                  *)
LEMMA RemindersInvImplies ==
    RemInv => Reminded!TypeOK /\ Reminded!ToldOnce /\ Reminded!EndWasCountedDown
    /\ Reminded!RenewalIsCalm
<1> SUFFICES ASSUME RemInv PROVE Reminded!TypeOK /\ Reminded!ToldOnce
                        /\ Reminded!EndWasCountedDown /\ Reminded!RenewalIsCalm
  OBVIOUS
<1>1. Reminded!TypeOK
  <2>1. remOdd = {} /\ access = "trial" => mark = Reminded!None \/ mark >= remLeft
    <3> SUFFICES ASSUME remOdd = {}, access = "trial", mark # Reminded!None PROVE mark >= remLeft
      OBVIOUS
    <3>1. PICK w \in remTold : w[3] >= remLeft /\ Reminded!DueMark(w[3]) = mark
      BY DEF RemInv, RemindedCounted
    <3>2. w[3] \in Int /\ remLeft \in Int
      BY DEF RemInv, RemShape
    <3>3. mark >= w[3] /\ mark \in Int
      BY <3>1, <3>2, DueMarkIsIn
    <3> QED BY <3>1, <3>2, <3>3
  <2> QED BY <2>1 DEF RemInv, RemShape, RemJob, Reminded!TypeOK
<1>2. Reminded!ToldOnce
  BY DEF RemInv, Spoken, Reminded!ToldOnce
<1>3. Reminded!EndWasCountedDown
  <2> SUFFICES ASSUME access = "free", remOdd \cap {"mail", "overlap", "calm"} = {},
                      NEW d \in Marks, d <= remSince
               PROVE  Announced(d)
    BY DEF Reminded!EndWasCountedDown, Announced, OfTheEnd
  <2>1. Seen(d)
    BY RemindersBounds DEF RemInv, RemShape, Seen
  <2> QED BY <2>1 DEF RemInv, RemindedCounted
<1>4. Reminded!RenewalIsCalm
  BY DEF RemInv, Spoken, Reminded!RenewalIsCalm
<1> QED BY <1>1, <1>2, <1>3, <1>4

-----------------------------------------------------------------------------
(* Lookalikes: matches, rows and messages                                 *)

Busy == [pc : {"probed", "tell", "told", "commit"}, cand : Candidate, dom : Domain, armed : BOOLEAN]

(* Every variable keeps its shape.                                        *)
LookShape ==
    /\ claimed \subseteq Domain /\ lookGone \subseteq Tenant /\ lookKnown \subseteq Domain
    /\ \A d \in claimed : Owner[d] \notin lookGone
    /\ mx \subseteq Candidate /\ queue \in Seq(Imitates) /\ Len(queue) <= QueueSize
    /\ lookJob \in Busy \cup {Lookalikes!Idle} /\ lookFaults \in Nat
    /\ lookRows \subseteq Tenant \X Candidate \X BOOLEAN
    /\ lookTold \in [Tenant \X Candidate -> Nat]
(* A tenant has one row of a candidate.                                   *)
OneRowEach == \A r, q \in lookRows : r[1] = q[1] /\ r[2] = q[2] => r = q

(* Who is about to hear of a lookalike has no armed row of it; who has been*)
(* spared it has one.                                                     *)
HeardOnce ==
    lookFaults = 0 /\ lookJob # Lookalikes!Idle /\ Lookalikes!To \notin lookGone =>
        /\ lookJob.pc \in {"tell", "told"} => lookJob.armed /\ <<Lookalikes!To, lookJob.cand,
               TRUE>> \notin lookRows
        /\ lookJob.pc = "commit" /\ lookJob.armed => <<Lookalikes!To, lookJob.cand,
               TRUE>> \in lookRows

LookInv == LookShape /\ OneRowEach /\ HeardOnce /\ Lookalikes!ToldOnceArmed

-----------------------------------------------------------------------------
(* A job that is not idle is about a tenant and a candidate.              *)
LEMMA LookJobIs ==
    ASSUME LookShape
    PROVE  /\ lookJob # Lookalikes!Idle <=> lookJob \in Busy
           /\ lookJob \in Busy => /\ Lookalikes!To \in Tenant /\ lookJob.cand \in Candidate
                                      /\ lookJob.dom \in Domain
                                  /\ lookJob.armed \in BOOLEAN
                                  /\ lookJob.pc \in {"probed", "tell", "told", "commit"}
           /\ lookJob = Lookalikes!Idle => lookJob.pc = "idle"
<1>1. ASSUME lookJob \in Busy PROVE lookJob # Lookalikes!Idle
  BY <1>1 DEF Busy, Lookalikes!Idle
<1>2. ASSUME lookJob \in Busy
      PROVE  /\ Lookalikes!To \in Tenant /\ lookJob.cand \in Candidate /\ lookJob.dom \in Domain
             /\ lookJob.armed \in BOOLEAN /\ lookJob.pc \in {"probed", "tell", "told", "commit"}
  BY <1>2, LookalikesBounds DEF Busy, Lookalikes!To
<1>3. lookJob \in Busy \cup {Lookalikes!Idle}
  BY DEF LookShape
<1> QED BY <1>1, <1>2, <1>3 DEF Lookalikes!Idle

(* A job that goes on is about the same match.                            *)
LEMMA LookStageIs ==
    ASSUME LookShape, lookJob \in Busy, NEW p \in {"probed", "tell", "told", "commit"}
    PROVE  LET after == [lookJob EXCEPT !.pc = p]
           IN  /\ after \in Busy /\ after.pc = p /\ after.cand = lookJob.cand /\ after.dom =
                      lookJob.dom
               /\ after.armed = lookJob.armed
<1>1. PICK x \in {"probed", "tell", "told", "commit"}, c \in Candidate, d \in Domain,
               b \in BOOLEAN :
          lookJob = [pc |-> x, cand |-> c, dom |-> d, armed |-> b]
  BY DEF Busy
<1>2. [lookJob EXCEPT !.pc = p] = [pc |-> p, cand |-> c, dom |-> d, armed |-> b]
  BY <1>1
<1> QED BY <1>1, <1>2 DEF Busy

(* A row is a tenant, a candidate and whether it is armed.                *)
LEMMA LookRowParts ==
    ASSUME NEW r \in Tenant \X Candidate \X BOOLEAN
    PROVE  r = <<r[1], r[2], r[3]>> /\ r[1] \in Tenant /\ r[2] \in Candidate /\ r[3] \in BOOLEAN
<1>1. PICK t \in Tenant, c \in Candidate, b \in BOOLEAN : r = <<t, c, b>>
  OBVIOUS
<1> QED BY <1>1

(* A match is a candidate and a domain.                                   *)
LEMMA LookPairParts ==
    ASSUME NEW S, NEW T, NEW c \in S \X T
    PROVE  c = <<c[1], c[2]>> /\ c[1] \in S /\ c[2] \in T
<1>1. PICK x \in S, y \in T : c = <<x, y>>
  OBVIOUS
<1> QED BY <1>1

(* That the lookalike was armed is an armed row of it.                    *)
LEMMA ArmedIsRow ==
    ASSUME LookShape
    PROVE  Lookalikes!WasArmed <=> <<Lookalikes!To, lookJob.cand, TRUE>> \in lookRows
<1>1. ASSUME NEW r \in lookRows, r[1] = Lookalikes!To, r[2] = lookJob.cand, r[3] PROVE r =
                 <<Lookalikes!To, lookJob.cand, TRUE>>
  <2>1. r = <<r[1], r[2], r[3]>> /\ r[3] \in BOOLEAN
    BY LookRowParts DEF LookShape
  <2> QED BY <1>1, <2>1
<1>2. ASSUME <<Lookalikes!To, lookJob.cand, TRUE>> \in lookRows PROVE Lookalikes!WasArmed
  <2> DEFINE r == <<Lookalikes!To, lookJob.cand, TRUE>>
  <2>1. r[1] = Lookalikes!To /\ r[2] = lookJob.cand /\ r[3]
    OBVIOUS
  <2>2. r \in lookRows
    BY <1>2
  <2> HIDE DEF r
  <2> QED BY <2>1, <2>2 DEF Lookalikes!WasArmed, Lookalikes!Existing
<1> QED BY <1>1, <1>2 DEF Lookalikes!WasArmed, Lookalikes!Existing

(* At the start nothing is watched.                                       *)
LEMMA LookStart == Lookalikes!Init => LookInv
<1> SUFFICES ASSUME Lookalikes!Init PROVE LookInv
  OBVIOUS
<1>1. queue \in Seq(Imitates) /\ Len(queue) = 0
  BY DEF Lookalikes!Init
<1>2. lookTold \in [Tenant \X Candidate -> Nat]
  BY DEF Lookalikes!Init
<1>3. lookJob = Lookalikes!Idle /\ lookJob.pc = "idle" /\ lookRows = {} /\ lookFaults = 0
  BY DEF Lookalikes!Init, Lookalikes!Idle
<1>4. LookShape
  BY <1>1, <1>2, <1>3, LookalikesBounds DEF Lookalikes!Init, LookShape
<1>5. OneRowEach /\ HeardOnce
  BY <1>3 DEF OneRowEach, HeardOnce
<1>6. Lookalikes!ToldOnceArmed
  BY <1>3 DEF Lookalikes!Init, Lookalikes!ToldOnceArmed, Lookalikes!Telling
<1> QED BY <1>4, <1>5, <1>6 DEF LookInv

(* What tells no one, records nothing and leaves the job where it is.     *)
LEMMA LookAside ==
    ASSUME LookInv, UNCHANGED <<lookGone, lookJob, lookRows, lookTold>>,
               lookFaults' \in {lookFaults, lookFaults + 1}, LookShape'
    PROVE  LookInv'
<1>1. lookFaults' = 0 => lookFaults = 0
  BY DEF LookInv, LookShape
<1>2. OneRowEach'
  BY DEF LookInv, OneRowEach
<1>3. HeardOnce'
  BY <1>1 DEF LookInv, HeardOnce, Lookalikes!To
<1>4. Lookalikes!ToldOnceArmed'
  BY <1>1 DEF LookInv, Lookalikes!ToldOnceArmed, Lookalikes!Telling, Lookalikes!To
<1> QED BY <1>2, <1>3, <1>4 DEF LookInv

(* A customer claims a domain.                                            *)
LEMMA LookClaimKeeps == ASSUME LookInv, NEW d \in Domain, Lookalikes!Claim(d) PROVE LookInv'
<1>1. LookShape'
  BY DEF LookInv, LookShape, Lookalikes!Claim
<1>2. UNCHANGED <<lookGone, lookJob, lookRows, lookTold, lookFaults>>
  BY DEF Lookalikes!Claim
<1> QED BY <1>1, <1>2, LookAside

(* A tenant leaves with its domains and rows.                             *)
LEMMA LookLeaveKeeps == ASSUME LookInv, NEW t \in Tenant, Lookalikes!Leave(t) PROVE LookInv'
<1>1. /\ lookGone' = lookGone \cup {t} /\ claimed' = {d \in claimed : Owner[d] # t}
      /\ lookRows' = {r \in lookRows : r[1] # t}
      /\ UNCHANGED <<lookKnown, reloading, up, mx, queue, lookJob, lookTold, owed, certs,
             lookFaults>>
  BY DEF Lookalikes!Leave
<1>2. LookShape'
  BY <1>1 DEF LookInv, LookShape
<1>3. OneRowEach'
  BY <1>1 DEF LookInv, OneRowEach
<1>4. Lookalikes!To' = Lookalikes!To
  BY <1>1 DEF Lookalikes!To
<1>5. \A u \in Tenant \ lookGone' : \A c, b : <<u, c, b>> \in lookRows' <=> <<u, c, b>> \in lookRows
  BY <1>1
<1>6. HeardOnce'
  <2> SUFFICES ASSUME lookFaults' = 0, lookJob' # Lookalikes!Idle, Lookalikes!To' \notin lookGone'
               PROVE  /\ lookJob'.pc \in {"tell", "told"} => lookJob'.armed /\ <<Lookalikes!To',
                             lookJob'.cand, TRUE>> \notin lookRows'
                      /\ lookJob'.pc = "commit" /\ lookJob'.armed => <<Lookalikes!To',
                             lookJob'.cand, TRUE>> \in lookRows'
    BY DEF HeardOnce
  <2>1. Lookalikes!To \in Tenant /\ Lookalikes!To \notin lookGone
    BY <1>1, <1>4, LookJobIs DEF LookInv
  <2>2. \A b : <<Lookalikes!To, lookJob.cand, b>> \in lookRows' <=> <<Lookalikes!To, lookJob.cand,
            b>> \in lookRows
    BY <1>4, <1>5, <2>1
  <2> QED BY <1>1, <1>4, <2>1, <2>2 DEF LookInv, HeardOnce
<1>7. Lookalikes!ToldOnceArmed'
  BY <1>1, <1>4, <1>5 DEF LookInv, Lookalikes!ToldOnceArmed, Lookalikes!Telling
<1> QED BY <1>2, <1>3, <1>6, <1>7 DEF LookInv

(* A match is queued while there is room.                                 *)
LEMMA LookCertificateKeeps == ASSUME LookInv, NEW c \in Candidate, Lookalikes!Certificate(c)
    PROVE LookInv'
<1>1. UNCHANGED <<claimed, lookGone, lookKnown, reloading, up, mx, lookJob, lookRows, lookTold,
          lookFaults>>
  BY DEF Lookalikes!Certificate
<1>2. queue' \in Seq(Imitates) /\ Len(queue') <= QueueSize
  <2>1. CASE queue' = queue
    BY <2>1 DEF LookInv, LookShape
  <2>2. ASSUME NEW d \in Lookalikes!Matches(c), Len(queue) < QueueSize, queue' = Append(queue,
                   <<c, d>>)
        PROVE  queue' \in Seq(Imitates) /\ Len(queue') <= QueueSize
    <3>1. <<c, d>> \in Imitates
      BY DEF Lookalikes!Matches, Lookalikes!Imitated
    <3>2. queue \in Seq(Imitates)
      BY DEF LookInv, LookShape
    <3>3. queue' \in Seq(Imitates) /\ Len(queue') = Len(queue) + 1
      BY <2>2, <3>1, <3>2, AppendProperties
    <3>4. Len(queue) \in Nat
      BY <3>2, LenProperties
    <3> QED BY <2>2, <3>3, <3>4, LookalikesBounds
  <2> QED BY <2>1, <2>2 DEF Lookalikes!Certificate
<1>3. LookShape'
  BY <1>1, <1>2 DEF LookInv, LookShape
<1> QED BY <1>1, <1>3, LookAside

(* A match is taken and probed.                                           *)
LEMMA LookTakeKeeps == ASSUME LookInv, NEW serves \in BOOLEAN, Lookalikes!Take(serves)
    PROVE LookInv'
<1> DEFINE after == [pc |-> "probed", cand |-> Head(queue)[1], dom |-> Head(queue)[2],
               armed |-> serves]
<1>1. /\ lookJob = Lookalikes!Idle /\ queue # <<>> /\ lookJob' = after /\ queue' = Tail(queue)
      /\ lookFaults' \in {lookFaults, lookFaults + 1}
      /\ UNCHANGED <<claimed, lookGone, lookKnown, reloading, up, mx, lookRows, lookTold, owed,
             certs, lookMoves>>
  BY DEF Lookalikes!Take, Lookalikes!Fault
<1>2. queue \in Seq(Imitates) /\ Len(queue) \in Nat /\ Len(queue) <= QueueSize /\ lookFaults \in Nat
  BY LenProperties DEF LookInv, LookShape
<1>3. Head(queue) \in Imitates /\ Tail(queue) \in Seq(Imitates) /\ Len(Tail(queue)) = Len(queue) - 1
  BY <1>1, <1>2, HeadTailProperties
<1>4. Head(queue)[1] \in Candidate /\ Head(queue)[2] \in Domain
  <2>1. Head(queue) \in Candidate \X Domain
    BY <1>3, LookalikesBounds
  <2> QED BY <2>1, LookPairParts
<1>5. after \in Busy /\ after.pc = "probed"
  BY <1>4 DEF Busy
<1> HIDE DEF after
<1>6. Len(queue') <= QueueSize /\ lookFaults' \in Nat /\ (lookFaults' = 0 => lookFaults = 0)
  BY <1>1, <1>2, <1>3, LookalikesBounds
<1>7. LookShape'
  BY <1>1, <1>3, <1>5, <1>6 DEF LookInv, LookShape
<1>8. OneRowEach' /\ HeardOnce'
  BY <1>1, <1>5 DEF LookInv, OneRowEach, HeardOnce
<1>9. Lookalikes!ToldOnceArmed'
  BY <1>1, <1>5, <1>6 DEF LookInv, Lookalikes!ToldOnceArmed, Lookalikes!Telling, Lookalikes!Idle
<1> QED BY <1>7, <1>8, <1>9 DEF LookInv

(* Whether to tell is decided by the rows there are.                      *)
LEMMA LookPersistKeeps == LookInv /\ Lookalikes!Persist => LookInv'
<1> SUFFICES ASSUME LookInv, Lookalikes!Persist PROVE LookInv'
  OBVIOUS
<1> DEFINE after == [lookJob EXCEPT !.pc = IF Lookalikes!NewlyArmed THEN "tell" ELSE "commit"]
<1>1. /\ lookJob.pc = "probed" /\ lookJob' = (IF lookJob.dom \notin claimed
             THEN Lookalikes!Idle ELSE after)
      /\ UNCHANGED <<claimed, lookGone, lookKnown, reloading, up, mx, queue, lookRows, lookTold,
             owed,
                     certs, lookMoves, lookFaults>>
  BY DEF Lookalikes!Persist
<1>2. lookJob \in Busy
  BY <1>1, LookJobIs DEF LookInv
<1>3. /\ after \in Busy /\ after.pc = (IF Lookalikes!NewlyArmed THEN "tell" ELSE "commit")
      /\ after.cand = lookJob.cand /\ after.dom = lookJob.dom /\ after.armed = lookJob.armed
  BY <1>2, LookStageIs DEF LookInv
<1> HIDE DEF after
<1>4. LookShape'
  BY <1>1, <1>3 DEF LookInv, LookShape
<1>5. lookJob' # Lookalikes!Idle => lookJob' = after /\ Lookalikes!To' = Lookalikes!To
  BY <1>1, <1>3 DEF Lookalikes!To
<1>6. HeardOnce'
  <2>1. Lookalikes!WasArmed <=> <<Lookalikes!To, lookJob.cand, TRUE>> \in lookRows
    BY ArmedIsRow DEF LookInv
  <2>2. Lookalikes!NewlyArmed <=> lookJob.armed /\ ~Lookalikes!WasArmed
    BY DEF Lookalikes!NewlyArmed
  <2> QED BY <1>1, <1>3, <1>5, <2>1, <2>2 DEF HeardOnce
<1>7. lookJob'.pc # "told"
  BY <1>1, <1>3 DEF Lookalikes!Idle
<1>8. Lookalikes!ToldOnceArmed'
  BY <1>1, <1>7 DEF LookInv, Lookalikes!ToldOnceArmed, Lookalikes!Telling
<1>9. OneRowEach'
  BY <1>1 DEF LookInv, OneRowEach
<1> QED BY <1>4, <1>6, <1>8, <1>9 DEF LookInv

(* The customer is told, and had not been.                                *)
LEMMA LookTellKeeps == LookInv /\ Lookalikes!Tell => LookInv'
<1> SUFFICES ASSUME LookInv, Lookalikes!Tell PROVE LookInv'
  OBVIOUS
<1> DEFINE after == [lookJob EXCEPT !.pc = "told"]
<1>1. /\ lookJob.pc = "tell" /\ lookJob' = after /\ lookTold' =
             [lookTold EXCEPT ![<<Lookalikes!To, lookJob.cand>>] = @ + 1]
      /\ UNCHANGED <<claimed, lookGone, lookKnown, reloading, up, mx, queue, lookRows, owed,
                     certs, lookMoves, lookFaults>>
  BY DEF Lookalikes!Tell
<1>2. lookJob \in Busy /\ Lookalikes!To \in Tenant /\ lookJob.cand \in Candidate
          /\ lookJob # Lookalikes!Idle
  BY <1>1, LookJobIs DEF LookInv
<1>3. /\ after \in Busy /\ after.pc = "told" /\ after.cand = lookJob.cand /\ after.dom = lookJob.dom
      /\ after.armed = lookJob.armed
  BY <1>2, LookStageIs DEF LookInv
<1> HIDE DEF after
<1>4. lookTold \in [Tenant \X Candidate -> Nat]
  BY DEF LookInv, LookShape
<1>5. lookTold' \in [Tenant \X Candidate -> Nat]
  BY <1>1, <1>2, <1>4
<1>6. LookShape'
  BY <1>1, <1>3, <1>5 DEF LookInv, LookShape
<1>7. Lookalikes!To' = Lookalikes!To
  BY <1>1, <1>3 DEF Lookalikes!To
<1>8. OneRowEach' /\ HeardOnce'
  BY <1>1, <1>2, <1>3, <1>7 DEF LookInv, OneRowEach, HeardOnce
<1>9. Lookalikes!ToldOnceArmed'
  <2>8. \A t, c : (Lookalikes!Telling(t, c)' <=> Lookalikes!To = t /\ lookJob.cand = c)
            /\ ~Lookalikes!Telling(t, c)
    BY <1>1, <1>3, <1>7 DEF Lookalikes!Telling
  <2> SUFFICES ASSUME lookFaults = 0, NEW t \in Tenant \ lookGone, NEW c \in Candidate
               PROVE  lookTold'[<<t, c>>] = (IF <<t, c, TRUE>> \in lookRows THEN 1 ELSE 0)
                                             + (IF Lookalikes!To = t /\ lookJob.cand = c
                                             THEN 1 ELSE 0)
    <3>1. lookRows' = lookRows /\ lookGone' = lookGone /\ lookFaults' = lookFaults
      BY <1>1
    <3>2. ASSUME NEW t \in Tenant \ lookGone, NEW c \in Candidate, lookFaults = 0,
                 lookTold'[<<t, c>>] = (IF <<t, c, TRUE>> \in lookRows THEN 1 ELSE 0)
                                       + (IF Lookalikes!To = t /\ lookJob.cand = c THEN 1 ELSE 0)
          PROVE  lookTold'[<<t, c>>] = (IF <<t, c, TRUE>> \in lookRows' THEN 1 ELSE 0)
                                       + (IF Lookalikes!Telling(t, c)' THEN 1 ELSE 0)
      <4>1. Lookalikes!Telling(t, c)' <=> Lookalikes!To = t /\ lookJob.cand = c
        BY <2>8
      <4> QED BY <3>1, <3>2, <4>1
    <3> QED BY <3>1, <3>2 DEF Lookalikes!ToldOnceArmed
  <2>1. lookTold[<<t, c>>] = (IF <<t, c, TRUE>> \in lookRows THEN 1 ELSE 0)
    <3>1. lookTold[<<t, c>>] = (IF <<t, c, TRUE>> \in lookRows THEN 1 ELSE 0)
                               + (IF Lookalikes!Telling(t, c) THEN 1 ELSE 0)
      BY DEF LookInv, Lookalikes!ToldOnceArmed
    <3> QED BY <2>8, <3>1
  <2>2. CASE Lookalikes!To = t /\ lookJob.cand = c
    <3>1. <<t, c, TRUE>> \notin lookRows
      BY <1>1, <1>2, <2>2 DEF LookInv, HeardOnce
    <3>2. lookTold'[<<t, c>>] = lookTold[<<t, c>>] + 1
      BY <1>1, <1>2, <1>4, <2>2
    <3> QED BY <2>1, <2>2, <3>1, <3>2
  <2>3. CASE ~(Lookalikes!To = t /\ lookJob.cand = c)
    <3>1. <<t, c>> # <<Lookalikes!To, lookJob.cand>>
      BY <2>3
    <3>2. lookTold'[<<t, c>>] = lookTold[<<t, c>>]
      BY <1>1, <1>2, <1>4, <3>1
    <3> QED BY <2>1, <2>3, <3>2
  <2> QED BY <2>2, <2>3
<1> QED BY <1>6, <1>8, <1>9 DEF LookInv

(* The row is written; the one who was told has an armed one now.         *)
LEMMA LookCommitKeeps == LookInv /\ Lookalikes!Commit => LookInv'
<1> SUFFICES ASSUME LookInv, Lookalikes!Commit PROVE LookInv'
  OBVIOUS
<1> DEFINE new == <<Lookalikes!To, lookJob.cand, lookJob.armed \/ Lookalikes!WasArmed>>
<1>1. /\ lookJob.pc \in {"told", "commit"} /\ Lookalikes!To \notin lookGone /\ lookJob' =
             Lookalikes!Idle
      /\ lookRows' = (lookRows \ Lookalikes!Existing) \cup {new}
      /\ UNCHANGED <<claimed, lookGone, lookKnown, reloading, up, mx, queue, lookTold, owed,
                     certs, lookMoves, lookFaults>>
  BY DEF Lookalikes!Commit, Lookalikes!Recorded
<1>2. lookJob \in Busy /\ Lookalikes!To \in Tenant /\ lookJob.cand \in Candidate
          /\ lookJob # Lookalikes!Idle
  BY <1>1, LookJobIs DEF LookInv
<1>3. (lookJob.armed \/ Lookalikes!WasArmed) \in BOOLEAN
  OBVIOUS
<1>4. new \in Tenant \X Candidate \X BOOLEAN /\ new[1] = Lookalikes!To /\ new[2] = lookJob.cand
  BY <1>2, <1>3
<1>5. Lookalikes!WasArmed <=> <<Lookalikes!To, lookJob.cand, TRUE>> \in lookRows
  BY ArmedIsRow DEF LookInv
<1>6. new = <<Lookalikes!To, lookJob.cand, TRUE>> <=> lookJob.armed \/ Lookalikes!WasArmed
  BY <1>3
<1>7. Lookalikes!Existing = {r \in lookRows : r[1] = Lookalikes!To /\ r[2] = lookJob.cand}
  BY DEF Lookalikes!Existing
<1> HIDE DEF new
<1>8. LookShape'
  BY <1>1, <1>4 DEF LookInv, LookShape
<1>9. OneRowEach'
  BY <1>1, <1>4, <1>7 DEF LookInv, OneRowEach
<1>10. HeardOnce'
  BY <1>1 DEF HeardOnce
<1>11. Lookalikes!ToldOnceArmed'
  <2>8. \A t, c : ~Lookalikes!Telling(t, c)'
    BY <1>1 DEF Lookalikes!Telling, Lookalikes!Idle
  <2> SUFFICES ASSUME lookFaults = 0, NEW t \in Tenant \ lookGone, NEW c \in Candidate
               PROVE  lookTold[<<t, c>>] = IF <<t, c, TRUE>> \in lookRows' THEN 1 ELSE 0
    <3>1. \A t, c : lookTold'[<<t, c>>] = lookTold[<<t, c>>]
      BY <1>1
    <3>2. ASSUME NEW t, NEW c
          PROVE  (IF <<t, c, TRUE>> \in lookRows' THEN 1 ELSE 0) + (IF Lookalikes!Telling(t,
                     c)' THEN 1 ELSE 0)
                    = IF <<t, c, TRUE>> \in lookRows' THEN 1 ELSE 0
      <4>1. ~Lookalikes!Telling(t, c)'
        BY <2>8
      <4> QED BY <4>1
    <3> QED BY <1>1, <3>1, <3>2 DEF Lookalikes!ToldOnceArmed
  <2>1. lookTold[<<t, c>>] = (IF <<t, c, TRUE>> \in lookRows THEN 1 ELSE 0)
                             + (IF lookJob.pc = "told" /\ Lookalikes!To = t /\ lookJob.cand =
                             c THEN 1 ELSE 0)
    BY DEF LookInv, Lookalikes!ToldOnceArmed, Lookalikes!Telling
  <2>2. CASE Lookalikes!To = t /\ lookJob.cand = c
    <3>1. <<t, c, TRUE>> \in lookRows' <=> lookJob.armed \/ Lookalikes!WasArmed
      <4>1. <<t, c, TRUE>> \in Lookalikes!Existing \/ <<t, c, TRUE>> \notin lookRows
        BY <1>7, <2>2
      <4> QED BY <1>1, <1>6, <2>2, <4>1
    <3>2. CASE lookJob.pc = "told"
      <4>1. lookJob.armed /\ <<t, c, TRUE>> \notin lookRows
        BY <1>1, <1>2, <2>2, <3>2 DEF LookInv, HeardOnce
      <4> QED BY <2>1, <2>2, <3>1, <3>2, <4>1
    <3>3. CASE lookJob.pc = "commit"
      <4>1. lookJob.armed => <<t, c, TRUE>> \in lookRows
        BY <1>1, <1>2, <2>2, <3>3 DEF LookInv, HeardOnce
      <4>2. <<t, c, TRUE>> \in lookRows' <=> <<t, c, TRUE>> \in lookRows
        BY <1>5, <2>2, <3>1, <4>1
      <4> QED BY <2>1, <3>3, <4>2
    <3> QED BY <1>1, <3>2, <3>3
  <2>3. CASE ~(Lookalikes!To = t /\ lookJob.cand = c)
    <3> DEFINE r == <<t, c, TRUE>>
    <3>0. r[1] = t /\ r[2] = c
      OBVIOUS
    <3> HIDE DEF r
    <3>1. r # new /\ r \notin Lookalikes!Existing
      BY <1>4, <1>7, <2>3, <3>0
    <3>2. <<t, c, TRUE>> # new /\ <<t, c, TRUE>> \notin Lookalikes!Existing
      BY <3>1 DEF r
    <3>3. <<t, c, TRUE>> \in lookRows' <=> <<t, c, TRUE>> \in lookRows
      BY <1>1, <3>2
    <3> QED BY <2>1, <2>3, <3>3
  <2> QED BY <2>2, <2>3
<1> QED BY <1>8, <1>9, <1>10, <1>11 DEF LookInv

(* The row is not written: the tenant is gone, or the database failed.    *)
LEMMA LookCommitFailsKeeps == LookInv /\ Lookalikes!CommitFails => LookInv'
<1> SUFFICES ASSUME LookInv, Lookalikes!CommitFails PROVE LookInv'
  OBVIOUS
<1>1. /\ lookJob.pc \in {"told", "commit"} /\ lookJob' = Lookalikes!Idle
      /\ IF Lookalikes!To \in lookGone THEN lookFaults' = lookFaults ELSE lookFaults' =
             lookFaults + 1
      /\ UNCHANGED <<claimed, lookGone, lookKnown, reloading, up, mx, queue, lookRows, lookTold,
             owed,
                     certs, lookMoves>>
  BY DEF Lookalikes!CommitFails, Lookalikes!Fault
<1>2. lookFaults \in Nat
  BY DEF LookInv, LookShape
<1>3. lookFaults' \in Nat /\ (lookFaults' = 0 => lookFaults = 0 /\ Lookalikes!To \in lookGone)
  BY <1>1, <1>2
<1>4. LookShape' /\ OneRowEach' /\ HeardOnce'
  BY <1>1, <1>3 DEF LookInv, LookShape, OneRowEach, HeardOnce
<1>5. Lookalikes!ToldOnceArmed'
  BY <1>1, <1>3 DEF LookInv, Lookalikes!ToldOnceArmed, Lookalikes!Telling, Lookalikes!Idle
<1> QED BY <1>4, <1>5 DEF LookInv

(* A new process begins.                                                  *)
LEMMA LookCrashKeeps == LookInv /\ Lookalikes!Crash => LookInv'
<1> SUFFICES ASSUME LookInv, Lookalikes!Crash PROVE LookInv'
  OBVIOUS
<1>1. /\ lookFaults' = lookFaults + 1 /\ queue' = <<>> /\ lookJob' = Lookalikes!Idle
             /\ lookKnown' = claimed
      /\ UNCHANGED <<claimed, lookGone, mx, lookRows, lookTold, owed, certs, lookMoves>>
  BY DEF Lookalikes!Crash, Lookalikes!Fault
<1>2. lookFaults' \in Nat /\ lookFaults' # 0
  BY <1>1 DEF LookInv, LookShape
<1>3. queue' \in Seq(Imitates) /\ Len(queue') = 0
  BY <1>1
<1>4. LookShape'
  BY <1>1, <1>2, <1>3, LookalikesBounds DEF LookInv, LookShape
<1>5. OneRowEach' /\ HeardOnce' /\ Lookalikes!ToldOnceArmed'
  BY <1>1, <1>2 DEF LookInv, OneRowEach, HeardOnce, Lookalikes!ToldOnceArmed
<1> QED BY <1>4, <1>5 DEF LookInv

(* What the feed, the copy and mail servers do.                           *)
LEMMA LookAsideKeeps ==
    ASSUME LookInv,
           (\E c \in Candidate : Lookalikes!TurnMail(c)) \/ Lookalikes!LoseFeed
           \/ Lookalikes!Reconnect \/ Lookalikes!Reload \/ Lookalikes!ReloadFails
    PROVE  LookInv'
<1>1. /\ UNCHANGED <<claimed, lookGone, queue, lookJob, lookRows, lookTold>>
             /\ lookFaults' \in {lookFaults, lookFaults + 1}
      /\ lookKnown' \in {lookKnown, claimed}
  BY DEF Lookalikes!TurnMail, Lookalikes!LoseFeed, Lookalikes!Reconnect, Lookalikes!Reload,
     Lookalikes!ReloadFails, Lookalikes!Fault
<1>2. mx' \subseteq Candidate
  BY DEF LookInv, LookShape, Lookalikes!TurnMail, Lookalikes!LoseFeed, Lookalikes!Reconnect,
     Lookalikes!Reload, Lookalikes!ReloadFails
<1>3. LookShape'
  BY <1>1, <1>2 DEF LookInv, LookShape
<1> QED BY <1>1, <1>3, LookAside

(* Every step keeps the invariant.                                        *)
LEMMA LookStep == LookInv /\ [Lookalikes!Next]_(Lookalikes!vars) => LookInv'
<1> SUFFICES ASSUME LookInv, [Lookalikes!Next]_(Lookalikes!vars) PROVE LookInv'
  OBVIOUS
<1>1. CASE UNCHANGED Lookalikes!vars
  <2>1. LookShape'
    BY <1>1 DEF Lookalikes!vars, LookInv, LookShape
  <2>2. UNCHANGED <<lookGone, lookJob, lookRows, lookTold, lookFaults>>
    BY <1>1 DEF Lookalikes!vars
  <2> QED BY <2>1, <2>2, LookAside
<1>2. CASE Lookalikes!Drain
  BY <1>2, LookTakeKeeps, LookPersistKeeps, LookTellKeeps, LookCommitKeeps,
     LookCommitFailsKeeps DEF Lookalikes!Drain
<1> QED BY <1>1, <1>2, LookClaimKeeps, LookLeaveKeeps, LookCertificateKeeps, LookAsideKeeps,
           LookCrashKeeps
        DEF Lookalikes!Next

(* The invariant says what was promised.                                  *)
LEMMA LookInvImplies == LookInv => Lookalikes!TypeOK /\ Lookalikes!ToldOnceArmed
<1> SUFFICES ASSUME LookInv PROVE Lookalikes!TypeOK /\ Lookalikes!ToldOnceArmed
  OBVIOUS
<1>1. ToSet(queue) \subseteq Imitates
  <2>1. queue \in Seq(Imitates)
    BY DEF LookInv, LookShape
  <2>2. \A i \in DOMAIN queue : queue[i] \in Imitates
    BY <2>1, ElementOfSeq, LenProperties
  <2> QED BY <2>2 DEF ToSet
<1>2. Lookalikes!ToSet(queue) = ToSet(queue)
  BY DEF Lookalikes!ToSet, ToSet
<1> QED BY <1>1, <1>2 DEF LookInv, LookShape, OneRowEach, Lookalikes!TypeOK

-----------------------------------------------------------------------------
(* Custody: the move of the keys                                          *)

BeforeMove == Custody!KeyProvider("old", TRUE, {})
DuringMove == Custody!KeyProvider("new", TRUE, {"old"})
AfterMove == Custody!KeyProvider("new", TRUE, {})

(* Rows are on the new key, except those saved since the tool read them.  *)
MovedTo(rows) == \A m \in SealedBox : rows[m].key = "new" => custodyCred[m].key = "new"
    \/ m \in custodyLate

(* What each step of the move may rely on.                                *)
MoveInv ==
    /\ worker \in {BeforeMove, DuringMove, AfterMove}
    /\ api.active \in Custody!Key
    /\ \A m \in SealedBox : custodyCred[m].key \in Custody!Key
           /\ custodyJob.rows[m].key \in Custody!Key
    /\ custodyCred = [m \in SealedBox |-> custodyCred[m]]
    /\ worker = BeforeMove =>
         /\ ~custodyJob.on /\ ~moved
         /\ api.active = "old" /\ \A m \in SealedBox : custodyCred[m].key = "old"
    /\ custodyJob.on => MovedTo(custodyJob.rows)
    /\ moved \/ worker = AfterMove =>
         \A m \in SealedBox : custodyCred[m].key = "new" \/ m \in custodyLate

(* What is stored has its shape, and only a process with a local key opens  *)
(* what it seals.                                                         *)
Sealed == [secret : 1 .. MaxPasswords, key : Custody!Key]
CustodyShape ==
    /\ good \in [SealedBox -> 1 .. MaxPasswords] /\ custodyCred \in [SealedBox -> Sealed]
    /\ needs \subseteq SealedBox /\ custodyLate \subseteq SealedBox
    /\ api \in Custody!Process /\ worker \in Custody!Process
    /\ worker.opens /\ (api.opens => Family[api.active] = "local")
    /\ moved \in BOOLEAN /\ custodyJob.on \in BOOLEAN
    /\ custodyJob.on => custodyJob.rows \in [SealedBox -> Sealed]

USE DEF Custody!Key, Custody!KeyProvider, Custody!HoldsOpening, BeforeMove, DuringMove, AfterMove

(* Before the move every row is on the old key.                           *)
LEMMA MoveStart == Custody!Init => MoveInv
  BY DEF Custody!Init, MoveInv, MovedTo, Custody!Idle

(* The worker opens the old key until it is dropped, and the new one once *)
(* it has it.                                                             *)
LEMMA WorkerOpens ==
  ASSUME MoveInv
  PROVE  /\ worker = BeforeMove => Custody!Opens(worker, "old")
         /\ worker = DuringMove => Custody!Opens(worker, "old") /\ Custody!Opens(worker, "new")
         /\ worker = AfterMove => Custody!Opens(worker, "new") /\ ~Custody!Opens(worker, "old")
<1> USE CustodyMove DEF Custody!Opens, Custody!Route
<1>1. CASE worker = BeforeMove
  <2>1. worker.opens /\ worker.active = "old" /\ worker.kept = {}
    BY <1>1
  <2>2. worker # DuringMove /\ worker # AfterMove
    BY <1>1
  <2> QED
    BY <2>1, <2>2
<1>2. CASE worker = DuringMove
  <2>1. worker.opens /\ worker.active = "new" /\ worker.kept = {"old"}
    BY <1>2
  <2>2. worker # BeforeMove /\ worker # AfterMove
    BY <1>2
  <2>3. Custody!Route(worker, "old") = {"old"} /\ Custody!Route(worker, "new") = {"new"}
    BY <2>1
  <2> QED
    BY <2>1, <2>2, <2>3
<1>3. CASE worker = AfterMove
  <2>1. worker.opens /\ worker.active = "new" /\ worker.kept = {}
    BY <1>3
  <2>2. worker # BeforeMove /\ worker # DuringMove
    BY <1>3
  <2>3. Custody!Route(worker, "old") = {} /\ Custody!Route(worker, "new") = {"new"}
    BY <2>1
  <2> QED
    BY <2>1, <2>2, <2>3
<1> QED
  BY <1>1, <1>2, <1>3 DEF MoveInv

(* The invariant contains what the move promises of the store.            *)
LEMMA MoveInvImplies == MoveInv => Custody!StoreIsReadable
  BY WorkerOpens DEF MoveInv, Custody!StoreIsReadable

(* A save is sealed under the API's key and remembered as late.           *)
LEMMA SaveStep ==
  ASSUME MoveInv, NEW m \in SealedBox, Custody!Save(m)
  PROVE  MoveInv'
  BY DEF MoveInv, MovedTo, Custody!Save, Custody!Seal

(* Only the first start of the worker with the new key changes anything.  *)
LEMMA DeployWorkerStep ==
  ASSUME MoveInv, Custody!DeployWorker
  PROVE  MoveInv'
<1>1. worker' = DuringMove
  BY CustodyMove DEF Custody!DeployWorker
<1>2. worker = BeforeMove
  BY DEF MoveInv, Custody!DeployWorker
<1>3. worker' # BeforeMove /\ worker' # AfterMove
  BY <1>1
<1>4. ~custodyJob.on /\ ~moved
  BY <1>2 DEF MoveInv
<1> QED
  BY <1>1, <1>3, <1>4 DEF MoveInv, Custody!DeployWorker

(* What the tool reads is what is stored; nothing is late any more, unless*)
(* the old key is already gone.                                           *)
LEMMA StartMoveStep ==
  ASSUME MoveInv, Custody!StartMove
  PROVE  MoveInv'
  BY DEF MoveInv, MovedTo, Custody!StartMove

(* The tool's commit leaves on the old key only what it found nowhere.    *)
LEMMA MoveStep ==
  ASSUME MoveInv, Custody!Move
  PROVE  MoveInv'
<1>1. worker # BeforeMove /\ worker' = worker /\ worker.active = "new"
  BY DEF MoveInv, Custody!Move
<1>2. \A m \in SealedBox : custodyCred'[m].key = IF Custody!Movable(m) THEN "new"
          ELSE custodyCred[m].key
  BY <1>1 DEF MoveInv, Custody!Move, Custody!Seal
<1>3. moved' => \A m \in SealedBox : custodyCred'[m].key = "new" \/ m \in custodyLate'
  BY <1>2 DEF MoveInv, Custody!Move, MovedTo
<1>4. worker = AfterMove => \A m \in SealedBox : custodyCred'[m].key = "new" \/ m \in custodyLate'
  BY <1>2 DEF MoveInv, Custody!Move
<1>5. /\ custodyCred' = [m \in SealedBox |-> custodyCred'[m]]
      /\ \A m \in SealedBox : custodyCred'[m].key \in Custody!Key
  BY <1>2 DEF MoveInv, Custody!Move
<1>6. ~custodyJob'.on /\ \A m \in SealedBox : custodyJob'.rows[m].key \in Custody!Key
  BY DEF Custody!Move, Custody!Idle
<1>7. worker' \in {BeforeMove, DuringMove, AfterMove} /\ worker' # BeforeMove
  BY <1>1 DEF MoveInv
<1>8. api'.active \in Custody!Key
  BY DEF MoveInv, Custody!Move
<1>9. moved' \/ worker' = AfterMove =>
        \A m \in SealedBox : custodyCred'[m].key = "new" \/ m \in custodyLate'
  BY <1>1, <1>3, <1>4 DEF Custody!Move
<1> QED
  BY <1>5, <1>6, <1>7, <1>8, <1>9 DEF MoveInv

(* Every step preserves the invariant.                                    *)
LEMMA CustodyMoveStep == MoveInv /\ [Custody!Next]_(Custody!vars) => MoveInv'
<1> SUFFICES ASSUME MoveInv, [Custody!Next]_(Custody!vars) PROVE MoveInv'
  OBVIOUS
<1>1. ASSUME NEW m \in SealedBox, Custody!ChangePassword(m) \/ Custody!Poll(m)
                 \/ Custody!Reject(m) PROVE MoveInv'
  BY <1>1 DEF Custody!ChangePassword, Custody!Poll, Custody!Reject, MoveInv, MovedTo
<1>2. CASE Custody!StopMove
  BY <1>2 DEF Custody!StopMove, MoveInv, MovedTo, Custody!Idle
<1>3. CASE Custody!DropOld
  <2>1. worker = DuringMove
    BY <1>3 DEF Custody!DropOld, MoveInv
  <2>2. worker' = AfterMove /\ worker' # BeforeMove
    BY <1>3, <2>1 DEF Custody!DropOld
  <2> QED
    BY <1>3, <2>2 DEF Custody!DropOld, MoveInv, MovedTo
<1>4. CASE Custody!DeployApi
  BY <1>4 DEF Custody!DeployApi, MoveInv, MovedTo
<1>5. CASE UNCHANGED Custody!vars
  BY <1>5 DEF Custody!vars, MoveInv, MovedTo
<1> QED
  BY <1>1, <1>2, <1>3, <1>4, <1>5, SaveStep, DeployWorkerStep, StartMoveStep, MoveStep
     DEF Custody!Next

(* A process that is started with a key.                                  *)
LEMMA ProviderShape ==
  ASSUME NEW k \in Custody!Key, NEW here \in BOOLEAN, NEW beside \in SUBSET Custody!Key
  PROVE  /\ Custody!KeyProvider(k, here, beside) \in Custody!Process
         /\ Custody!KeyProvider(k, here, beside).active = k
         /\ Custody!KeyProvider(k, here, beside).opens = (here \/ Family[k] = "local")
<1>1. (here \/ Family[k] = "local") \in BOOLEAN
  OBVIOUS
<1> QED BY <1>1 DEF Custody!Process

(* The shapes are kept.                                                   *)
LEMMA CustodyStart == Custody!Init => CustodyShape
<1> SUFFICES ASSUME Custody!Init PROVE CustodyShape
  OBVIOUS
<1>1. 1 \in 1 .. MaxPasswords
  BY CustodyMove
<1>2. [secret |-> 1, key |-> "old"] \in Sealed
  BY <1>1 DEF Sealed
<1>3. good \in [SealedBox -> 1 .. MaxPasswords] /\ custodyCred \in [SealedBox -> Sealed]
  BY <1>1, <1>2 DEF Custody!Init
<1> HIDE DEF Custody!Key, Custody!KeyProvider, Custody!HoldsOpening
<1>4. "old" \in Custody!Key /\ {} \in SUBSET Custody!Key /\ TRUE \in BOOLEAN /\ FALSE \in BOOLEAN
  BY DEF Custody!Key
<1>5. /\ api \in Custody!Process /\ worker \in Custody!Process /\ worker.opens
      /\ (api.opens => Family[api.active] = "local")
  <2>1. /\ Custody!KeyProvider("old", FALSE, {}) \in Custody!Process /\ Custody!KeyProvider("old", TRUE,
               {}) \in Custody!Process
        /\ Custody!KeyProvider("old", FALSE, {}).active = "old" /\ Custody!KeyProvider("old", TRUE,
               {}).opens
        /\ Custody!KeyProvider("old", FALSE, {}).opens = (FALSE \/ Family["old"] = "local")
    BY <1>4, ProviderShape
  <2>2. api = Custody!KeyProvider("old", FALSE, {}) /\ worker = Custody!KeyProvider("old", TRUE, {})
    BY DEF Custody!Init
  <2>3. Custody!KeyProvider("old", FALSE, {}).opens => Family["old"] = "local"
    BY <2>1
  <2> QED BY <2>1, <2>2, <2>3
<1> QED BY <1>3, <1>5 DEF Custody!Init, CustodyShape, Custody!Idle

(* Every step keeps the shape.                                            *)
LEMMA CustodyStep == CustodyShape /\ [Custody!Next]_(Custody!vars) => CustodyShape'
<1> SUFFICES ASSUME CustodyShape, [Custody!Next]_(Custody!vars) PROVE CustodyShape'
  OBVIOUS
<1>1. ASSUME NEW m \in SealedBox, Custody!ChangePassword(m) PROVE CustodyShape'
  <2>1. good' \in [SealedBox -> 1 .. MaxPasswords]
    BY <1>1, CustodyMove DEF Custody!ChangePassword, CustodyShape
  <2> QED BY <1>1, <2>1 DEF Custody!ChangePassword, CustodyShape
<1>2. ASSUME NEW m \in SealedBox, Custody!Save(m) PROVE CustodyShape'
  <2>1. Custody!Seal(api, good[m]) \in Sealed
    BY DEF Custody!Seal, Sealed, CustodyShape, Custody!Process
  <2>2. custodyCred' \in [SealedBox -> Sealed] /\ needs' \subseteq SealedBox
            /\ custodyLate' \subseteq SealedBox
    BY <1>2, <2>1 DEF Custody!Save, CustodyShape
  <2> QED BY <1>2, <2>2 DEF Custody!Save, CustodyShape
<1>3. ASSUME NEW m \in SealedBox, Custody!Poll(m) \/ Custody!Reject(m) PROVE CustodyShape'
  BY <1>3 DEF Custody!Poll, Custody!Reject, Custody!Healed, CustodyShape
<1>4. CASE Custody!DeployWorker
  <2>1. PICK beside \in SUBSET Custody!Key : worker' = Custody!KeyProvider("new", TRUE, beside)
    BY <1>4 DEF Custody!DeployWorker
  <2>2. worker' \in Custody!Process /\ worker'.opens
    BY <2>1, ProviderShape
  <2> QED BY <1>4, <2>2 DEF Custody!DeployWorker, CustodyShape
<1>5. CASE Custody!StartMove
  BY <1>5 DEF Custody!StartMove, CustodyShape
<1>6. CASE Custody!Move
  <2>1. \A m \in SealedBox : custodyJob.rows[m].secret \in 1 .. MaxPasswords
            /\ custodyCred[m] \in Sealed
    BY <1>6 DEF Custody!Move, CustodyShape, Sealed
  <2>2. \A m \in SealedBox : Custody!Seal(worker, custodyJob.rows[m].secret) \in Sealed
    BY <2>1 DEF Custody!Seal, Sealed, CustodyShape, Custody!Process
  <2>3. custodyCred' \in [SealedBox -> Sealed]
    BY <1>6, <2>1, <2>2 DEF Custody!Move
  <2>4. /\ needs' \subseteq SealedBox /\ moved' \in BOOLEAN /\ custodyJob'.on = FALSE
        /\ UNCHANGED <<good, custodyLate, api, worker>>
    BY <1>6 DEF Custody!Move, Custody!Idle, CustodyShape
  <2> QED BY <2>3, <2>4 DEF CustodyShape
<1>7. CASE Custody!StopMove
  BY <1>7 DEF Custody!StopMove, Custody!Idle, CustodyShape
<1>8. CASE Custody!DropOld
  <2>1. worker' \in Custody!Process /\ worker'.opens
    BY <1>8 DEF Custody!DropOld, CustodyShape, Custody!Process
  <2> QED BY <1>8, <2>1 DEF Custody!DropOld, CustodyShape
<1>9. CASE Custody!DeployApi
  <2>1. api' \in Custody!Process /\ (api'.opens => Family[api'.active] = "local")
    BY <1>9, ProviderShape DEF Custody!DeployApi
  <2> QED BY <1>9, <2>1 DEF Custody!DeployApi, CustodyShape
<1>10. CASE UNCHANGED Custody!vars
  BY <1>10 DEF Custody!vars, CustodyShape
<1> QED BY <1>1, <1>2, <1>3, <1>4, <1>5, <1>6, <1>7, <1>8, <1>9, <1>10 DEF Custody!Next

(* The shape is the type.                                                 *)
LEMMA CustodyIsTyped == CustodyShape => Custody!TypeOK
  BY DEF CustodyShape, Custody!TypeOK, Sealed

(* A run over a store that is on the new key writes nothing.              *)
LEMMA SecondRunStep == MoveInv => Custody!SecondRunIsIdleStep
  BY DEF MoveInv, Custody!SecondRunIsIdleStep, Custody!Move, Custody!Movable

-----------------------------------------------------------------------------
(* The parts together                                                     *)

HIDE DEF Custody!Key, Custody!KeyProvider, Custody!HoldsOpening, BeforeMove, DuringMove, AfterMove

(* A step of the system is a step or a stutter of each part.              *)
LEMMA PartsStep ==
    ASSUME [TenantsNext]_tenantsVars
    PROVE  /\ [Next]_vars /\ [Domains!Next]_(Domains!vars) /\ [Custody!Next]_(Custody!vars)
           /\ [Accounting!Next]_(Accounting!vars) /\ [Lookalikes!Next]_(Lookalikes!vars)
           /\ [Graph!Next]_(Graph!vars) /\ [Verified!Next]_(Verified!vars)
           /\ [Reminded!Next]_(Reminded!vars) /\ [Digested!Next]_(Digested!vars)
           /\ [Purged!Next]_(Purged!vars)
<1>1. \/ UNCHANGED tenantsVars
      \/ TenantsNext
  OBVIOUS
<1>2. [Next]_vars
  <2>1. TenantsNext => Next \/ UNCHANGED vars
    BY DEF TenantsNext, RetentionPart
  <2>2. UNCHANGED tenantsVars => UNCHANGED vars
    BY DEF tenantsVars
  <2> QED BY <1>1, <2>1, <2>2
<1>3. [Domains!Next]_(Domains!vars)
  <2>1. TenantsNext => Domains!Next \/ UNCHANGED domainVars
    BY DEF TenantsNext, RetentionPart
  <2>2. UNCHANGED tenantsVars => UNCHANGED domainVars
    BY DEF tenantsVars
  <2>3. UNCHANGED domainVars => UNCHANGED Domains!vars
    BY DEF domainVars, Domains!vars
  <2> QED BY <1>1, <2>1, <2>2, <2>3
<1>4. [Custody!Next]_(Custody!vars)
  <2>1. TenantsNext => Custody!Next \/ UNCHANGED custodyVars
    BY DEF TenantsNext, RetentionPart
  <2>2. UNCHANGED tenantsVars => UNCHANGED custodyVars
    BY DEF tenantsVars
  <2>3. UNCHANGED custodyVars => UNCHANGED Custody!vars
    BY DEF custodyVars, Custody!vars
  <2> QED BY <1>1, <2>1, <2>2, <2>3
<1>5. [Accounting!Next]_(Accounting!vars)
  <2>1. TenantsNext => Accounting!Next \/ UNCHANGED accVars
    BY DEF TenantsNext, RetentionPart
  <2>2. UNCHANGED tenantsVars => UNCHANGED accVars
    BY DEF tenantsVars
  <2>3. UNCHANGED accVars => UNCHANGED Accounting!vars
    BY DEF accVars, Accounting!vars
  <2> QED BY <1>1, <2>1, <2>2, <2>3
<1>6. [Lookalikes!Next]_(Lookalikes!vars)
  <2>1. TenantsNext => Lookalikes!Next \/ UNCHANGED lookVars
    BY DEF TenantsNext, RetentionPart
  <2>2. UNCHANGED tenantsVars => UNCHANGED lookVars
    BY DEF tenantsVars
  <2>3. UNCHANGED lookVars => UNCHANGED Lookalikes!vars
    BY DEF lookVars, Lookalikes!vars
  <2> QED BY <1>1, <2>1, <2>2, <2>3
<1>7. [Graph!Next]_(Graph!vars)
  <2>1. TenantsNext => Graph!Next \/ UNCHANGED graphVars
    BY DEF TenantsNext, RetentionPart
  <2>2. UNCHANGED tenantsVars => UNCHANGED graphVars
    BY DEF tenantsVars
  <2>3. UNCHANGED graphVars => UNCHANGED Graph!vars
    BY DEF graphVars, Graph!vars
  <2> QED BY <1>1, <2>1, <2>2, <2>3
<1>8. [Verified!Next]_(Verified!vars)
  <2>1. TenantsNext => Verified!Next \/ UNCHANGED verVars
    BY DEF TenantsNext, RetentionPart
  <2>2. UNCHANGED tenantsVars => UNCHANGED verVars
    BY DEF tenantsVars
  <2>3. UNCHANGED verVars => UNCHANGED Verified!vars
    BY DEF verVars, Verified!vars
  <2> QED BY <1>1, <2>1, <2>2, <2>3
<1>9. [Reminded!Next]_(Reminded!vars)
  <2>1. TenantsNext => Reminded!Next \/ UNCHANGED remVars
    BY DEF TenantsNext, RetentionPart
  <2>2. UNCHANGED tenantsVars => UNCHANGED remVars
    BY DEF tenantsVars
  <2>3. UNCHANGED remVars => UNCHANGED Reminded!vars
    BY DEF remVars, Reminded!vars
  <2> QED BY <1>1, <2>1, <2>2, <2>3
<1>10. [Digested!Next]_(Digested!vars)
  <2>1. TenantsNext => Digested!Next \/ UNCHANGED digVars
    BY DEF TenantsNext, RetentionPart
  <2>2. UNCHANGED tenantsVars => UNCHANGED digVars
    BY DEF tenantsVars
  <2>3. UNCHANGED digVars => UNCHANGED Digested!vars
    BY DEF digVars, Digested!vars
  <2> QED BY <1>1, <2>1, <2>2, <2>3
<1>11. [Purged!Next]_(Purged!vars)
  <2>1. TenantsNext => Purged!Next \/ UNCHANGED retVars
    BY DEF TenantsNext, RetentionPart
  <2>2. UNCHANGED tenantsVars => UNCHANGED retVars
    BY DEF tenantsVars
  <2>3. UNCHANGED retVars => UNCHANGED Purged!vars
    BY DEF retVars, Purged!vars
  <2> QED BY <1>1, <2>1, <2>2, <2>3
<1> QED BY <1>2, <1>3, <1>4, <1>5, <1>6, <1>7, <1>8, <1>9, <1>10, <1>11

(* A copy its sender was told is accepted has been analysed for every     *)
(* tenant it was submitted to that is still there, has access and has a   *)
(* mailbox (smtp_ingest.py:handle_DATA, forward_runner.py): however the   *)
(* recipients, lapses, departures, failures, submissions made again and   *)
(* the polls of the same mail interleave, and for a Message-ID used again *)
(* with other content.                                                    *)
THEOREM AcceptedWasAnalysedHolds == TenantsSpec => []AcceptedWasAnalysed
<1>1. TenantsInit => ForwardedInv
  BY ForwardedStart DEF TenantsInit
<1>2. ForwardedInv /\ [TenantsNext]_tenantsVars => ForwardedInv'
  BY ForwardedStep, PartsStep
<1>3. ForwardedInv => AcceptedWasAnalysed
  <2>1. ForwardedInv => ReachedEveryTenant
    BY DEF ForwardedInv, AllReached, Reached, ReachedEveryTenant
  <2>2. ForwardedInv => TypeOK
    <3>1. SUFFICES ASSUME ForwardedInv, NEW r \in stored PROVE analysed[r[1], r[2]] > 0
      BY DEF ForwardedInv, ForwardedShape, Handling, TypeOK
    <3>2. r \in Box \X Mail
      BY <3>1 DEF ForwardedInv, ForwardedShape
    <3>3. r[1] \in Box /\ r[2] \in Mail /\ r = <<r[1], r[2]>>
      BY <3>2
    <3>4. QED BY <3>1, <3>3 DEF ForwardedInv, ForwardedShape
  <2>3. QED BY <2>1, <2>2 DEF AcceptedWasAnalysed
<1>4. QED BY <1>1, <1>2, <1>3, PTL DEF TenantsSpec

(* For any tenants, domains and changes of DNS: however registrations,    *)
(* opened links, sweeps and lookups interleave, a domain gives one trial, *)
(* and who signs up from a proven domain joins the company that holds it  *)
(* (api/auth.py:register, verify_email; services/domains.py).             *)
THEOREM DomainsAreHeldHolds == TenantsSpec => []DomainsAreHeld
<1>1. TenantsInit => DomainInv
  BY DomainStart DEF TenantsInit
<1>2. DomainInv /\ [TenantsNext]_tenantsVars => DomainInv'
  BY DomainStep, PartsStep
<1>3. DomainInv => DomainsAreHeld
  BY DomainInvImplies DEF DomainsAreHeld
<1>4. QED BY <1>1, <1>2, <1>3, PTL DEF TenantsSpec

(* For any mailboxes, passwords, runs of the key tool, providers, loops   *)
(* and refresh tokens: sealed credentials open in the worker while an     *)
(* operator moves from a local key to one held elsewhere, and a connection*)
(* to an accounting system does not die of its own refreshes              *)
(* (security/crypto.py, security/rotate_credentials.py,                   *)
(* workers/accounting_sync.py).                                           *)
THEOREM SecretsStayUsableHolds == TenantsSpec => []SecretsStayUsable
<1> DEFINE Inv == MoveInv /\ CustodyShape /\ AccInv
<1>1. TenantsInit => Inv
  BY MoveStart, CustodyStart, AccountingStart DEF TenantsInit
<1>2. Inv /\ [TenantsNext]_tenantsVars => Inv'
  BY CustodyMoveStep, CustodyStep, AccountingStep, PartsStep
<1>3. Inv => SecretsStayUsable
  BY MoveInvImplies, CustodyIsTyped, AccountingInvImplies DEF SecretsStayUsable
<1>4. QED BY <1>1, <1>2, <1>3, PTL DEF TenantsSpec

(* For any bills, lookalikes, marks and periods: a note is attached once  *)
(* where the provider's client looks for its own, a customer hears once of*)
(* a lookalike that gained a mail server, no warning repeats and every    *)
(* mark that remained was told before access ended, and what belongs to a *)
(* month is told in that month's digest and no other; each but for the    *)
(* failures its statement names (workers/accounting_sync.py,              *)
(* workers/ct_persist.py, workers/scheduler.py, notify/digest.py).        *)
THEOREM ToldOnceHolds == TenantsSpec => []ToldOnce
<1> DEFINE Inv == AccInv /\ LookInv /\ RemInv /\ DigestInv
<1>1. TenantsInit => Inv
  BY AccountingStart, LookStart, RemindersStart, DigestStart DEF TenantsInit
<1>2. Inv /\ [TenantsNext]_tenantsVars => Inv'
  BY AccountingStep, LookStep, RemindersStep, DigestStep, PartsStep
<1>3. Inv => ToldOnce
  BY AccountingInvImplies, LookInvImplies, RemindersInvImplies, DigestInvImplies DEF ToldOnce
<1>4. QED BY <1>1, <1>2, <1>3, PTL DEF TenantsSpec

(* For any reporters, processes, texts and days: an entry of the shared   *)
(* graph acts on others only with two customers behind it and its count is*)
(* that of its reporters; a payment is answered once and a denial is heard*)
(* of; an alert the schedule still keeps has its evidence                   *)
(* (platform/graph_store.py, platform/verification.py,                    *)
(* governance/retention.py).                                              *)
THEOREM ConfirmationsCountHolds == TenantsSpec => []ConfirmationsCount
<1> DEFINE Inv == GraphInv /\ VerificationInv /\ RetentionInv
<1>1. TenantsInit => Inv
  BY GraphStart, VerificationStart, RetentionStart DEF TenantsInit
<1>2. Inv /\ [TenantsNext]_tenantsVars => Inv'
  BY GraphStep, VerificationStep, RetentionStep, PartsStep
<1>3. Inv => ConfirmationsCount
  BY GraphInvImplies, VerificationInvImplies, RetentionInvImplies DEF ConfirmationsCount
<1>4. QED BY <1>1, <1>2, <1>3, PTL DEF TenantsSpec

(* In any step: a domain is lost only when its record is gone, a second   *)
(* run of the key tool changes nothing, a month has one digest, a link    *)
(* works until its time is over, an answer leaves a dismissed alert alone,*)
(* and a late one is refused.                                             *)
THEOREM ActsInTimeHolds == TenantsSpec => ActsInTime
<1> DEFINE Inv == DomainInv /\ MoveInv /\ DigestInv /\ RetentionInv /\ VerificationInv
<1>1. TenantsInit => Inv
  BY DomainStart, MoveStart, DigestStart, RetentionStart, VerificationStart DEF TenantsInit
<1>2. Inv /\ [TenantsNext]_tenantsVars => Inv'
  BY DomainStep, CustodyMoveStep, DigestStep, RetentionStep, VerificationStep, PartsStep
<1>3. Inv /\ [TenantsNext]_tenantsVars =>
        [/\ Domains!RevokedOnlyWhenGoneStep /\ Custody!SecondRunIsIdleStep
         /\ Digested!OneBuildAMonthStep /\ Purged!LinksWorkStep
         /\ Verified!DismissalStandsStep /\ Verified!LateIsRefusedStep]_tenantsVars
  BY RevokedStep, SecondRunStep, DigestStep, RetentionStep, DismissalStep, LateRefused, PartsStep
<1>4. QED BY <1>1, <1>2, <1>3, PTL DEF TenantsSpec, ActsInTime
=============================================================================

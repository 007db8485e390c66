--------------------------- MODULE ImapSyncProofs ---------------------------
(***************************************************************************)
(* Proofs about the mailbox, for any messages, any number of syncs and     *)
(* scans, locked or not, and any number of faults:                         *)
(*   - while the folder keeps its numbering no mail is lost (MailInv), and *)
(*     while its limits are not reached nothing is passed over: the types  *)
(*     (Types), the requested quarantines (RequestInv) and the stored      *)
(*     cursor (CursorInv), each resting on the ones before it; nor does a  *)
(*     history scan have old mail touched that nobody asked for            *)
(*     (HistoryInv);                                                       *)
(*   - across renumberings too, no message is analysed twice while every   *)
(*     job takes the mailbox's lock (AlertInv).                            *)
(***************************************************************************)
EXTENDS ImapSync, FiniteSetTheorems, WellFoundedInduction, TLAPS

(* What a job has fetched: its UID has been handed out and names this      *)
(* message and no other, whether or not it is still in the folder.         *)
Known(i) == i.uid < nextUid /\ \A k \in inbox : k.uid = i.uid => k = i

(* Where a job works on its current message.                               *)
Working == {"read", "act", "swap", "drop", "mark", "store"}

(* The mail is accounted for by something other than an original.          *)
KeptApart(m) == m \in discarded \cup away \/ \E k \in inbox : k.copy /\ k.mail = m

Shape ==
    /\ inbox \subseteq Item /\ nextUid \in Nat \ {0} /\ epoch = 1
    /\ pc \in [Job -> Place]
    /\ todo \in [Job -> SUBSET Item] /\ cur \in [Job -> Item \cup {NoItem}]

InboxKnown == \A i \in inbox : Known(i)

TodoKnown == \A j \in Job : \A i \in todo[j] : Known(i)

CurrentKnown ==
    \A j \in Job :
        pc[j] \in Working => cur[j] \in Item /\ ~cur[j].copy /\ Known(cur[j])

(* Before an original is deleted its mail is kept in another form.         *)
DropIsSafe == \A j \in Job : pc[j] = "drop" => KeptApart(cur[j].mail)

MailInv ==
    /\ Shape /\ InboxKnown /\ TodoKnown /\ CurrentKnown /\ DropIsSafe
    /\ MailKept

LEMMA InitMailInv == Init => MailInv
BY ImapSyncAssumption DEF Init, MailInv, Shape, InboxKnown, TodoKnown, CurrentKnown,
   DropIsSafe, MailKept, Item, Place, Uid, Working

(* Actions that leave the mail server and the owner's deletions alone.     *)
LEMMA QuietStep ==
    ASSUME MailInv, NEW j \in Job,
           UNCHANGED <<inbox, nextUid, epoch, away, delivered, discarded>>,
           pc' \in [Job -> Place], todo' \in [Job -> SUBSET Item],
           cur' \in [Job -> Item \cup {NoItem}],
           \A k \in Job \ {j} : pc'[k] = pc[k] /\ todo'[k] = todo[k] /\ cur'[k] = cur[k],
           \A i \in todo'[j] : i \in inbox \cup todo[j],
           pc'[j] \in Working =>
               \/ pc[j] \in Working /\ cur'[j] = cur[j]
               \/ cur'[j] \in todo[j] /\ ~cur'[j].copy,
           pc'[j] # "drop"
    PROVE  MailInv'
<1> USE DEF MailInv
<1>1. \A i : Known(i) => Known(i)'
  BY DEF Known
<1>2. Shape'
  BY DEF Shape
<1>3. InboxKnown'
  BY <1>1 DEF InboxKnown
<1>4. TodoKnown'
  <2> SUFFICES ASSUME NEW k \in Job, NEW i \in todo'[k] PROVE Known(i)
    BY <1>1 DEF TodoKnown
  <2>1. CASE k = j
    BY <2>1 DEF InboxKnown, TodoKnown
  <2>2. CASE k # j
    BY <2>2 DEF TodoKnown
  <2> QED BY <2>1, <2>2
<1>5. CurrentKnown'
  <2> SUFFICES ASSUME NEW k \in Job, pc'[k] \in Working
               PROVE  cur'[k] \in Item /\ ~cur'[k].copy /\ Known(cur'[k])
    BY <1>1 DEF CurrentKnown, Known
  <2>1. CASE k = j
    BY <2>1 DEF CurrentKnown, TodoKnown, Shape
  <2>2. CASE k # j
    BY <2>2 DEF CurrentKnown
  <2> QED BY <2>1, <2>2
<1>6. DropIsSafe'
  BY DEF DropIsSafe, KeptApart
<1>7. MailKept'
  BY DEF MailKept
<1> QED BY <1>2, <1>3, <1>4, <1>5, <1>6, <1>7

(* Actions that change the server.  Nothing that is known stops being so,  *)
(* and nothing that is kept apart is deleted.                              *)
LEMMA ServerStep ==
    ASSUME MailInv, NEW j,
           epoch' = epoch, nextUid' \in Nat, nextUid <= nextUid',
           inbox' \subseteq Item, discarded \subseteq discarded',
           \A i \in inbox' \ inbox : i.uid = nextUid /\ nextUid' = nextUid + 1,
           \A i, k \in inbox' \ inbox : i = k,
           away \subseteq away',
           \A i \in inbox : i \in inbox' \/ i.mail \in away' \cup discarded'
                            \/ (~i.copy /\ KeptApart(i.mail)),
           \A m \in delivered' \ delivered : \E i \in inbox' : i.mail = m,
           pc' \in [Job -> Place], todo' = todo, cur' = cur,
           \A k \in Job \ {j} : pc'[k] = pc[k],
           pc'[j] \in Working => pc[j] \in Working,
           pc'[j] = "drop" => pc[j] = "drop" \/ KeptApart(cur[j].mail)'
    PROVE  MailInv'
<1> USE DEF MailInv
<1>1. ASSUME NEW i \in Item, Known(i) PROVE Known(i)'
  BY <1>1 DEF Known, Shape, Item, Uid
<1>2. Shape'
  BY DEF Shape
<1>3. InboxKnown'
  <2> SUFFICES ASSUME NEW i \in inbox' PROVE Known(i)'
    BY DEF InboxKnown
  <2>1. CASE i \in inbox
    BY <2>1, <1>1 DEF InboxKnown, Shape
  <2>2. CASE i \notin inbox
    <3>1. i.uid = nextUid /\ nextUid' = nextUid + 1
      BY <2>2
    <3>2. \A k \in inbox : k.uid # nextUid
      BY DEF InboxKnown, Known, Shape, Item, Uid
    <3> QED BY <2>2, <3>1, <3>2 DEF Known, Shape
  <2> QED BY <2>1, <2>2
<1>4. TodoKnown'
  BY <1>1 DEF TodoKnown, Shape
<1>5. CurrentKnown'
  <2> SUFFICES ASSUME NEW k \in Job, pc'[k] \in Working
               PROVE  cur[k] \in Item /\ ~cur[k].copy /\ Known(cur[k])'
    BY DEF CurrentKnown, Known
  <2>1. pc[k] \in Working
    BY DEF Working
  <2> QED BY <2>1, <1>1 DEF CurrentKnown
<1>6. ASSUME NEW m, KeptApart(m) PROVE KeptApart(m)'
  <2>1. CASE m \in discarded \cup away
    BY <2>1 DEF KeptApart
  <2>2. CASE \E k \in inbox : k.copy /\ k.mail = m
    BY <2>2 DEF KeptApart
  <2> QED BY <1>6, <2>1, <2>2 DEF KeptApart
<1>7. DropIsSafe'
  <2> SUFFICES ASSUME NEW k \in Job, pc'[k] = "drop" PROVE KeptApart(cur[k].mail)'
    BY DEF DropIsSafe, KeptApart
  <2>1. CASE pc[k] = "drop"
    BY <2>1, <1>6 DEF DropIsSafe
  <2>2. CASE pc[k] # "drop"
    <3>1. k = j
      BY <2>2
    <3> QED BY <2>2, <3>1 DEF KeptApart
  <2> QED BY <2>1, <2>2
<1>8. MailKept'
  <2> SUFFICES ASSUME NEW m \in delivered' \ discarded'
               PROVE  m \in away' \/ \E i \in inbox' : i.mail = m
    BY DEF MailKept
  <2>1. CASE m \notin delivered
    BY <2>1
  <2>2. CASE m \in delivered /\ m \in away
    BY <2>2
  <2>3. CASE m \in delivered /\ m \notin away
    <3>1. PICK i \in inbox : i.mail = m
      BY <2>3 DEF MailKept
    <3>2. i \in inbox' \/ m \in away' \/ (~i.copy /\ KeptApart(m))
      BY <3>1
    <3>3. KeptApart(m) => KeptApart(m)'
      BY <1>6
    <3> QED BY <3>1, <3>2, <3>3 DEF KeptApart
  <2> QED BY <2>1, <2>2, <2>3
<1> QED BY <1>2, <1>3, <1>4, <1>5, <1>7, <1>8

-----------------------------------------------------------------------------
(* The commands a job sends to the mail server.                            *)
LEMMA OnlyOriginal ==
    ASSUME MailInv, NEW j \in Job, pc[j] \in Working
    PROVE  At(cur[j].uid) \subseteq {cur[j]}
BY DEF MailInv, CurrentKnown, Known, At

LEMMA QuarantineStep ==
    ASSUME MailInv, NEW j \in Job, Quarantine(j)
    PROVE  MailInv'
<1> USE DEF MailInv, Shape
<1>1. /\ epoch' = epoch /\ nextUid' = nextUid /\ inbox' \subseteq inbox
      /\ discarded' = discarded /\ delivered' = delivered /\ away \subseteq away'
      /\ \A i \in inbox : i \in inbox' \/ i.mail \in away'
      /\ todo' = todo /\ cur' = cur
  BY DEF Quarantine, MoveAway, CopyAway, At, server, locals, history
<1>2. /\ pc' \in [Job -> Place] /\ \A k \in Job \ {j} : pc'[k] = pc[k]
      /\ pc[j] \in Working /\ pc'[j] # "drop"
  BY DEF Quarantine, GoTo, Place, Working
<1> QED
  BY <1>1, <1>2, ServerStep

LEMMA AppendStep ==
    ASSUME MailInv, NEW j \in Job, Append(j)
    PROVE  MailInv'
<1> USE DEF MailInv, Shape
<1>1. /\ epoch' = epoch /\ away' = away /\ discarded' = discarded
      /\ delivered' = delivered /\ todo' = todo /\ cur' = cur
      /\ pc' \in [Job -> Place] /\ \A k \in Job \ {j} : pc'[k] = pc[k]
      /\ pc[j] \in Working
  BY DEF Append, Replaced, GoTo, Place, Working, server, locals, history
<1>2. cur[j] \in Item
  BY <1>1 DEF CurrentKnown
<1> DEFINE copy == [uid |-> nextUid, mail |-> cur[j].mail, copy |-> TRUE]
<1>3. CASE pc'[j] = "drop"
  <2>1. inbox' = inbox \cup {copy} /\ nextUid' = nextUid + 1 /\ nextUid <= MaxUid
    BY <1>3 DEF Append, Replaced, GoTo
  <2>2. nextUid \in Uid
    BY <2>1, ImapSyncAssumption DEF Uid
  <2>3. copy \in Item
    BY <1>2, <2>2 DEF Item
  <2>4. nextUid' \in Nat /\ nextUid <= nextUid'
    BY <2>1
  <2>5. inbox' \subseteq Item
    <3> HIDE DEF copy
    <3> QED BY <2>1, <2>3
  <2>6. \A i \in inbox' \ inbox : i = copy /\ i.uid = nextUid
    BY <2>1
  <2>7. KeptApart(cur[j].mail)'
    <3>1. copy \in inbox' /\ copy.copy /\ copy.mail = cur'[j].mail
      BY <2>1, <1>1
    <3> QED BY <3>1 DEF KeptApart
  <2>8. inbox \subseteq inbox'
    BY <2>1
  <2> HIDE DEF copy
  <2> QED
    BY <1>1, <2>1, <2>4, <2>5, <2>6, <2>7, <2>8, ServerStep
<1>4. CASE pc'[j] # "drop"
  <2>1. inbox' = inbox /\ nextUid' = nextUid
    BY <1>4 DEF Append, GoTo, server
  <2> QED
    BY <1>1, <1>4, <2>1, ServerStep
<1> QED BY <1>3, <1>4

LEMMA DropStep ==
    ASSUME MailInv, NEW j \in Job, Drop(j)
    PROVE  MailInv'
<1> USE DEF MailInv, Shape
<1>1. /\ epoch' = epoch /\ nextUid' = nextUid /\ inbox' \subseteq inbox /\ away' = away
      /\ discarded' = discarded /\ delivered' = delivered /\ todo' = todo /\ cur' = cur
      /\ \A i \in inbox : i \in inbox' \/ i \in At(cur[j].uid)
  BY DEF Drop, locals, history
<1>2. /\ pc' \in [Job -> Place] /\ \A k \in Job \ {j} : pc'[k] = pc[k]
      /\ pc[j] = "drop" /\ pc'[j] # "drop"
  BY DEF Drop, Replaced, GoTo, Place
<1>3. At(cur[j].uid) \subseteq {cur[j]} /\ ~cur[j].copy /\ KeptApart(cur[j].mail)
  BY <1>2, OnlyOriginal DEF Working, CurrentKnown, DropIsSafe
<1> QED
  BY <1>1, <1>2, <1>3, ServerStep DEF Working

LEMMA RunRequestedStep ==
    ASSUME MailInv, NEW j \in Job, NEW r \in pend[j], RunRequested(j, r)
    PROVE  MailInv'
<1> USE DEF MailInv, Shape
<1>1. /\ epoch' = epoch /\ nextUid' = nextUid /\ inbox' \subseteq inbox
      /\ discarded' = discarded /\ delivered' = delivered /\ away \subseteq away'
      /\ \A i \in inbox : i \in inbox' \/ i.mail \in away'
      /\ todo' = todo /\ cur' = cur /\ pc' = pc
  BY DEF RunRequested, MoveAway, At, server, history
<1> QED
  BY <1>1, ServerStep

(* Mail that arrives, and mail its owner deletes.                          *)
LEMMA OwnerStep ==
    ASSUME MailInv,
           (\E m \in Mail : Deliver(m)) \/ (\E i \in inbox : Discard(i))
    PROVE  MailInv'
<1> USE DEF MailInv, Shape
<1>1. ASSUME NEW m \in Mail, Deliver(m) PROVE MailInv'
  <2> DEFINE new == [uid |-> nextUid, mail |-> m, copy |-> FALSE]
  <2>1. /\ inbox' = inbox \cup {new} /\ nextUid' = nextUid + 1 /\ nextUid <= MaxUid
        /\ delivered' = delivered \cup {m}
        /\ epoch' = epoch /\ away' = away /\ discarded' = discarded
        /\ pc' = pc /\ todo' = todo /\ cur' = cur
    BY <1>1 DEF Deliver, locals
  <2>2. new \in Item
    BY <2>1, ImapSyncAssumption DEF Item, Uid
  <2>3. new.uid = nextUid /\ new.mail = m
    OBVIOUS
  <2>4. nextUid' \in Nat /\ nextUid <= nextUid'
    BY <2>1
  <2> HIDE DEF new
  <2>5. inbox' \subseteq Item
    BY <2>1, <2>2
  <2>6. /\ \A i \in inbox' \ inbox : i = new /\ i.uid = nextUid
        /\ new \in inbox' /\ inbox \subseteq inbox'
    BY <2>1, <2>3
  <2> QED
    BY <2>1, <2>3, <2>4, <2>5, <2>6, ServerStep
<1>2. ASSUME NEW i \in inbox, Discard(i) PROVE MailInv'
  <2>1. /\ inbox' = inbox \ {i} /\ discarded' = discarded \cup {i.mail}
        /\ nextUid' = nextUid /\ delivered' = delivered
        /\ epoch' = epoch /\ away' = away /\ pc' = pc /\ todo' = todo /\ cur' = cur
    BY <1>2 DEF Discard, locals
  <2> QED
    BY <2>1, ServerStep
<1> QED BY <1>1, <1>2

(* A job begins, ends, or fetches.                                         *)
LEMMA FrameStep ==
    ASSUME MailInv, NEW j \in Job,
           \/ Start(j) \/ Fetch(j) \/ FetchHistory(j) \/ EndLoop(j) \/ EndScan(j)
           \/ Finish(j) \/ Abort(j)
    PROVE  MailInv'
<1> USE DEF MailInv, Shape
<1>1. CASE Start(j)
  BY <1>1, QuietStep DEF Start, GoTo, Place, Working, server, history
<1>2. CASE Fetch(j)
  <2>1. Wanted(j) \subseteq inbox
    BY DEF Wanted, Newest
  <2> QED
    BY <1>2, <2>1, QuietStep DEF Fetch, GoTo, Place, Working, server, history
<1>3. CASE FetchHistory(j)
  BY <1>3, QuietStep DEF FetchHistory, GoTo, Place, Working, server, history
<1>4. CASE EndLoop(j)
  BY <1>4, QuietStep DEF EndLoop, GoTo, Place, Working, server, history
<1>5. CASE EndScan(j)
  BY <1>5, QuietStep DEF EndScan, Clear, GoTo, Place, Working, server, history
<1>6. CASE Finish(j)
  BY <1>6, QuietStep DEF Finish, Clear, GoTo, Place, Working, server, history
<1>7. CASE Abort(j)
  BY <1>7, QuietStep DEF Abort, Clear, GoTo, Place, Working, server, history
<1> QED
  BY <1>1, <1>2, <1>3, <1>4, <1>5, <1>6, <1>7

(* A job handles one message without a command to the mail server.         *)
LEMMA MessageStep ==
    ASSUME MailInv, NEW j \in Job,
           \/ \E i \in todo[j] : Skip(j, i) \/ Analyse(j, i)
           \/ Commit(j) \/ Rewrite(j) \/ Store(j) \/ Mark(j) \/ Fail(j)
    PROVE  MailInv'
<1> USE DEF MailInv, Shape
<1>1. ASSUME NEW i \in todo[j], Skip(j, i) PROVE MailInv'
  BY <1>1, QuietStep DEF Skip, Place, Working, server, history
<1>2. ASSUME NEW i \in todo[j], Analyse(j, i) PROVE MailInv'
  BY <1>2, QuietStep DEF Analyse, GoTo, Place, Working, server, history
<1>3. CASE Commit(j)
  BY <1>3, QuietStep DEF Commit, Treatment, GoTo, Place, Working, server, history, locals
<1>4. CASE Rewrite(j)
  BY <1>4, QuietStep DEF Rewrite, GoTo, Place, Working, server, history, locals
<1>5. CASE Store(j)
  BY <1>5, QuietStep DEF Store, GoTo, Place, Working, server, history, locals
<1>6. CASE Mark(j)
  BY <1>6, QuietStep DEF Mark, GoTo, Place, Working, server, history, locals
<1>7. CASE Fail(j)
  BY <1>7, QuietStep DEF Fail, GoTo, Place, Working, server
<1> QED
  BY <1>1, <1>2, <1>3, <1>4, <1>5, <1>6, <1>7

(* Steps of nobody's job: a crash, a button, a step that changes nothing.  *)
LEMMA OtherStep ==
    ASSUME MailInv, Crash \/ (\E r \in rows : Press(r)) \/ UNCHANGED vars
    PROVE  MailInv'
<1> USE DEF MailInv, Shape
<1>1. /\ UNCHANGED <<inbox, nextUid, epoch, away, delivered, discarded>>
      /\ pc' \in [Job -> Place] /\ todo' \in [Job -> SUBSET Item]
      /\ cur' \in [Job -> Item \cup {NoItem}]
      /\ \A j \in Job : \/ pc'[j] = "idle" /\ todo'[j] = {}
                        \/ pc'[j] = pc[j] /\ todo'[j] = todo[j] /\ cur'[j] = cur[j]
  BY DEF Crash, Press, vars, server, locals, history, Place
<1>2. \A i : Known(i) => Known(i)'
  BY <1>1 DEF Known
<1> QED
  BY <1>1, <1>2 DEF InboxKnown, TodoKnown, CurrentKnown, DropIsSafe, KeptApart,
                    MailKept, Working

LEMMA StepMailInv ==
    ASSUME ~Renumber, MailInv, [Next]_vars
    PROVE  MailInv'
<1>1. ~Renumber
  OBVIOUS
<1>2. ASSUME NEW j \in Job, Step(j) PROVE MailInv'
  BY <1>2, FrameStep, MessageStep, QuarantineStep, AppendStep, DropStep,
     RunRequestedStep DEF Step
<1> QED
  BY <1>1, <1>2, OwnerStep, OtherStep DEF Next

(* Only the mail server renumbers the folder.                              *)
LEMMA StepNumbers ==
    ASSUME [Next]_vars, ~Renumber PROVE epoch' = epoch
<1>1. ASSUME NEW j \in Job, Step(j) PROVE epoch' = epoch
  BY <1>1 DEF Step, Start, Fetch, FetchHistory, Skip, Analyse, Commit, Rewrite, Store, Quarantine,
         Mark, Append, Drop, Fail, EndLoop, EndScan, Finish, Abort, RunRequested, MoveAway, CopyAway,
         server
<1> QED BY <1>1 DEF Next, Deliver, Discard, Press, Crash, server, vars

(* The numbering only moves on: a folder that has its first UIDVALIDITY was*)
(* never renumbered.                                                       *)
Numbered == epoch \in Nat \ {0}

LEMMA NumberingMovesOn ==
    ASSUME Numbered, [Next]_vars
    PROVE  Numbered' /\ (~Renumbered' => ~Renumbered /\ ~Renumber)
<1>1. CASE Renumber
  <2>1. epoch' = epoch + 1
    BY <1>1 DEF Renumber
  <2> QED BY <2>1 DEF Numbered, Renumbered
<1>2. CASE ~Renumber
  BY <1>2, StepNumbers DEF Numbered, Renumbered
<1> QED BY <1>1, <1>2

(* While the folder keeps its UIDVALIDITY no message its owner keeps is    *)
(* ever lost, however many syncs and scans run over the mailbox, locked or *)
(* not, and whatever fails: the copy is appended before the original goes. *)
THEOREM NoMailIsLost == Spec => []MailNeverLost
<1> DEFINE Inv == Numbered /\ (~Renumbered => MailInv)
<1>1. Init => Inv
  BY InitMailInv DEF Init, Numbered
<1>2. Inv /\ [Next]_vars => Inv'
  <2> SUFFICES ASSUME Inv, [Next]_vars PROVE Inv'
    OBVIOUS
  <2>1. Numbered' /\ (~Renumbered' => ~Renumbered /\ ~Renumber)
    BY NumberingMovesOn
  <2>2. ASSUME ~Renumbered' PROVE MailInv'
    BY <2>1, <2>2, StepMailInv
  <2> QED BY <2>1, <2>2
<1>3. Inv => MailNeverLost
  BY DEF MailInv, MailNeverLost
<1> QED BY <1>1, <1>2, <1>3, PTL DEF Spec

-----------------------------------------------------------------------------
(* One sync at a time: the job that has read "no row is stored" is still   *)
(* the only one at work when it stores the row.                            *)
Unstored(j) ==
    \/ pc[j] \in {"read", "store"}
    \/ pc[j] \in {"swap", "drop"} /\ cur[j].mail \in Linked

AnyItem == [uid : Nat, mail : Mail, copy : BOOLEAN]
AnyRow == [mail : Mail, by : Job, ref : Nat, asked : BOOLEAN, done : BOOLEAN]

(* The folder may be renumbered here, so its items are bounded by no UID.  *)
BoxShape == inbox \subseteq AnyItem /\ IsFiniteSet(inbox) /\ nextUid \in Nat

OneAtWork == \A j, k \in Job : pc[j] # "idle" /\ pc[k] # "idle" => j = k

ReadIsFresh ==
    \A j \in Job : Unstored(j) => ~Stored(cur[j].mail)

WorksOnItem == \A j \in Job : pc[j] \in Working => cur[j] \in AnyItem

ActIsAlerted == \A j \in Job : pc[j] = "act" => cur[j].mail \notin Linked

AlertInv ==
    /\ pc \in [Job -> Place] /\ cur \in [Job -> AnyItem \cup {NoItem}]
    /\ todo \in [Job -> SUBSET AnyItem] /\ rows \subseteq AnyRow
    /\ BoxShape /\ WorksOnItem /\ OneAtWork /\ ReadIsFresh /\ ActIsAlerted
    /\ OneAlertPerMail

(* Actions that add no row: rows keep what message they are about.         *)
LEMMA NoNewRow ==
    ASSUME AlertInv, NEW j \in Job, pc' \in [Job -> Place],
           cur' \in [Job -> AnyItem \cup {NoItem}],
           \A k \in Job \ {j} : pc'[k] = pc[k] /\ cur'[k] = cur[k],
           pc[j] # "idle" \/ (\A k \in Job : pc[k] = "idle") \/ pc'[j] = "idle",
           todo' \in [Job -> SUBSET AnyItem], rows' \subseteq AnyRow,
           \A m : Stored(m)' => Stored(m),
           OneAlertPerMail',
           BoxShape',
           Unstored(j)' => ~Stored(cur'[j].mail),
           pc'[j] \in Working => cur'[j] \in AnyItem,
           pc'[j] = "act" => cur'[j].mail \notin Linked
    PROVE  AlertInv'
BY DEF AlertInv, OneAtWork, ReadIsFresh, ActIsAlerted, WorksOnItem, Unstored

(* The row that is added is the first of its message.                      *)
LEMMA NewRow ==
    ASSUME AlertInv, BoxShape', NEW j \in Job, Commit(j) \/ Store(j)
    PROVE  AlertInv'
<1> USE DEF AlertInv
<1>1. /\ rows' = rows \cup {StoredRow(j)} /\ cur' = cur /\ todo' = todo
      /\ pc' \in [Job -> Place] /\ \A k \in Job \ {j} : pc'[k] = pc[k]
      /\ pc'[j] \in {"loop", "act", "swap"}
  BY DEF Commit, Store, Treatment, GoTo, Place, locals
<1>2. ~Stored(cur[j].mail) /\ pc[j] # "idle"
  BY DEF Commit, Store, ReadIsFresh, Unstored
<1>3. StoredRow(j) \in AnyRow /\ StoredRow(j).mail = cur[j].mail
  <2>1. cur[j] \in AnyItem
    BY DEF Commit, Store, WorksOnItem, Working
  <2> QED BY <2>1 DEF StoredRow, AnyRow, AnyItem
<1>4. OneAlertPerMail'
  BY <1>1, <1>2, <1>3 DEF OneAlertPerMail, Stored
<1>5. \A k \in Job \ {j} : pc'[k] = "idle"
  BY <1>1, <1>2 DEF OneAtWork
<1>6. pc'[j] \in {"act", "swap"} => cur[j].mail \notin Linked
  BY ImapSyncAssumption DEF Commit, Store, Treatment, GoTo
<1>7. OneAtWork'
  BY <1>5 DEF OneAtWork
<1>8. ReadIsFresh' /\ ActIsAlerted' /\ WorksOnItem'
  <2>1. cur[j] \in AnyItem
    BY DEF Commit, Store, WorksOnItem, Working
  <2> QED
    BY <1>1, <1>5, <1>6, <2>1 DEF ReadIsFresh, ActIsAlerted, WorksOnItem, Unstored, Working
<1> QED
  BY <1>1, <1>3, <1>4, <1>7, <1>8

(* A job begins, fetches, sends a command, fails or ends.                  *)
LEMMA JobKeepsRows ==
    ASSUME AlertInv, Locked = Job, BoxShape', NEW j \in Job, rows' = rows,
           \/ Start(j) \/ Fetch(j) \/ FetchHistory(j) \/ Rewrite(j) \/ Quarantine(j)
           \/ Append(j) \/ Drop(j) \/ Fail(j) \/ EndLoop(j) \/ EndScan(j) \/ Abort(j)
           \/ \E i \in todo[j] : Skip(j, i)
           \/ \E r \in pend[j] : RunRequested(j, r)
    PROVE  AlertInv'
<1> USE DEF AlertInv
<1>0. todo' \in [Job -> SUBSET AnyItem]
  <2>1. inbox \subseteq AnyItem /\ Wanted(j) \subseteq inbox
    BY DEF Wanted, Newest, BoxShape
  <2> QED
    BY <2>1 DEF Start, Fetch, FetchHistory, Rewrite, Quarantine, Append, Drop,
         Fail, EndLoop, EndScan, Abort, Clear, Skip, RunRequested, locals
<1>1. pc' \in [Job -> Place] /\ cur' \in [Job -> AnyItem \cup {NoItem}]
  BY DEF Start, Fetch, FetchHistory, Rewrite, Quarantine, Append, Drop, Replaced,
         Fail, EndLoop, EndScan, Abort, Clear, Skip, RunRequested, GoTo, Place, locals
<1>2. \A k \in Job \ {j} : pc'[k] = pc[k] /\ cur'[k] = cur[k]
  BY DEF Start, Fetch, FetchHistory, Rewrite, Quarantine, Append, Drop, Replaced,
         Fail, EndLoop, EndScan, Abort, Clear, Skip, RunRequested, GoTo, locals
<1>3. pc[j] # "idle" \/ \A k \in Job : pc[k] = "idle"
  BY DEF Start, Fetch, FetchHistory, Rewrite, Quarantine, Append, Drop,
         Fail, EndLoop, EndScan, Abort, Skip, RunRequested
<1>4. OneAlertPerMail' /\ \A m : Stored(m)' => Stored(m)
  BY DEF OneAlertPerMail, Stored
<1>5. /\ Unstored(j)' => Unstored(j) /\ cur'[j] = cur[j]
      /\ pc'[j] = "act" => pc[j] = "act" /\ cur'[j] = cur[j]
  <2>1. CASE Rewrite(j)
    BY <2>1 DEF Rewrite, GoTo, locals, Unstored
  <2>2. CASE Quarantine(j)
    BY <2>2 DEF Quarantine, GoTo, locals, Unstored, ActIsAlerted
  <2>3. CASE Append(j)
    BY <2>3 DEF Append, Replaced, GoTo, locals, Unstored
  <2>4. CASE Drop(j)
    BY <2>4 DEF Drop, Replaced, GoTo, locals, Unstored
  <2>5. ASSUME NEW r \in pend[j], RunRequested(j, r)
        PROVE  pc' = pc /\ cur' = cur
    BY <2>5 DEF RunRequested
  <2>6. ASSUME NEW i \in todo[j], Skip(j, i)
        PROVE  pc' = pc /\ cur' = cur
    BY <2>6 DEF Skip
  <2>7. CASE \/ Start(j) \/ Fetch(j) \/ FetchHistory(j) \/ Fail(j) \/ EndLoop(j)
             \/ EndScan(j) \/ Abort(j)
    BY <2>7 DEF Start, Fetch, FetchHistory, Fail, EndLoop, EndScan, Abort, GoTo, Unstored
  <2> QED
    BY <2>1, <2>2, <2>3, <2>4, <2>5, <2>6, <2>7 DEF Unstored
<1>6. Unstored(j)' => ~Stored(cur'[j].mail)
  BY <1>5 DEF ReadIsFresh
<1>8. pc'[j] \in Working => cur'[j] \in AnyItem
  <2>1. pc'[j] \in Working => pc[j] \in Working /\ cur'[j] = cur[j]
    BY DEF Start, Fetch, FetchHistory, Rewrite, Quarantine, Append, Drop, Replaced,
           Fail, EndLoop, EndScan, Abort, Skip, RunRequested, GoTo, locals, Working
  <2> QED BY <2>1 DEF WorksOnItem
<1>7. pc'[j] = "act" => cur'[j].mail \notin Linked
  BY <1>5 DEF ActIsAlerted
<1> QED
  BY <1>0, <1>1, <1>2, <1>3, <1>4, <1>6, <1>7, <1>8, NoNewRow

(* A stored row changes its marks, never the message it is about.          *)
LEMMA RowsAreMarked ==
    ASSUME AlertInv, BoxShape', NEW j \in Job, pc' \in [Job -> Place],
           cur' \in [Job -> AnyItem \cup {NoItem}],
           \A k \in Job \ {j} : pc'[k] = pc[k] /\ cur'[k] = cur[k],
           todo' \in [Job -> SUBSET AnyItem], pc[j] # "idle", pc'[j] \in {"idle", "loop"},
           rows' \subseteq AnyRow,
           NEW F, F \in [rows -> rows'], \A r \in rows : F[r].mail = r.mail,
           \A s \in rows' : \E r \in rows : s = F[r]
    PROVE  AlertInv'
<1>1. \A m : Stored(m)' => Stored(m)
  BY DEF Stored
<1>2. OneAlertPerMail'
  <2> SUFFICES ASSUME NEW r \in rows, NEW s \in rows, F[r].mail = F[s].mail
               PROVE  r = s
    BY DEF OneAlertPerMail
  <2> QED BY DEF AlertInv, OneAlertPerMail
<1> QED
  BY <1>1, <1>2, NoNewRow DEF Unstored, Working

LEMMA MarkStep ==
    ASSUME AlertInv, BoxShape', NEW j \in Job, Mark(j) \/ Finish(j)
    PROVE  AlertInv'
<1> USE DEF AlertInv
<1>1. /\ todo' \in [Job -> SUBSET AnyItem]
      /\ pc' \in [Job -> Place] /\ pc[j] # "idle" /\ pc'[j] \in {"idle", "loop"}
      /\ cur' \in [Job -> AnyItem \cup {NoItem}]
      /\ \A k \in Job \ {j} : pc'[k] = pc[k] /\ cur'[k] = cur[k]
  BY DEF Mark, Finish, Clear, GoTo, Place, locals
<1>2. CASE Mark(j)
  <2> DEFINE F == [r \in rows |-> IF r.mail = cur[j].mail /\ r.by = j
                                    THEN [r EXCEPT !.done = TRUE] ELSE r]
  <2>1. rows' = {F[r] : r \in rows}
    BY <1>2 DEF Mark
  <2>2. F \in [rows -> rows'] /\ \A s \in rows' : \E r \in rows : s = F[r]
    BY <2>1
  <2>3. \A r \in rows : F[r].mail = r.mail /\ F[r] \in AnyRow
    BY DEF AnyRow
  <2> HIDE DEF F
  <2> QED
    BY <1>1, <2>2, <2>3, RowsAreMarked
<1>3. CASE Finish(j)
  <2> DEFINE G(r) == IF \E x \in stamps[j] : x.mail = r.mail /\ x.by = r.by
                       THEN [r EXCEPT !.done = TRUE, !.asked = FALSE] ELSE r
             F == [r \in rows |-> G(r)]
  <2>1. rows' = {G(r) : r \in rows}
    BY <1>3 DEF Finish, Done
  <2>2. \A r \in rows : G(r).mail = r.mail /\ G(r) \in AnyRow
    BY DEF AnyRow
  <2> HIDE DEF G
  <2>3. F \in [rows -> rows'] /\ \A s \in rows' : \E r \in rows : s = F[r]
    BY <2>1
  <2>5. rows' \subseteq AnyRow
    BY <2>1, <2>2
  <2>4. \A r \in rows : F[r].mail = r.mail
    BY <2>2
  <2> HIDE DEF F
  <2> QED
    BY <1>1, <2>3, <2>4, <2>5, RowsAreMarked
<1> QED
  BY <1>2, <1>3

LEMMA AnalyseStep ==
    ASSUME AlertInv, BoxShape', NEW j \in Job, NEW i \in todo[j], Analyse(j, i)
    PROVE  AlertInv'
<1> USE DEF AlertInv
<1>1. /\ pc' \in [Job -> Place] /\ cur' \in [Job -> AnyItem \cup {NoItem}]
      /\ \A k \in Job \ {j} : pc'[k] = pc[k] /\ cur'[k] = cur[k]
      /\ pc[j] # "idle" /\ pc'[j] = "read" /\ cur'[j] = i /\ rows' = rows
      /\ todo' \in [Job -> SUBSET AnyItem] /\ ~Stored(i.mail) /\ i \in AnyItem
  BY DEF Analyse, GoTo, Place, database
<1>2. OneAlertPerMail' /\ \A m : Stored(m)' => Stored(m)
  BY <1>1 DEF OneAlertPerMail, Stored
<1> QED
  BY <1>1, <1>2, NoNewRow DEF Unstored

(* Steps that are no job's: mail, its owner, the server, a crash.          *)
LEMMA OutsideStep ==
    ASSUME AlertInv, BoxShape',
           \/ \E m \in Mail : Deliver(m)
           \/ Renumber \/ Crash \/ UNCHANGED vars
           \/ \E i \in inbox : Discard(i)
    PROVE  AlertInv'
<1> USE DEF AlertInv
<1>1. /\ rows' = rows /\ pc' \in [Job -> Place] /\ todo' \in [Job -> SUBSET AnyItem]
      /\ cur' \in [Job -> AnyItem \cup {NoItem}]
      /\ \A j \in Job : pc'[j] = "idle" \/ (pc'[j] = pc[j] /\ cur'[j] = cur[j])
  BY DEF Deliver, Renumber, Crash, Discard, vars, locals, database, Place
<1> QED
  BY <1>1 DEF OneAtWork, ReadIsFresh, ActIsAlerted, WorksOnItem, OneAlertPerMail,
              Unstored, Stored, Working

LEMMA PressStep ==
    ASSUME AlertInv, BoxShape', NEW r \in rows, Press(r)
    PROVE  AlertInv'
<1> USE DEF AlertInv
<1> DEFINE s == [r EXCEPT !.asked = TRUE]
<1>1. rows' = (rows \ {r}) \cup {s} /\ pc' = pc /\ todo' = todo /\ cur' = cur
  BY DEF Press, locals
<1>2. s.mail = r.mail /\ s \in AnyRow
  BY DEF AnyRow
<1> HIDE DEF s
<1>3. OneAlertPerMail' /\ rows' \subseteq AnyRow
  BY <1>1, <1>2 DEF OneAlertPerMail
<1>4. \A m : Stored(m)' <=> Stored(m)
  BY <1>1, <1>2 DEF Stored
<1> QED
  BY <1>1, <1>3, <1>4 DEF OneAtWork, ReadIsFresh, ActIsAlerted, WorksOnItem, Unstored

(* The folder stays a finite set of items, renumbered or not.              *)
LEMMA BoxStep ==
    ASSUME AlertInv, [Next]_vars
    PROVE  BoxShape'
<1> USE DEF AlertInv, BoxShape
<1>1. ASSUME inbox' \subseteq inbox, nextUid' = nextUid PROVE BoxShape'
  BY <1>1, FS_Subset
<1>2. ASSUME NEW m \in Mail, NEW c \in BOOLEAN, nextUid' = nextUid + 1,
             inbox' = inbox \cup {[uid |-> nextUid, mail |-> m, copy |-> c]}
      PROVE  BoxShape'
  <2> DEFINE new == [uid |-> nextUid, mail |-> m, copy |-> c]
  <2>1. new \in AnyItem
    BY DEF AnyItem
  <2>2. nextUid' \in Nat
    BY <1>2
  <2> HIDE DEF new
  <2>3. inbox' = inbox \cup {new}
    BY <1>2 DEF new
  <2> QED
    BY <2>1, <2>2, <2>3, FS_AddElement
<1>3. CASE Renumber
  <2> DEFINE Rank(i) == Cardinality({k \in inbox : k.uid <= i.uid})
  <2>1. inbox' = {[i EXCEPT !.uid = Rank(i)] : i \in inbox}
        /\ nextUid' = Cardinality(inbox) + 1
    BY <1>3 DEF Renumber
  <2>2. \A i \in inbox : Rank(i) \in Nat
    BY FS_Subset, FS_CardinalityType
  <2> HIDE DEF Rank
  <2>3. \A i \in inbox : [i EXCEPT !.uid = Rank(i)] \in AnyItem
    BY <2>2 DEF AnyItem
  <2>4. IsFiniteSet(inbox')
    <3> DEFINE f == [i \in inbox |-> [i EXCEPT !.uid = Rank(i)]]
    <3>1. f \in Surjection(inbox, inbox')
      BY <2>1 DEF Surjection
    <3> QED
      BY <3>1, FS_Surjection
  <2>5. nextUid' \in Nat
    BY <2>1, FS_CardinalityType
  <2> QED
    BY <2>1, <2>3, <2>4, <2>5
<1>4. ASSUME NEW m \in Mail, Deliver(m) PROVE BoxShape'
  BY <1>4, <1>2 DEF Deliver
<1>5. ASSUME NEW i \in inbox, Discard(i) PROVE BoxShape'
  BY <1>5, <1>1 DEF Discard
<1>6. ASSUME NEW r \in rows, Press(r) PROVE BoxShape'
  BY <1>6, <1>1 DEF Press, server
<1>7. CASE Crash \/ UNCHANGED vars
  BY <1>7, <1>1 DEF Crash, vars, server
<1>8. ASSUME NEW j \in Job, Step(j) PROVE BoxShape'
  <2>1. CASE Append(j)
    <3>1. cur[j].mail \in Mail
      BY <2>1 DEF Append, WorksOnItem, Working, AnyItem
    <3>2. CASE UNCHANGED server
      BY <3>2 DEF server
    <3> QED
      BY <2>1, <3>1, <3>2, <1>2 DEF Append
  <2>2. CASE Quarantine(j) \/ Drop(j) \/ \E r \in pend[j] : RunRequested(j, r)
    BY <2>2, <1>1 DEF Quarantine, Drop, RunRequested, MoveAway, CopyAway, server
  <2>3. CASE UNCHANGED server
    BY <2>3, <1>1 DEF server
  <2>4. CASE \/ Start(j) \/ Fetch(j) \/ FetchHistory(j) \/ Commit(j) \/ Rewrite(j)
             \/ Store(j) \/ Mark(j) \/ Fail(j) \/ EndLoop(j) \/ EndScan(j)
             \/ Finish(j) \/ Abort(j)
             \/ \E i \in todo[j] : Skip(j, i) \/ Analyse(j, i)
    BY <2>4, <2>3 DEF Start, Fetch, FetchHistory, Commit, Rewrite, Store, Mark, Fail,
       EndLoop, EndScan, Finish, Abort, Skip, Analyse
  <2> QED
    BY <1>8, <2>1, <2>2, <2>4 DEF Step
<1> QED
  BY <1>3, <1>4, <1>5, <1>6, <1>7, <1>8 DEF Next

LEMMA StepAlertInv ==
    ASSUME Locked = Job, AlertInv, [Next]_vars
    PROVE  AlertInv'
<1>1. BoxShape'
  BY BoxStep
<1>2. ASSUME NEW j \in Job, Step(j) PROVE AlertInv'
  <2>1. CASE Commit(j) \/ Store(j)
    BY <2>1, <1>1, NewRow
  <2>2. CASE Mark(j) \/ Finish(j)
    BY <2>2, <1>1, MarkStep
  <2>3. CASE \E i \in todo[j] : Analyse(j, i)
    BY <2>3, <1>1, AnalyseStep
  <2>4. CASE \/ Start(j) \/ Fetch(j) \/ FetchHistory(j) \/ Rewrite(j) \/ Quarantine(j)
             \/ Append(j) \/ Drop(j) \/ Fail(j) \/ EndLoop(j) \/ EndScan(j) \/ Abort(j)
             \/ \E i \in todo[j] : Skip(j, i)
             \/ \E r \in pend[j] : RunRequested(j, r)
    <3>1. rows' = rows
      BY <2>4 DEF Start, Fetch, FetchHistory, Rewrite, Quarantine, Append, Drop, Fail,
         EndLoop, EndScan, Abort, Skip, RunRequested, database
    <3> QED
      BY <2>4, <3>1, <1>1, JobKeepsRows
  <2> QED
    BY <1>2, <2>1, <2>2, <2>3, <2>4 DEF Step
<1> QED
  BY <1>1, <1>2, OutsideStep, PressStep DEF Next

LEMMA InitAlertInv == Init => AlertInv
BY FS_EmptySet DEF Init, AlertInv, BoxShape, WorksOnItem, OneAtWork, ReadIsFresh,
   ActIsAlerted, OneAlertPerMail, Unstored, Place, Working

(* While all that runs over the mailbox takes its lock, as polls and IDLE  *)
(* wake-ups do (_sync_one), no message is stored and alerted on twice: not *)
(* across retries, crashes or a renumbering of the folder.  History scans  *)
(* and "Sync now" do not take it, and then two jobs may each store a row.  *)
THEOREM LockedSyncsAlertOnce ==
    ASSUME Locked = Job
    PROVE  Spec => []OneAlertPerMail
<1>1. AlertInv /\ [Next]_vars => AlertInv'
  BY StepAlertInv
<1>2. AlertInv => OneAlertPerMail
  BY DEF AlertInv
<1> QED
  BY <1>1, <1>2, InitAlertInv, PTL DEF Spec

-----------------------------------------------------------------------------
(* What was asked for and what was looked at.  These hold for any jobs,    *)
(* locked or not; the folder keeps its numbering.                          *)

(* UID u was handed out to the original of m.                              *)
Names(u, m) ==
    /\ m \in delivered /\ u \in Uid /\ u < nextUid
    /\ \A k \in inbox : k.uid = u <=> ~k.copy /\ k.mail = m

(* The original of m is out of the inbox.                                  *)
Gone(m) == \A k \in inbox : k.mail = m => k.copy

OriginalsNamed ==
    /\ \A i \in inbox : ~i.copy => Names(i.uid, i.mail)
    /\ \A j \in Job : \A i \in todo[j] : ~i.copy => Names(i.uid, i.mail)
    /\ \A j \in Job : pc[j] \in Working => Names(cur[j].uid, cur[j].mail)

RowsNamed ==
    /\ \A r \in rows : Names(r.ref, r.mail)
    /\ \A j \in Job : \A r \in pend[j] \cup stamps[j] : Names(r.ref, r.mail)

(* A quarantine is stamped after the original has gone.                    *)
StampsAreTrue ==
    /\ \A j \in Job : \A r \in stamps[j] : Gone(r.mail)
    /\ \A j \in Job : pc[j] = "mark" => Gone(cur[j].mail)

AskedUntilDone ==
    \A r \in rows : AutoRemove /\ Protected /\ r.mail \in Critical => r.asked \/ r.done

RequestInv == OriginalsNamed /\ RowsNamed /\ StampsAreTrue /\ AskedUntilDone /\ StampedMeansGone

(* Somebody has looked at it, or has given up on it.                       *)
Seen(i) == Stored(i.mail) \/ i.mail \in gaveUp

(* Up to u every original in the inbox has been looked at.                 *)
Covered(u) == \A i \in inbox : ~i.copy /\ i.uid <= u => Seen(i)

(* Job j will still look at it, or leaves the cursor below it.             *)
Ahead(j, i) ==
    \/ i \in todo[j]
    \/ pc[j] \in Working /\ i = cur[j]
    \/ retry[j] # NoUid /\ retry[j] <= i.uid

Passed(j) ==
    \A i \in inbox : ~i.copy /\ i.uid <= highest[j] => Seen(i) \/ Ahead(j, i)

(* A job starts from a cursor that was covered, ...                        *)
Starts(j) ==
    pc[j] = "fetch" =>
        /\ Covered(since[j]) /\ since[j] < nextUid
        /\ seenEpoch[j] \in {NoEpoch, epoch} /\ (seenEpoch[j] = NoEpoch => since[j] = NoUid)

(* ... looks at all it has fetched, ...                                    *)
Passes(j) ==
    pc[j] \notin {"idle", "fetch"} /\ j \notin Scan =>
        Passed(j) /\ highest[j] < nextUid /\ seenEpoch[j] = epoch

(* ... and treats mail that is not only rewritten once its row is stored.  *)
Treats(j) ==
    /\ pc[j] = "asks" => todo[j] = {} /\ j \notin Scan
    /\ j \in Scan => pc[j] \in {"idle", "fetch", "loop", "read"}
    /\ pc[j] = "act" \/ (pc[j] \in {"swap", "drop"} /\ cur[j].mail \notin Linked)
         => Stored(cur[j].mail)

JobInv(j) == Starts(j) /\ Passes(j) /\ Treats(j)

CursorCovered ==
    /\ Covered(cursor) /\ cursor < nextUid
    /\ cursorEpoch \in {NoEpoch, epoch} /\ (cursorEpoch = NoEpoch => cursor = NoUid)

CursorInv == CursorCovered /\ \A j \in Job : JobInv(j)

-----------------------------------------------------------------------------
(* The least-number principle, for sets of naturals.                       *)
LEMMA HasLeast ==
    ASSUME NEW T \in SUBSET Nat, T # {} PROVE \E x \in T : \A y \in T : x <= y
<1> DEFINE R == OpToRel(<, Nat)
<1>1. \A x, y \in Nat : <<x, y>> \in R <=> x < y
  BY DEF OpToRel
<1>2. IsWellFoundedOn(R, Nat)
  BY NatLessThanWellFounded
<1> HIDE DEF R
<1>3. PICK x \in T : \A y \in T : <<y, x>> \notin R
  BY <1>2, WFMin
<1>4. ASSUME NEW y \in T PROVE x <= y
  <2>1. x \in Nat /\ y \in Nat
    OBVIOUS
  <2>2. ~(y < x)
    BY <1>1, <1>3, <2>1
  <2> QED BY <2>1, <2>2
<1> QED BY <1>4

(* A folder that is not empty has a highest UID, and HighestUid is it.     *)
LEMMA HighestIsOne ==
    ASSUME NEW items \in SUBSET Item, items # {}
    PROVE  /\ HighestUid(items) \in {i.uid : i \in items}
           /\ \A i \in items : i.uid <= HighestUid(items)
<1> DEFINE S == {i.uid : i \in items}
           T == {x \in Nat : MaxUid - x \in S}
<1>1. S \subseteq 1..MaxUid
  BY DEF Item, Uid
<1>2. T \in SUBSET Nat /\ T # {}
  <2>1. PICK u \in S : TRUE
    OBVIOUS
  <2>2. u \in 1..MaxUid
    BY <1>1, <2>1
  <2> HIDE DEF S
  <2>3. MaxUid - u \in Nat /\ MaxUid - (MaxUid - u) = u
    BY <2>2, ImapSyncAssumption
  <2> QED BY <2>1, <2>3
<1> HIDE DEF S, T
<1>3. PICK x \in T : \A y \in T : x <= y
  BY <1>2, HasLeast
<1>4. MaxUid - x \in S /\ x \in Nat
  BY DEF T
<1>5. ASSUME NEW v \in S PROVE v <= MaxUid - x
  <2>1. v \in 1..MaxUid
    BY <1>1
  <2>2. MaxUid - v \in T
    BY <2>1, ImapSyncAssumption DEF T
  <2> QED BY <1>3, <1>4, <2>1, <2>2, ImapSyncAssumption
<1>6. \E u \in S : \A i \in items : i.uid <= u
  BY <1>4, <1>5 DEF S
<1> QED BY <1>6 DEF HighestUid, S

(* The types, in four parts.                                               *)
ServerTypes ==
    /\ inbox \subseteq Item /\ nextUid \in 1..(MaxUid + 1)
    /\ epoch \in 1..MaxEpoch /\ away \subseteq Mail

DatabaseTypes ==
    /\ cursor \in -1..MaxUid /\ cursorEpoch \in 0..MaxEpoch
    /\ rows \subseteq Row

JobTypes ==
    /\ pc \in [Job -> Place]
    /\ since \in [Job -> -1..MaxUid] /\ highest \in [Job -> -1..MaxUid]
    /\ retry \in [Job -> -1..MaxUid] /\ seenEpoch \in [Job -> 0..MaxEpoch]
    /\ todo \in [Job -> SUBSET Item] /\ cur \in [Job -> Item \cup {NoItem}]
    /\ pend \in [Job -> SUBSET Row] /\ stamps \in [Job -> SUBSET Row]
    /\ \A j \in Job : retry[j] # 0

HistoryTypes ==
    /\ fails \in [Uid -> 0..(Attempts - 1)]
    /\ delivered \subseteq Mail /\ discarded \subseteq Mail /\ pressed \subseteq Mail
    /\ gaveUp \subseteq Mail /\ faults \in 0..MaxFaults
    /\ touches \in 0..MaxTouches

Types == ServerTypes /\ DatabaseTypes /\ JobTypes /\ HistoryTypes

(* The types hold at the start.                                            *)
LEMMA InitTypes == Init => Types
  BY ImapSyncAssumption
     DEF Init, Types, ServerTypes, DatabaseTypes, JobTypes, HistoryTypes, Uid, Place, NoUid, NoEpoch

(* A fault is counted within its bound.                                    *)
LEMMA FaultCounted == ASSUME Types, Fault PROVE faults' \in 0..MaxFaults
  BY ImapSyncAssumption DEF Types, HistoryTypes, Fault

(* The item a job works on is one, so the row it stores is one.            *)
LEMMA CurrentIsItem ==
    ASSUME MailInv, NEW j \in Job, pc[j] \in Working
    PROVE  /\ cur[j] \in Item /\ cur[j].uid \in Uid /\ cur[j].mail \in Mail
           /\ ~cur[j].copy /\ StoredRow(j) \in Row
<1>1. cur[j] \in Item /\ ~cur[j].copy
  BY DEF MailInv, CurrentKnown
<1>2. cur[j].uid \in Uid /\ cur[j].mail \in Mail
  BY <1>1 DEF Item
<1>3. (AutoRemove /\ Protected /\ cur[j].mail \in Critical) \in BOOLEAN
  OBVIOUS
<1> QED BY <1>1, <1>2, <1>3 DEF StoredRow, Row

(* A fetch returns items of the folder.                                    *)
LEMMA WantedIsInbox == ASSUME NEW j \in Job PROVE Wanted(j) \subseteq inbox
  BY DEF Wanted, Newest

(* The UIDs a fetch and the end of a sync write.                           *)
LEMMA CursorTyped ==
    ASSUME Types, NEW j \in Job
    PROVE  /\ Base(j) \in -1..MaxUid /\ NextCursor(j) \in -1..MaxUid
           /\ Wanted(j) # {} => HighestUid(Wanted(j)) \in -1..MaxUid
<1>1. highest[j] \in -1..MaxUid /\ retry[j] \in -1..MaxUid /\ retry[j] # 0
      /\ cursor \in -1..MaxUid /\ since[j] \in -1..MaxUid
  BY DEF Types, ServerTypes, DatabaseTypes, JobTypes
<1>2. Base(j) \in -1..MaxUid
  BY <1>1, ImapSyncAssumption DEF Base, NoUid
<1>3. NextCursor(j) \in -1..MaxUid
  BY <1>1, ImapSyncAssumption DEF NextCursor, NoUid
<1>4. Wanted(j) # {} => HighestUid(Wanted(j)) \in -1..MaxUid
  <2>1. Wanted(j) \in SUBSET Item
    BY WantedIsInbox DEF Types, ServerTypes, DatabaseTypes, JobTypes
  <2>2. ASSUME Wanted(j) # {} PROVE HighestUid(Wanted(j)) \in Uid
    <3>1. HighestUid(Wanted(j)) \in {i.uid : i \in Wanted(j)}
      BY <2>1, <2>2, HighestIsOne
    <3> QED BY <2>1, <3>1 DEF Item
  <2> QED BY <2>2, ImapSyncAssumption DEF Uid
<1> QED BY <1>2, <1>3, <1>4

(* A job that ends forgets what it had.                                    *)
LEMMA ClearTyped == ASSUME Types, NEW j \in Job, Clear(j), GoTo(j, "idle") PROVE JobTypes'
  BY ImapSyncAssumption
     DEF Types, ServerTypes, DatabaseTypes, JobTypes, Clear, GoTo, Place, NoUid, NoEpoch


(* The steps over one message keep the types, ...                          *)
LEMMA MessageTypes ==
    ASSUME Types, MailInv, NEW j \in Job,
           \/ \E i \in todo[j] : Skip(j, i) \/ Analyse(j, i)
           \/ Commit(j) \/ Rewrite(j) \/ Store(j) \/ Mark(j)
    PROVE  Types'
<1> USE DEF Types
<1>1. ASSUME NEW i \in todo[j], Skip(j, i) PROVE Types'
  BY <1>1 DEF Skip, ServerTypes, DatabaseTypes, JobTypes, HistoryTypes, server, database, history
<1>2. ASSUME NEW i \in todo[j], Analyse(j, i) PROVE Types'
  BY <1>2 DEF Analyse, GoTo, ServerTypes, DatabaseTypes, JobTypes, HistoryTypes, server, database,
              history, Place
<1>3. CASE Commit(j)
  <2>1. rows' \subseteq Row
    BY <1>3, CurrentIsItem DEF Commit, Working, DatabaseTypes
  <2>2. pc' \in [Job -> Place]
    BY <1>3 DEF Commit, Treatment, GoTo, JobTypes, Place
  <2> QED BY <1>3, <2>1, <2>2 DEF Commit, ServerTypes, DatabaseTypes, JobTypes, HistoryTypes,
                                  server, locals, history
<1>4. CASE Rewrite(j)
  BY <1>4 DEF Rewrite, GoTo, ServerTypes, DatabaseTypes, JobTypes, HistoryTypes, server, database,
              locals, history, Place
<1>5. CASE Store(j)
  <2>1. rows' \subseteq Row
    BY <1>5, CurrentIsItem DEF Store, Working, DatabaseTypes
  <2> QED BY <1>5, <2>1 DEF Store, GoTo, ServerTypes, DatabaseTypes, JobTypes, HistoryTypes,
                            server, locals, history, Place
<1>6. CASE Mark(j)
  <2>1. \A r \in rows : [r EXCEPT !.done = TRUE] \in Row
    BY DEF DatabaseTypes, Row
  <2>2. rows' \subseteq Row
    BY <1>6, <2>1 DEF Mark, DatabaseTypes
  <2> QED BY <1>6, <2>2 DEF Mark, GoTo, ServerTypes, DatabaseTypes, JobTypes, HistoryTypes,
                            server, locals, history, Place
<1> QED BY <1>1, <1>2, <1>3, <1>4, <1>5, <1>6

(* ... so does a failure, whose count stays below its limit, ...           *)
LEMMA FailTypes == ASSUME Types, MailInv, NEW j \in Job, Fail(j) PROVE Types'
<1>1. cur[j].uid \in Uid /\ cur[j].mail \in Mail
  BY CurrentIsItem DEF Fail, Working
<1>2. faults' \in 0..MaxFaults
  BY FaultCounted DEF Fail
<1>3. fails' \in [Uid -> 0..(Attempts - 1)]
  <2>1. fails \in [Uid -> 0..(Attempts - 1)] /\ 0 \in 0..(Attempts - 1)
    BY ImapSyncAssumption DEF Types, HistoryTypes, JobTypes
  <2>2. ~GivesUp(cur[j].uid) => fails[cur[j].uid] + 1 \in 0..(Attempts - 1)
    <3>1. fails[cur[j].uid] \in 0..(Attempts - 1)
      BY <1>1, <2>1
    <3> QED BY <3>1, ImapSyncAssumption DEF GivesUp
  <2>3. \/ fails' = fails
        \/ ~GivesUp(cur[j].uid) /\ fails' = [fails EXCEPT ![cur[j].uid] = fails[cur[j].uid] + 1]
        \/ fails' = [fails EXCEPT ![cur[j].uid] = 0]
    BY DEF Fail
  <2> QED BY <1>1, <2>1, <2>2, <2>3
<1>4. retry' \in [Job -> -1..MaxUid] /\ \A k \in Job : retry'[k] # 0
  <2>1. retry \in [Job -> -1..MaxUid] /\ \A k \in Job : retry[k] # 0
    BY DEF Types, HistoryTypes, JobTypes
  <2>2. LowestRetry(j, cur[j].uid) \in -1..MaxUid /\ LowestRetry(j, cur[j].uid) # 0
    BY <1>1, <2>1, ImapSyncAssumption DEF LowestRetry, Uid
  <2>3. retry' = retry \/ retry' = [retry EXCEPT ![j] = LowestRetry(j, cur[j].uid)]
    BY DEF Fail
  <2> QED BY <2>1, <2>2, <2>3
<1>5. gaveUp' \subseteq Mail
  BY <1>1 DEF Fail, Types, HistoryTypes
<1> QED
  BY <1>2, <1>3, <1>4, <1>5
     DEF Types, Fail, GoTo, ServerTypes, DatabaseTypes, JobTypes, HistoryTypes, server, database, Place

(* ... the commands sent to the mail server, ...                           *)
LEMMA CommandTypes ==
    ASSUME Types, MailInv, NEW j \in Job,
           \/ Quarantine(j) \/ Append(j) \/ Drop(j)
           \/ \E r \in pend[j] : RunRequested(j, r)
    PROVE  Types'
<1> USE DEF Types
<1>1. CASE Quarantine(j)
  <2>1. inbox' \subseteq Item /\ away' \subseteq Mail /\ UNCHANGED <<nextUid, epoch>>
    BY <1>1 DEF Quarantine, MoveAway, CopyAway, At, server, ServerTypes, Item
  <2>2. faults' \in 0..MaxFaults
    BY <1>1, FaultCounted DEF Quarantine, HistoryTypes
  <2>3. pc' \in [Job -> Place]
    BY <1>1 DEF Quarantine, GoTo, JobTypes, Place
  <2> QED BY <1>1, <2>1, <2>2, <2>3 DEF Quarantine, ServerTypes, DatabaseTypes, JobTypes,
                                        HistoryTypes, database, locals, history
<1>2. CASE Append(j)
  <2>1. cur[j].mail \in Mail
    BY <1>2, CurrentIsItem DEF Append, Working
  <2>2. inbox' \subseteq Item /\ nextUid' \in 1..(MaxUid + 1) /\ UNCHANGED <<epoch, away>>
    <3>1. CASE UNCHANGED server
      BY <3>1 DEF server, ServerTypes
    <3>2. CASE /\ nextUid <= MaxUid /\ nextUid' = nextUid + 1 /\ UNCHANGED <<epoch, away>>
               /\ inbox' = inbox \cup {[uid |-> nextUid, mail |-> cur[j].mail, copy |-> TRUE]}
      <4>1. nextUid \in Uid /\ nextUid' \in 1..(MaxUid + 1)
        BY <3>2, ImapSyncAssumption DEF Uid, ServerTypes
      <4>2. [uid |-> nextUid, mail |-> cur[j].mail, copy |-> TRUE] \in Item
        BY <2>1, <4>1 DEF Item
      <4> QED BY <3>2, <4>1, <4>2 DEF ServerTypes
    <3> QED BY <1>2, <3>1, <3>2 DEF Append
  <2>3. faults' \in 0..MaxFaults
    BY <1>2, FaultCounted DEF Append, HistoryTypes
  <2>4. pc' \in [Job -> Place]
    BY <1>2 DEF Append, Replaced, GoTo, JobTypes, Place
  <2> QED BY <1>2, <2>2, <2>3, <2>4 DEF Append, ServerTypes, DatabaseTypes, JobTypes,
                                        HistoryTypes, database, locals, history
<1>3. CASE Drop(j)
  <2>1. faults' \in 0..MaxFaults
    BY <1>3, FaultCounted DEF Drop, HistoryTypes
  <2>2. pc' \in [Job -> Place]
    BY <1>3 DEF Drop, Replaced, GoTo, JobTypes, Place
  <2>3. inbox' \subseteq Item
    BY <1>3 DEF Drop, ServerTypes
  <2> QED BY <1>3, <2>1, <2>2, <2>3 DEF Drop, ServerTypes, DatabaseTypes, JobTypes,
                                        HistoryTypes, database, locals, history
<1>4. ASSUME NEW r \in pend[j], RunRequested(j, r) PROVE Types'
  <2>1. inbox' \subseteq Item /\ away' \subseteq Mail /\ UNCHANGED <<nextUid, epoch>>
    BY <1>4 DEF RunRequested, MoveAway, At, server, ServerTypes, Item
  <2>2. faults' \in 0..MaxFaults
    BY <1>4, FaultCounted DEF RunRequested, HistoryTypes
  <2>3. r \in Row
    BY DEF JobTypes
  <2>4. pend' \in [Job -> SUBSET Row] /\ stamps' \in [Job -> SUBSET Row]
    BY <1>4, <2>3 DEF RunRequested, JobTypes
  <2> QED BY <1>4, <2>1, <2>2, <2>4 DEF RunRequested, ServerTypes, DatabaseTypes, JobTypes,
                                        HistoryTypes, database, history
<1> QED BY <1>1, <1>2, <1>3, <1>4

(* ... the beginning and the end of a job, ...                             *)
LEMMA FrameTypes ==
    ASSUME Types, MailInv, NEW j \in Job,
           \/ Start(j) \/ Fetch(j) \/ FetchHistory(j) \/ EndLoop(j) \/ EndScan(j)
           \/ Finish(j) \/ Abort(j)
    PROVE  Types'
<1> USE DEF Types
<1>1. CASE Start(j)
  BY <1>1 DEF Start, GoTo, ServerTypes, DatabaseTypes, JobTypes, HistoryTypes, server, database,
              history, Place
<1>2. CASE Fetch(j)
  <2>1. todo' \in [Job -> SUBSET Item]
    BY <1>2, WantedIsInbox DEF Fetch, ServerTypes, JobTypes
  <2>2. highest' \in [Job -> -1..MaxUid]
    BY <1>2, CursorTyped DEF Fetch, JobTypes
  <2>3. seenEpoch' \in [Job -> 0..MaxEpoch]
    BY <1>2, ImapSyncAssumption DEF Fetch, JobTypes, ServerTypes
  <2> QED BY <1>2, <2>1, <2>2, <2>3 DEF Fetch, GoTo, ServerTypes, DatabaseTypes, JobTypes,
                                        HistoryTypes, server, database, history, Place
<1>3. CASE FetchHistory(j)
  BY <1>3 DEF FetchHistory, GoTo, ServerTypes, DatabaseTypes, JobTypes, HistoryTypes, server,
              database, history, Place
<1>4. CASE EndLoop(j)
  BY <1>4 DEF EndLoop, Requested, GoTo, ServerTypes, DatabaseTypes, JobTypes, HistoryTypes, server,
              database, history, Place
<1>5. CASE EndScan(j)
  BY <1>5, ClearTyped DEF EndScan, ServerTypes, DatabaseTypes, HistoryTypes, server, database,
                          history
<1>6. CASE Finish(j)
  <2>1. JobTypes'
    BY <1>6, ClearTyped DEF Finish
  <2>2. \A r \in rows : [r EXCEPT !.done = TRUE, !.asked = FALSE] \in Row
    BY DEF DatabaseTypes, Row
  <2>3. rows' \subseteq Row
    BY <1>6, <2>2 DEF Finish, Done, DatabaseTypes
  <2>4. cursor' \in -1..MaxUid /\ cursorEpoch' \in 0..MaxEpoch
    BY <1>6, CursorTyped DEF Finish, JobTypes
  <2> QED BY <1>6, <2>1, <2>3, <2>4 DEF Finish, ServerTypes, DatabaseTypes, HistoryTypes, server,
                                        history
<1>7. CASE Abort(j)
  <2>1. faults' \in 0..MaxFaults
    BY <1>7, FaultCounted DEF Abort
  <2> QED BY <1>7, <2>1, ClearTyped DEF Abort, ServerTypes, DatabaseTypes, HistoryTypes, server,
                                        database, history
<1> QED BY <1>1, <1>2, <1>3, <1>4, <1>5, <1>6, <1>7

(* ... and what happens outside the jobs.                                  *)
LEMMA OutsideTypes ==
    ASSUME Types, MailInv,
           \/ \E m \in Mail : Deliver(m)
           \/ \E i \in inbox : Discard(i)
           \/ \E r \in rows : Press(r)
           \/ Crash \/ UNCHANGED vars
    PROVE  Types'
<1> USE DEF Types
<1>1. ASSUME NEW m \in Mail, Deliver(m) PROVE Types'
  <2>1. nextUid \in Uid /\ nextUid' \in 1..(MaxUid + 1)
    BY <1>1, ImapSyncAssumption DEF Deliver, Uid, ServerTypes
  <2>2. [uid |-> nextUid, mail |-> m, copy |-> FALSE] \in Item
    BY <2>1 DEF Item
  <2>3. inbox' \subseteq Item
    BY <1>1, <2>2 DEF Deliver, ServerTypes
  <2> QED BY <1>1, <2>1, <2>3 DEF Deliver, ServerTypes, DatabaseTypes, JobTypes, HistoryTypes,
                                  database, locals
<1>2. ASSUME NEW i \in inbox, Discard(i) PROVE Types'
  <2>1. i.mail \in Mail /\ touches' \in 0..MaxTouches
    BY <1>2, ImapSyncAssumption DEF Discard, ServerTypes, HistoryTypes, Item
  <2> QED BY <1>2, <2>1 DEF Discard, ServerTypes, DatabaseTypes, JobTypes, HistoryTypes,
                            database, locals
<1>3. ASSUME NEW r \in rows, Press(r) PROVE Types'
  <2>1. r \in Row /\ [r EXCEPT !.asked = TRUE] \in Row /\ r.mail \in Mail
    BY DEF DatabaseTypes, Row
  <2>2. touches' \in 0..MaxTouches
    BY <1>3, ImapSyncAssumption DEF Press, HistoryTypes
  <2>3. rows' \subseteq Row
    BY <1>3, <2>1 DEF Press, DatabaseTypes
  <2> QED BY <1>3, <2>1, <2>2, <2>3 DEF Press, ServerTypes, DatabaseTypes, JobTypes, HistoryTypes,
                                        server, locals
<1>4. CASE Crash
  <2>1. faults' \in 0..MaxFaults
    BY <1>4, FaultCounted DEF Crash
  <2>2. JobTypes'
    BY <1>4, ImapSyncAssumption DEF Crash, JobTypes, Place, NoUid, NoEpoch
  <2> QED BY <1>4, <2>1, <2>2, ImapSyncAssumption DEF Crash, ServerTypes, DatabaseTypes,
                                                      HistoryTypes, server, database, history
<1>5. CASE UNCHANGED vars
  BY <1>5 DEF vars, ServerTypes, DatabaseTypes, JobTypes, HistoryTypes, server, database, locals,
              history
<1> QED BY <1>1, <1>2, <1>3, <1>4, <1>5

(* The types are kept while the folder keeps its numbering.                *)
LEMMA StepTypes == ASSUME ~Renumber, Types, MailInv, [Next]_vars PROVE Types'
<1>1. ~Renumber
  OBVIOUS
<1> QED
  BY <1>1, MessageTypes, FailTypes, CommandTypes, FrameTypes, OutsideTypes DEF Next, Step


-----------------------------------------------------------------------------
(* What a step may do to the folder, to the items in hand and to the rows. *)

(* New items have new UIDs, and an original is delivered once.             *)
Handed ==
    /\ delivered \subseteq delivered' /\ nextUid' \in Nat /\ nextUid <= nextUid'
    /\ \A k \in inbox' \ inbox :
         /\ k.uid = nextUid /\ k.uid \in Uid /\ nextUid < nextUid'
         /\ k.copy \/ (k.mail \notin delivered /\ k.mail \in delivered')
    /\ \A i, k \in inbox' \ inbox : i = k

(* A job looks at what it fetched, and works on what it looks at.          *)
Taken ==
    \A j \in Job :
        /\ todo'[j] \subseteq todo[j] \cup inbox
        /\ pc'[j] \in Working => \/ pc[j] \in Working /\ cur'[j] = cur[j]
                                 \/ cur'[j] \in todo[j] /\ ~cur'[j].copy
        /\ pc'[j] = "mark" =>
             /\ pc[j] \in Working /\ cur'[j] = cur[j]
             /\ pc[j] = "mark" \/ At(cur[j].uid) \cap inbox' = {}

(* A row keeps its message; it is stamped when the original is gone.       *)
RowsMove ==
    \A s \in rows' :
        \/ \E r \in rows : /\ s.mail = r.mail /\ s.ref = r.ref
                           /\ r.asked \/ r.done => s.asked \/ s.done
                           /\ s.done => r.done \/ Gone(s.mail)
        \/ \E j \in Job : pc[j] \in Working /\ s = StoredRow(j)

(* What is run was asked for, and is stamped once the folder has let go.   *)
AsksMove ==
    \A j \in Job :
        /\ pend'[j] \subseteq pend[j] \cup rows
        /\ \A r \in stamps'[j] : r \in stamps[j] \/ (r \in pend[j] /\ At(r.ref) \cap inbox' = {})

(* Every step hands out new UIDs only,                                     *)
LEMMA StepHands ==
    ASSUME ~Renumber, Types, MailInv, [Next]_vars PROVE Handed
<1>0. ~Renumber /\ nextUid \in Nat
  BY DEF MailInv, Shape
<1>1. ASSUME inbox' \subseteq inbox, UNCHANGED <<nextUid, delivered>> PROVE Handed
  BY <1>0, <1>1 DEF Handed
<1>2. ASSUME NEW k, inbox' = inbox \cup {k}, k.uid = nextUid, nextUid <= MaxUid,
             nextUid' = nextUid + 1, delivered \subseteq delivered',
             k.copy \/ (k.mail \notin delivered /\ k.mail \in delivered')
      PROVE  Handed
  <2>1. nextUid \in Uid /\ nextUid < nextUid' /\ nextUid' \in Nat
    BY <1>0, <1>2, ImapSyncAssumption DEF Uid, MailInv, Shape
  <2>2. \A i \in inbox' \ inbox : i = k
    BY <1>2
  <2>3. delivered \subseteq delivered' /\ nextUid <= nextUid'
    BY <1>0, <1>2
  <2>4. \A i \in inbox' \ inbox : i.uid = nextUid /\ i.uid \in Uid
                                 /\ (i.copy \/ (i.mail \notin delivered /\ i.mail \in delivered'))
    BY <1>2, <2>1, <2>2, Zenon
  <2> QED BY <2>1, <2>2, <2>3, <2>4 DEF Handed
<1>3. ASSUME NEW m \in Mail, Deliver(m) PROVE Handed
  <2> DEFINE k == [uid |-> nextUid, mail |-> m, copy |-> FALSE]
  <2>1. k.uid = nextUid /\ k.mail = m
    OBVIOUS
  <2>2. /\ inbox' = inbox \cup {k} /\ nextUid <= MaxUid /\ nextUid' = nextUid + 1
        /\ m \notin delivered /\ delivered' = delivered \cup {m}
    BY <1>3 DEF Deliver
  <2> HIDE DEF k
  <2> QED BY <1>2, <2>1, <2>2
<1>4. ASSUME NEW i \in inbox, Discard(i) PROVE Handed
  BY <1>1, <1>4 DEF Discard
<1>5. ASSUME NEW j \in Job, Append(j) PROVE Handed
  <2>1. CASE UNCHANGED server
    BY <1>1, <1>5, <2>1 DEF Append, server, history
  <2>2. CASE ~UNCHANGED server
    <3> DEFINE k == [uid |-> nextUid, mail |-> cur[j].mail, copy |-> TRUE]
    <3>1. k.uid = nextUid /\ k.copy
      OBVIOUS
    <3>2. /\ inbox' = inbox \cup {k} /\ nextUid <= MaxUid /\ nextUid' = nextUid + 1
          /\ delivered' = delivered
      BY <1>5, <2>2 DEF Append, history
    <3> HIDE DEF k
    <3> QED BY <1>2, <3>1, <3>2
  <2> QED BY <2>1, <2>2
<1>6. ASSUME NEW j \in Job, Quarantine(j) PROVE Handed
  BY <1>1, <1>6 DEF Quarantine, MoveAway, CopyAway, server, history
<1>7. ASSUME NEW j \in Job, Drop(j) PROVE Handed
  BY <1>1, <1>7 DEF Drop, history
<1>8. ASSUME NEW j \in Job, NEW r \in pend[j], RunRequested(j, r) PROVE Handed
  BY <1>1, <1>8 DEF RunRequested, MoveAway, server, history
<1>9. CASE UNCHANGED <<inbox, nextUid, delivered>>
  BY <1>1, <1>9
<1> QED
  BY <1>0, <1>3, <1>4, <1>5, <1>6, <1>7, <1>8, <1>9
     DEF Next, Step, Start, Fetch, FetchHistory, Skip, Analyse, Commit, Rewrite, Store, Mark, Fail,
         EndLoop, EndScan, Finish, Abort, Crash, Press, server, history, vars

(* works only on what was fetched,                                         *)
LEMMA StepTakes ==
    ASSUME ~Renumber, Types, MailInv, [Next]_vars PROVE Taken
<1>0. ~Renumber
  OBVIOUS
<1>1. CASE UNCHANGED <<pc, todo, cur>>
  BY <1>1 DEF Taken, Working
<1>2. CASE Crash
  BY <1>2 DEF Crash, Taken, Working
<1>3. ASSUME NEW j \in Job, Step(j) PROVE Taken
  <2>1. ASSUME \A k \in Job : k # j => pc'[k] = pc[k] /\ todo'[k] = todo[k] /\ cur'[k] = cur[k],
               todo'[j] \subseteq todo[j] \cup inbox,
               pc'[j] \in Working =>
                   \/ pc[j] \in Working /\ cur'[j] = cur[j]
                   \/ cur'[j] \in todo[j] /\ ~cur'[j].copy,
               pc'[j] = "mark" =>
                   /\ pc[j] \in Working /\ cur'[j] = cur[j]
                   /\ pc[j] = "mark" \/ At(cur[j].uid) \cap inbox' = {}
        PROVE  Taken
    BY <2>1 DEF Taken, Working
  <2> USE DEF Types, JobTypes, GoTo, Working
  <2>2. CASE Start(j)
    BY <2>1, <2>2 DEF Start
  <2>3. CASE Fetch(j)
    BY <2>1, <2>3, WantedIsInbox DEF Fetch
  <2>4. CASE FetchHistory(j)
    BY <2>1, <2>4 DEF FetchHistory
  <2>5. ASSUME NEW i \in todo[j], Skip(j, i) PROVE Taken
    BY <2>1, <2>5 DEF Skip
  <2>6. ASSUME NEW i \in todo[j], Analyse(j, i) PROVE Taken
    BY <2>1, <2>6 DEF Analyse
  <2>7. CASE Commit(j) \/ Rewrite(j) \/ Store(j) \/ Mark(j)
    BY <2>1, <2>7 DEF Commit, Rewrite, Store, Mark, Treatment, locals
  <2>8. CASE Quarantine(j)
    <3>1. /\ todo' = todo /\ cur' = cur /\ pc[j] = "act"
          /\ \/ pc' = [pc EXCEPT ![j] = "mark"] /\ inbox' = inbox \ At(cur[j].uid)
             \/ pc' = [pc EXCEPT ![j] = "swap"]
      BY <2>8 DEF Quarantine, MoveAway, locals
    <3> QED BY <2>1, <3>1
  <2>9. CASE Append(j) \/ Drop(j)
    BY <2>1, <2>9 DEF Append, Drop, Replaced, locals
  <2>10. CASE Fail(j)
    BY <2>1, <2>10 DEF Fail
  <2>11. CASE EndLoop(j) \/ EndScan(j) \/ Finish(j) \/ Abort(j)
    BY <2>1, <2>11 DEF EndLoop, EndScan, Finish, Abort, Clear
  <2>12. ASSUME NEW r \in pend[j], RunRequested(j, r) PROVE Taken
    BY <1>1, <2>12 DEF RunRequested
  <2> QED
    BY <1>3, <2>2, <2>3, <2>4, <2>5, <2>6, <2>7, <2>8, <2>9, <2>10, <2>11, <2>12 DEF Step
<1> QED
  BY <1>0, <1>1, <1>2, <1>3 DEF Next, Deliver, Discard, Press, locals, vars

(* Stamping and asking change nothing else of a row.                       *)
LEMMA RowFields ==
    ASSUME NEW r \in Row
    PROVE  /\ [r EXCEPT !.done = TRUE].mail = r.mail /\ [r EXCEPT !.done = TRUE].ref = r.ref
           /\ [r EXCEPT !.done = TRUE].done /\ [r EXCEPT !.done = TRUE].by = r.by
           /\ [r EXCEPT !.done = TRUE].asked = r.asked
           /\ [r EXCEPT !.asked = TRUE].mail = r.mail /\ [r EXCEPT !.asked = TRUE].ref = r.ref
           /\ [r EXCEPT !.asked = TRUE].done = r.done /\ [r EXCEPT !.asked = TRUE].asked
           /\ [r EXCEPT !.asked = TRUE].by = r.by
           /\ [r EXCEPT !.done = TRUE, !.asked = FALSE].mail = r.mail
           /\ [r EXCEPT !.done = TRUE, !.asked = FALSE].ref = r.ref
           /\ [r EXCEPT !.done = TRUE, !.asked = FALSE].by = r.by
           /\ [r EXCEPT !.done = TRUE, !.asked = FALSE].done
  BY DEF Row

(* keeps what each row is about,                                           *)
LEMMA StepMovesRows ==
    ASSUME Types, MailInv, StampsAreTrue, [Next]_vars PROVE RowsMove
<1>0. rows \subseteq Row
  BY DEF Types, DatabaseTypes
<1>1. CASE rows' = rows
  BY <1>1 DEF RowsMove
<1>2. ASSUME NEW j \in Job, Commit(j) \/ Store(j) PROVE RowsMove
  BY <1>2 DEF Commit, Store, RowsMove, Working
<1>3. ASSUME NEW j \in Job, Mark(j) PROVE RowsMove
  <2>1. Gone(cur[j].mail)
    BY <1>3 DEF Mark, StampsAreTrue
  <2>2. rows' = {IF r.mail = cur[j].mail /\ r.by = j THEN [r EXCEPT !.done = TRUE]
                 ELSE r : r \in rows}
    BY <1>3 DEF Mark
  <2> SUFFICES ASSUME NEW s \in rows'
               PROVE  \E r \in rows : /\ s.mail = r.mail /\ s.ref = r.ref
                                      /\ r.asked \/ r.done => s.asked \/ s.done
                                      /\ s.done => r.done \/ Gone(s.mail)
    BY DEF RowsMove
  <2>3. PICK r \in rows : s = IF r.mail = cur[j].mail /\ r.by = j THEN [r EXCEPT !.done = TRUE]
                              ELSE r
    BY <2>2
  <2>4. CASE r.mail = cur[j].mail /\ r.by = j
    BY <1>0, <2>1, <2>3, <2>4, RowFields
  <2>5. CASE ~(r.mail = cur[j].mail /\ r.by = j)
    BY <2>3, <2>5
  <2> QED BY <2>4, <2>5
<1>4. ASSUME NEW j \in Job, Finish(j) PROVE RowsMove
  <2> DEFINE Run(r) == \E x \in stamps[j] : x.mail = r.mail /\ x.by = r.by
  <2>1. \A r \in rows : Run(r) => Gone(r.mail)
    BY DEF StampsAreTrue
  <2>2. rows' = {IF Run(r) THEN [r EXCEPT !.done = TRUE, !.asked = FALSE] ELSE r : r \in rows}
    BY <1>4 DEF Finish, Done
  <2> HIDE DEF Run
  <2> SUFFICES ASSUME NEW s \in rows'
               PROVE  \E r \in rows : /\ s.mail = r.mail /\ s.ref = r.ref
                                      /\ r.asked \/ r.done => s.asked \/ s.done
                                      /\ s.done => r.done \/ Gone(s.mail)
    BY DEF RowsMove
  <2>3. PICK r \in rows : s = IF Run(r) THEN [r EXCEPT !.done = TRUE, !.asked = FALSE] ELSE r
    BY <2>2
  <2>4. CASE Run(r)
    BY <1>0, <2>1, <2>3, <2>4, RowFields
  <2>5. CASE ~Run(r)
    BY <2>3, <2>5
  <2> QED BY <2>4, <2>5
<1>5. ASSUME NEW p \in rows, Press(p) PROVE RowsMove
  <2>1. rows' = (rows \ {p}) \cup {[p EXCEPT !.asked = TRUE]}
    BY <1>5 DEF Press
  <2> SUFFICES ASSUME NEW s \in rows'
               PROVE  \E r \in rows : /\ s.mail = r.mail /\ s.ref = r.ref
                                      /\ r.asked \/ r.done => s.asked \/ s.done
                                      /\ s.done => r.done \/ Gone(s.mail)
    BY DEF RowsMove
  <2>2. CASE s \in rows
    BY <2>2
  <2>3. CASE s = [p EXCEPT !.asked = TRUE]
    BY <1>0, <2>3, RowFields
  <2> QED BY <2>1, <2>2, <2>3
<1> QED
  BY <1>1, <1>2, <1>3, <1>4, <1>5
     DEF Next, Step, Start, Fetch, FetchHistory, Skip, Analyse, Rewrite, Quarantine, Append, Drop,
         Fail, EndLoop, EndScan, Abort, RunRequested, Crash, Deliver, Renumber, Discard, database,
         vars

(* and runs only what was asked for.                                       *)
LEMMA StepMovesAsks ==
    ASSUME Types, [Next]_vars PROVE AsksMove
<1>1. CASE UNCHANGED <<pend, stamps>>
  BY <1>1 DEF AsksMove
<1>2. CASE Crash
  BY <1>2 DEF Crash, AsksMove
<1>3. ASSUME NEW j \in Job, EndScan(j) \/ Finish(j) \/ Abort(j) PROVE AsksMove
  BY <1>3 DEF EndScan, Finish, Abort, Clear, AsksMove, Types, JobTypes
<1>4. ASSUME NEW j \in Job, EndLoop(j) PROVE AsksMove
  BY <1>4 DEF EndLoop, Requested, AsksMove, Types, JobTypes
<1>5. ASSUME NEW j \in Job, NEW r \in pend[j], RunRequested(j, r) PROVE AsksMove
  <2>1. /\ pend' = [pend EXCEPT ![j] = pend[j] \ {r}]
        /\ \/ stamps' = stamps
           \/ stamps' = [stamps EXCEPT ![j] = stamps[j] \cup {r}] /\ At(r.ref) \cap inbox' = {}
    BY <1>5 DEF RunRequested, MoveAway
  <2> QED BY <2>1 DEF AsksMove, Types, JobTypes
<1> QED
  BY <1>1, <1>2, <1>3, <1>4, <1>5
     DEF Next, Step, Start, Fetch, FetchHistory, Skip, Analyse, Commit, Rewrite, Store, Mark,
         Quarantine, Append, Drop, Fail, Deliver, Renumber, Discard, Press, locals, vars


(* A UID goes on naming its message, and what has gone does not come back. *)
LEMMA NamesKept ==
    ASSUME Handed, NEW u, NEW m, Names(u, m), nextUid \in Nat
    PROVE  Names(u, m)'
<1>1. u \in Nat /\ u < nextUid /\ nextUid <= nextUid' /\ nextUid' \in Nat /\ m \in delivered'
  BY ImapSyncAssumption DEF Names, Handed, Uid
<1>2. u < nextUid'
  BY <1>1
<1>3. ASSUME NEW k \in inbox' PROVE k.uid = u <=> ~k.copy /\ k.mail = m
  <2>1. CASE k \in inbox
    BY <2>1 DEF Names
  <2>2. CASE k \notin inbox
    <3>1. k.uid = nextUid /\ (k.copy \/ k.mail \notin delivered)
      BY <2>2 DEF Handed
    <3> QED BY <1>1, <3>1 DEF Names
  <2> QED BY <2>1, <2>2
<1> QED BY <1>1, <1>2, <1>3 DEF Names

(* An original that has gone does not come back.                           *)
LEMMA GoneKept ==
    ASSUME Handed, NEW m \in delivered, Gone(m) PROVE Gone(m)'
  BY DEF Handed, Gone

(* The original the folder no longer holds under its UID has gone.         *)
LEMMA LetGo ==
    ASSUME Handed, NEW u, NEW m, Names(u, m), At(u) \cap inbox' = {}
    PROVE  Gone(m)'
<1>1. ASSUME NEW k \in inbox', k.mail = m PROVE k.copy
  <2>1. CASE k \in inbox
    BY <1>1, <2>1 DEF Names, At
  <2>2. CASE k \notin inbox
    BY <1>1, <2>2 DEF Names, Handed
  <2> QED BY <2>1, <2>2
<1> QED BY <1>1 DEF Gone

(* Nothing is asked for at the start.                                      *)
LEMMA InitRequests == Init => RequestInv
  BY DEF Init, RequestInv, OriginalsNamed, RowsNamed, StampsAreTrue, AskedUntilDone,
         StampedMeansGone, Working

(* UIDs keep naming what they named, and stamps stay true.                 *)
LEMMA RequestsKept ==
    ASSUME RequestInv, MailInv, Handed, Taken, RowsMove, AsksMove PROVE RequestInv'
<1>0. nextUid \in Nat
  BY DEF MailInv, Shape
<1>1. ASSUME NEW i \in inbox', ~i.copy PROVE Names(i.uid, i.mail)'
  <2>1. CASE i \in inbox
    BY <1>0, <1>1, <2>1, NamesKept DEF RequestInv, OriginalsNamed
  <2>2. CASE i \notin inbox
    <3>1. /\ i.uid = nextUid /\ nextUid < nextUid' /\ i.uid \in Uid
          /\ i.mail \notin delivered /\ i.mail \in delivered'
      BY <1>1, <2>2 DEF Handed
    <3>2. ASSUME NEW k \in inbox' PROVE k.uid = i.uid <=> ~k.copy /\ k.mail = i.mail
      <4>1. CASE k \in inbox
        <5>1. k.uid \in Uid /\ k.uid < nextUid
          BY <4>1 DEF MailInv, InboxKnown, Known, Shape, Item
        <5>2. k.uid # i.uid
          BY <1>0, <3>1, <5>1, ImapSyncAssumption DEF Uid
        <5>3. ~(~k.copy /\ k.mail = i.mail)
          BY <3>1, <4>1 DEF RequestInv, OriginalsNamed, Names
        <5> QED BY <5>2, <5>3
      <4>2. CASE k \notin inbox
        <5>1. k = i
          BY <2>2, <4>2 DEF Handed
        <5> QED BY <1>1, <5>1
      <4> QED BY <4>1, <4>2
    <3> QED BY <3>1, <3>2 DEF Names
  <2> QED BY <2>1, <2>2
<1>2. ASSUME NEW j \in Job, NEW i \in todo'[j], ~i.copy PROVE Names(i.uid, i.mail)'
  <2>1. i \in todo[j] \/ i \in inbox
    BY DEF Taken
  <2> QED BY <1>0, <1>2, <2>1, NamesKept DEF RequestInv, OriginalsNamed
<1>3. ASSUME NEW j \in Job, pc'[j] \in Working,
             NEW u, NEW m, u = cur'[j].uid, m = cur'[j].mail
      PROVE  Names(u, m)'
  <2>1. \/ pc[j] \in Working /\ cur'[j] = cur[j]
        \/ cur'[j] \in todo[j] /\ ~cur'[j].copy
    BY <1>3 DEF Taken
  <2>2. Names(u, m)
    BY <1>3, <2>1 DEF RequestInv, OriginalsNamed
  <2> QED BY <1>0, <2>2, NamesKept
<1>4. OriginalsNamed'
  <2>1. \A j \in Job : pc'[j] \in Working => Names(cur[j].uid, cur[j].mail)'
    BY <1>3 DEF Names
  <2> QED BY <1>1, <1>2, <2>1 DEF OriginalsNamed
<1>5. \A j \in Job : pc[j] \in Working =>
        Names(cur[j].uid, cur[j].mail)
        /\ StoredRow(j).mail = cur[j].mail /\ StoredRow(j).ref = cur[j].uid
  BY DEF RequestInv, OriginalsNamed, StoredRow
<1>6. ASSUME NEW s \in rows' PROVE Names(s.ref, s.mail)
  <2>1. CASE \E r \in rows : s.mail = r.mail /\ s.ref = r.ref
    BY <2>1 DEF RequestInv, RowsNamed
  <2>2. CASE \E j \in Job : pc[j] \in Working /\ s = StoredRow(j)
    BY <1>5, <2>2
  <2> QED BY <2>1, <2>2 DEF RowsMove
<1>7. ASSUME NEW j \in Job, NEW r \in pend'[j] \cup stamps'[j] PROVE Names(r.ref, r.mail)
  BY <1>7 DEF AsksMove, RequestInv, RowsNamed
<1>8. RowsNamed'
  BY <1>0, <1>6, <1>7, NamesKept DEF RowsNamed
<1>9. StampsAreTrue'
  <2>1. ASSUME NEW j \in Job, NEW r \in stamps'[j] PROVE Gone(r.mail)'
    <3>1. CASE r \in stamps[j]
      <4>1. r.mail \in delivered /\ Gone(r.mail)
        BY <3>1 DEF RequestInv, RowsNamed, StampsAreTrue, Names
      <4> QED BY <4>1, GoneKept
    <3>2. CASE r \in pend[j] /\ At(r.ref) \cap inbox' = {}
      <4>1. Names(r.ref, r.mail)
        BY <3>2 DEF RequestInv, RowsNamed
      <4> QED BY <3>2, <4>1, LetGo
    <3> QED BY <3>1, <3>2 DEF AsksMove
  <2>2. ASSUME NEW j \in Job, pc'[j] = "mark", NEW u, NEW m, u = cur[j].uid, m = cur[j].mail
        PROVE  Gone(m)' /\ cur'[j].mail = m
    <3>1. /\ pc[j] \in Working /\ cur'[j] = cur[j]
          /\ pc[j] = "mark" \/ At(u) \cap inbox' = {}
      BY <2>2 DEF Taken
    <3>2. Names(u, m)
      BY <1>5, <2>2, <3>1
    <3>3. CASE pc[j] = "mark"
      <4>1. Gone(m) /\ m \in delivered
        BY <2>2, <3>2, <3>3 DEF RequestInv, StampsAreTrue, Names
      <4> QED BY <2>2, <3>1, <4>1, GoneKept
    <3>4. CASE At(u) \cap inbox' = {}
      BY <2>2, <3>1, <3>2, <3>4, LetGo
    <3> QED BY <3>1, <3>3, <3>4
  <2>3. \A j \in Job : pc'[j] = "mark" => Gone(cur[j].mail)'
    BY <2>2 DEF Gone
  <2> QED BY <2>1, <2>3 DEF StampsAreTrue
<1>10. AskedUntilDone'
  <2> SUFFICES ASSUME NEW s \in rows', AutoRemove, Protected, s.mail \in Critical
               PROVE  s.asked \/ s.done
    BY DEF AskedUntilDone
  <2>1. ASSUME NEW r \in rows, s.mail = r.mail, r.asked \/ r.done => s.asked \/ s.done
        PROVE  s.asked \/ s.done
    BY <2>1 DEF RequestInv, AskedUntilDone
  <2>2. ASSUME NEW j \in Job, s = StoredRow(j) PROVE s.asked
    <3>1. s.mail = cur[j].mail
      BY <2>2 DEF StoredRow
    <3>2. s.asked = (AutoRemove /\ Protected /\ cur[j].mail \in Critical)
      BY <2>2 DEF StoredRow
    <3> QED BY <3>1, <3>2
  <2> QED BY <2>1, <2>2 DEF RowsMove
<1>11. StampedMeansGone'
  <2>1. ASSUME NEW s \in rows', s.done PROVE Gone(s.mail) /\ s.mail \in delivered
    <3>1. Names(s.ref, s.mail)
      BY <1>6
    <3>2. CASE \E r \in rows : s.mail = r.mail /\ (s.done => r.done \/ Gone(s.mail))
      BY <2>1, <3>1, <3>2 DEF RequestInv, StampedMeansGone, Gone, Names
    <3>3. CASE \E j \in Job : s = StoredRow(j)
      BY <2>1, <3>3 DEF StoredRow
    <3> QED BY <3>1, <3>2, <3>3 DEF RowsMove, Names
  <2>2. ASSUME NEW s \in rows', s.done PROVE Gone(s.mail)'
    BY <2>1, <2>2, GoneKept
  <2> QED BY <2>2 DEF StampedMeansGone, Gone
<1> QED BY <1>4, <1>8, <1>9, <1>10, <1>11 DEF RequestInv

(* A removal that is asked for stays asked for until it is carried out.    *)
LEMMA RequestsDurable == RequestInv => AutoQueueDurable /\ StampedMeansGone
<1> SUFFICES ASSUME RequestInv PROVE AutoQueueDurable
  BY DEF RequestInv
<1> SUFFICES ASSUME NEW i \in inbox, AutoRemove, Protected, ~i.copy, i.mail \in Critical,
                    Stored(i.mail)
             PROVE  \E r \in rows : r.mail = i.mail /\ r.asked /\ ~r.done
  BY DEF AutoQueueDurable
<1>1. PICK r \in rows : r.mail = i.mail
  BY DEF Stored
<1>2. ~r.done
  BY <1>1 DEF RequestInv, StampedMeansGone
<1>3. r.asked
  BY <1>1, <1>2 DEF RequestInv, AskedUntilDone
<1> QED BY <1>1, <1>2, <1>3


(* A fetch returns the whole folder: it is never larger than the limits.   *)
FolderFits == MaxUid <= Limit /\ MaxUid <= FirstTail

(* The newest n of at most n items are all of them.                        *)
LEMMA NewestIsAll ==
    ASSUME Types, MailInv, NEW n \in Nat, MaxUid <= n, NEW items \in SUBSET inbox
    PROVE  Newest(items, n) = items
<1> SUFFICES ASSUME NEW i \in items
             PROVE  Cardinality({k \in items : k.uid > i.uid}) < n
  BY DEF Newest
<1> DEFINE S == {k \in items : k.uid > i.uid}
           T == (i.uid + 1)..MaxUid
           f == [k \in S |-> k.uid]
<1>1. i.uid \in 1..MaxUid /\ \A k \in items : k.uid \in 1..MaxUid
  BY DEF Types, ServerTypes, Item, Uid
<1>2. \A k, l \in items : k.uid = l.uid => k = l
  BY DEF MailInv, InboxKnown, Known
<1>3. f \in Injection(S, T)
  <2>1. \A k \in S : k.uid \in T
    BY <1>1, ImapSyncAssumption
  <2>2. S \subseteq items
    OBVIOUS
  <2> HIDE DEF S, T
  <2>3. f \in [S -> T] /\ \A k, l \in S : f[k] = f[l] => k = l
    BY <1>2, <2>1, <2>2
  <2> HIDE DEF f
  <2> QED BY <2>3 DEF Injection, IsInjective
<1>4. IsFiniteSet(T) /\ Cardinality(T) <= MaxUid - i.uid
  <2>1. i.uid + 1 \in Int /\ MaxUid \in Int
    BY <1>1, ImapSyncAssumption
  <2>2. /\ IsFiniteSet(T)
        /\ Cardinality(T) = IF i.uid + 1 > MaxUid THEN 0 ELSE MaxUid - (i.uid + 1) + 1
    BY <2>1, FS_Interval
  <2> HIDE DEF T
  <2> QED BY <1>1, <2>1, <2>2
<1>5. IsFiniteSet(S) /\ Cardinality(S) <= Cardinality(T)
  <2> HIDE DEF f, S, T
  <2> QED BY <1>3, <1>4, FS_Injection
<1>6. Cardinality(S) \in Nat /\ Cardinality(T) \in Nat
  BY <1>4, <1>5, FS_CardinalityType
<1> HIDE DEF S, T
<1>7. Cardinality(S) < n
  BY <1>1, <1>4, <1>5, <1>6, ImapSyncAssumption
<1> QED BY <1>7 DEF S

(* So a fetch returns everything above the cursor it goes by.              *)
LEMMA WantedIsAll ==
    ASSUME FolderFits, Types, MailInv, NEW j \in Job
    PROVE  Wanted(j) = IF Base(j) = NoUid THEN inbox ELSE {i \in inbox : i.uid > Base(j)}
<1>1. Newest(inbox, FirstTail) = inbox /\ Newest(inbox, Limit) = inbox
  BY NewestIsAll, ImapSyncAssumption DEF FolderFits
<1>2. Newest({i \in inbox : i.uid > Base(j)}, Limit) = {i \in inbox : i.uid > Base(j)}
  BY NewestIsAll, ImapSyncAssumption DEF FolderFits
<1> QED BY <1>1, <1>2 DEF Wanted

(* What was looked at stays so.                                            *)
SeenStays == gaveUp \subseteq gaveUp' /\ \A r \in rows : \E s \in rows' : s.mail = r.mail

(* No step forgets a row or that a message was given up on.                *)
LEMMA StepKeepsSeen == ASSUME Types, [Next]_vars PROVE SeenStays
<1>0. rows \subseteq Row
  BY DEF Types, DatabaseTypes
<1>1. CASE rows \subseteq rows' /\ gaveUp \subseteq gaveUp'
  BY <1>1 DEF SeenStays
<1>2. ASSUME NEW j \in Job, Mark(j) PROVE SeenStays
  <2>1. /\ gaveUp' = gaveUp
        /\ rows' = {IF r.mail = cur[j].mail /\ r.by = j THEN [r EXCEPT !.done = TRUE]
                    ELSE r : r \in rows}
    BY <1>2 DEF Mark, history
  <2>2. ASSUME NEW r \in rows PROVE \E s \in rows' : s.mail = r.mail
    <3>1. CASE r.mail = cur[j].mail /\ r.by = j
      <4>1. [r EXCEPT !.done = TRUE] \in rows'
        BY <2>1, <3>1
      <4>2. [r EXCEPT !.done = TRUE].mail = r.mail
        BY <1>0, RowFields
      <4> QED BY <4>1, <4>2
    <3>2. CASE ~(r.mail = cur[j].mail /\ r.by = j)
      BY <2>1, <3>2
    <3> QED BY <3>1, <3>2
  <2> QED BY <2>1, <2>2 DEF SeenStays
<1>3. ASSUME NEW j \in Job, Finish(j) PROVE SeenStays
  <2> DEFINE Run(r) == \E x \in stamps[j] : x.mail = r.mail /\ x.by = r.by
  <2>1. /\ gaveUp' = gaveUp
        /\ rows' = {IF Run(r) THEN [r EXCEPT !.done = TRUE, !.asked = FALSE] ELSE r : r \in rows}
    BY <1>3 DEF Finish, Done, history
  <2> HIDE DEF Run
  <2>2. ASSUME NEW r \in rows PROVE \E s \in rows' : s.mail = r.mail
    <3>1. CASE Run(r)
      <4>1. [r EXCEPT !.done = TRUE, !.asked = FALSE] \in rows'
        BY <2>1, <3>1
      <4>2. [r EXCEPT !.done = TRUE, !.asked = FALSE].mail = r.mail
        BY <1>0, RowFields
      <4> QED BY <4>1, <4>2
    <3>2. CASE ~Run(r)
      BY <2>1, <3>2
    <3> QED BY <3>1, <3>2
  <2> QED BY <2>1, <2>2 DEF SeenStays
<1>4. ASSUME NEW p \in rows, Press(p) PROVE SeenStays
  <2>1. rows' = (rows \ {p}) \cup {[p EXCEPT !.asked = TRUE]} /\ gaveUp' = gaveUp
    BY <1>4 DEF Press
  <2>2. [p EXCEPT !.asked = TRUE].mail = p.mail
    BY <1>0, RowFields
  <2> QED BY <2>1, <2>2 DEF SeenStays
<1> QED
  BY <1>1, <1>2, <1>3, <1>4
     DEF Next, Step, Start, Fetch, FetchHistory, Skip, Analyse, Commit, Store, Rewrite, Quarantine,
         Append, Drop, Fail, EndLoop, EndScan, Abort, RunRequested, Crash, Deliver, Renumber,
         Discard, database, history, vars

(* Mail that was looked at stays looked at.                                *)
LEMMA SeenKept == ASSUME SeenStays, NEW i, Seen(i) PROVE Seen(i)'
  BY DEF SeenStays, Seen, Stored

(* Nothing new arrives at or below a UID that was handed out.              *)
LEMMA CoveredKept ==
    ASSUME Handed, SeenStays, nextUid \in Nat, NEW u \in Int, u < nextUid, Covered(u)
    PROVE  Covered(u)' /\ u < nextUid'
<1>1. u < nextUid'
  BY DEF Handed
<1>2. ASSUME NEW i \in inbox', ~i.copy, i.uid <= u PROVE Seen(i)'
  <2>1. i \in inbox
    BY <1>2 DEF Handed
  <2> QED BY <1>2, <2>1, SeenKept DEF Covered
<1> QED BY <1>1, <1>2 DEF Covered

(* A job that does not move keeps what it knows.                           *)
LEMMA JobWaits ==
    ASSUME Types, CursorInv, Handed, SeenStays, nextUid \in Nat, epoch' = epoch, NEW k \in Job,
           pc'[k] = pc[k], since'[k] = since[k], highest'[k] = highest[k], retry'[k] = retry[k],
           seenEpoch'[k] = seenEpoch[k], todo'[k] = todo[k], cur'[k] = cur[k]
    PROVE  JobInv(k)'
<1>0. JobInv(k) /\ since[k] \in Int /\ highest[k] \in Int
  BY ImapSyncAssumption DEF CursorInv, Types, JobTypes
<1>1. Starts(k)'
  <2>1. CASE pc[k] = "fetch"
    <3>1. Covered(since[k]) /\ since[k] < nextUid
      BY <1>0, <2>1 DEF JobInv, Starts
    <3>2. \A u : u = since[k] => Covered(u)' /\ u < nextUid'
      BY <1>0, <3>1, CoveredKept
    <3>3. Covered(since[k])' /\ since'[k] < nextUid'
      BY <3>2 DEF Covered
    <3> QED BY <1>0, <2>1, <3>3 DEF JobInv, Starts
  <2>2. CASE pc[k] # "fetch"
    BY <2>2 DEF Starts
  <2> QED BY <2>1, <2>2
<1>2. Passes(k)'
  <2> SUFFICES ASSUME pc[k] \notin {"idle", "fetch"}, k \notin Scan
               PROVE  Passed(k)' /\ highest[k] < nextUid' /\ seenEpoch[k] = epoch
    BY DEF Passes
  <2>1. Passed(k) /\ highest[k] < nextUid /\ seenEpoch[k] = epoch
    BY <1>0 DEF JobInv, Passes
  <2>2. highest[k] < nextUid'
    BY <1>0, <2>1 DEF Handed
  <2>3. ASSUME NEW i \in inbox', ~i.copy, i.uid <= highest[k] PROVE Seen(i)' \/ Ahead(k, i)'
    <3>1. i \in inbox
      BY <1>0, <2>1, <2>3 DEF Handed
    <3>2. Seen(i) \/ Ahead(k, i)
      BY <2>1, <2>3, <3>1 DEF Passed
    <3> QED BY <3>2, SeenKept DEF Ahead
  <2> QED BY <2>1, <2>2, <2>3 DEF Passed
<1>3. Treats(k)'
  BY <1>0 DEF JobInv, Treats, Stored, SeenStays
<1> QED BY <1>1, <1>2, <1>3 DEF JobInv

(* There is no cursor at the start.                                        *)
LEMMA InitCursor == Init => CursorInv
  BY ImapSyncAssumption
     DEF Init, CursorInv, CursorCovered, JobInv, Starts, Passes, Treats, Covered, NoUid, NoEpoch


(* A job that has started: where it is afterwards decides what is left.    *)
LEMMA JobGoesOn ==
    ASSUME CursorInv, Types, NEW j \in Job, Handed, SeenStays, nextUid \in Nat, epoch' = epoch,
           pc[j] \notin {"idle", "fetch"}, pc'[j] \notin {"idle", "fetch"},
           highest'[j] = highest[j], seenEpoch'[j] = seenEpoch[j],
           \A i \in inbox \cap inbox' :
               ~i.copy /\ Ahead(j, i) /\ j \notin Scan => Seen(i)' \/ Ahead(j, i)',
           Treats(j)'
    PROVE  JobInv(j)'
<1>1. Starts(j)'
  BY DEF Starts
<1>2. Passes(j)'
  <2> SUFFICES ASSUME j \notin Scan
               PROVE  Passed(j)' /\ highest[j] < nextUid' /\ seenEpoch[j] = epoch
    BY DEF Passes
  <2>1. Passed(j) /\ highest[j] < nextUid /\ seenEpoch[j] = epoch /\ highest[j] \in Int
    BY ImapSyncAssumption DEF CursorInv, JobInv, Passes, Types, JobTypes
  <2>2. highest[j] < nextUid'
    BY <2>1 DEF Handed
  <2>3. ASSUME NEW i \in inbox', ~i.copy, i.uid <= highest[j] PROVE Seen(i)' \/ Ahead(j, i)'
    <3>1. i \in inbox
      BY <2>1, <2>3 DEF Handed
    <3>2. Seen(i) \/ Ahead(j, i)
      BY <2>1, <2>3, <3>1 DEF Passed
    <3> QED BY <2>3, <3>1, <3>2, SeenKept
  <2> QED BY <2>1, <2>2, <2>3 DEF Passed
<1> QED BY <1>1, <1>2 DEF JobInv

(* What job j is at, after it has moved on from its current message.       *)
LEMMA MovesOn ==
    ASSUME NEW j \in Job, todo' = todo, retry' = retry, cur' = cur,
           pc[j] \in Working, Seen(cur[j])' \/ cur[j] \notin inbox' \/ pc'[j] \in Working,
           NEW i \in inbox', Ahead(j, i)
    PROVE  Seen(i)' \/ Ahead(j, i)'
  BY DEF Ahead, Seen

(* A job starts from the stored cursor.                                    *)
LEMMA StartPasses ==
    ASSUME Types, MailInv, CursorInv, NEW j \in Job, Start(j) PROVE JobInv(j)'
<1>1. /\ pc'[j] = "fetch" /\ since'[j] = cursor /\ seenEpoch'[j] = cursorEpoch
      /\ UNCHANGED <<inbox, nextUid, epoch, rows, gaveUp>>
  BY DEF Start, GoTo, Types, JobTypes, server, database, history
<1>2. Starts(j)'
  BY <1>1 DEF CursorInv, CursorCovered, Starts, Covered, Seen, Stored
<1> QED BY <1>1, <1>2 DEF JobInv, Passes, Treats

(* A fetch takes in everything above it.                                   *)
LEMMA FetchPasses ==
    ASSUME FolderFits, Types, MailInv, CursorInv, NEW j \in Job, Fetch(j) PROVE JobInv(j)'
<1>1. /\ pc'[j] = "loop" /\ seenEpoch'[j] = epoch /\ todo'[j] = Wanted(j)
      /\ highest'[j] = IF Wanted(j) = {} THEN Base(j) ELSE HighestUid(Wanted(j))
      /\ UNCHANGED <<inbox, nextUid, epoch, rows, gaveUp>>
      /\ pc[j] = "fetch" /\ j \notin Scan
  BY DEF Fetch, GoTo, Types, JobTypes, server, database, history
<1>2. /\ Covered(since[j]) /\ since[j] < nextUid
      /\ seenEpoch[j] \in {NoEpoch, epoch} /\ (seenEpoch[j] = NoEpoch => since[j] = NoUid)
  BY <1>1 DEF CursorInv, JobInv, Starts
<1>3. Base(j) = since[j]
  BY <1>2 DEF Base
<1>4. Wanted(j) = IF since[j] = NoUid THEN inbox ELSE {i \in inbox : i.uid > since[j]}
  BY <1>3, WantedIsAll
<1>5. highest'[j] < nextUid
  <2>1. CASE Wanted(j) = {}
    BY <1>1, <1>2, <1>3, <2>1
  <2>2. CASE Wanted(j) # {}
    <3>1. Wanted(j) \in SUBSET Item
      BY WantedIsInbox DEF Types, ServerTypes
    <3>2. HighestUid(Wanted(j)) \in {i.uid : i \in Wanted(j)}
      BY <2>2, <3>1, HighestIsOne
    <3>3. \A i \in Wanted(j) : i.uid < nextUid
      BY WantedIsInbox DEF MailInv, InboxKnown, Known
    <3> QED BY <1>1, <2>2, <3>2, <3>3
  <2> QED BY <2>1, <2>2
<1>6. ASSUME NEW i \in inbox, ~i.copy PROVE Seen(i) \/ i \in Wanted(j)
  <2>1. i.uid \in Int /\ since[j] \in Int
    BY ImapSyncAssumption DEF Types, ServerTypes, JobTypes, Item, Uid
  <2>2. CASE i.uid <= since[j]
    BY <1>2, <1>6, <2>2 DEF Covered
  <2>3. CASE i.uid > since[j]
    BY <1>4, <2>3
  <2> QED BY <2>1, <2>2, <2>3
<1>7. Passed(j)'
  BY <1>1, <1>6 DEF Passed, Ahead, Seen, Stored
<1> QED BY <1>1, <1>5, <1>7 DEF JobInv, Starts, Passes, Treats

(* What is done to a message once its row is stored; a scan does nothing.  *)
LEMMA TreatmentIs ==
    ASSUME NEW j \in Job
    PROVE  /\ Treatment(j) \in {"loop", "act", "swap"}
           /\ j \in Scan => Treatment(j) = "loop"
<1>1. CASE j \in Scan \/ ~Protected
  BY <1>1 DEF Treatment
<1>2. CASE ~(j \in Scan \/ ~Protected)
  <2>1. CASE cur[j].mail \in Critical
    BY <1>2, <2>1, ImapSyncAssumption DEF Treatment
  <2>2. CASE cur[j].mail \notin Critical /\ cur[j].mail \in Flagged \cup Linked
    BY <1>2, <2>2 DEF Treatment
  <2>3. CASE cur[j].mail \notin Critical /\ cur[j].mail \notin Flagged \cup Linked
    BY <1>2, <2>3 DEF Treatment
  <2> QED BY <2>1, <2>2, <2>3
<1> QED BY <1>1, <1>2

(* A job looks at its messages, stores their rows, and treats them.        *)
LEMMA MessagePasses ==
    ASSUME Types, MailInv, RequestInv, CursorInv, Handed, SeenStays, NEW j \in Job,
           \/ \E i \in todo[j] : Skip(j, i) \/ Analyse(j, i)
           \/ Commit(j) \/ Rewrite(j) \/ Store(j) \/ Mark(j)
    PROVE  JobInv(j)'
<1> USE DEF Types, JobTypes
<1>0. nextUid \in Nat /\ JobInv(j) /\ epoch' = epoch
  BY DEF MailInv, Shape, CursorInv, Skip, Analyse, Commit, Rewrite, Store, Mark, server
<1>1. ASSUME NEW i \in todo[j], Skip(j, i) PROVE JobInv(j)'
  <2>1. /\ todo'[j] = todo[j] \ {i} /\ pc' = pc /\ pc[j] = "loop" /\ (i.copy \/ Stored(i.mail))
        /\ UNCHANGED <<inbox, highest, seenEpoch, retry, cur, rows, gaveUp>>
    BY <1>1 DEF Skip, server, database, history
  <2>2. \A k \in inbox : ~k.copy /\ Ahead(j, k) => Seen(k)' \/ Ahead(j, k)'
    BY <2>1 DEF Ahead, Seen, Stored
  <2>3. Treats(j)'
    BY <1>0, <2>1 DEF JobInv, Treats
  <2> QED BY <1>0, <2>1, <2>2, <2>3, JobGoesOn
<1>2. ASSUME NEW i \in todo[j], Analyse(j, i) PROVE JobInv(j)'
  <2>1. /\ todo'[j] = todo[j] \ {i} /\ pc'[j] = "read" /\ pc[j] = "loop" /\ cur'[j] = i
        /\ UNCHANGED <<inbox, highest, seenEpoch, retry, rows, gaveUp>>
    BY <1>2 DEF Analyse, GoTo, server, database, history
  <2>2. ASSUME NEW k \in inbox, ~k.copy, Ahead(j, k) PROVE Seen(k)' \/ Ahead(j, k)'
    <3>1. pc'[j] \in Working /\ pc[j] \notin Working
      BY <2>1 DEF Working
    <3>2. CASE k = i
      BY <2>1, <3>1, <3>2 DEF Ahead
    <3>3. CASE k # i
      BY <2>1, <2>2, <3>1, <3>3 DEF Ahead
    <3> QED BY <3>2, <3>3
  <2>3. Treats(j)'
    BY <1>0, <2>1 DEF JobInv, Treats
  <2> QED BY <1>0, <2>1, <2>2, <2>3, JobGoesOn
<1>3. CASE Commit(j) \/ Store(j)
  <2>1. /\ rows' = rows \cup {StoredRow(j)} /\ pc[j] \in {"read", "store"}
        /\ UNCHANGED <<inbox, highest, seenEpoch, retry, todo, cur>>
    BY <1>3 DEF Commit, Store, server, locals
  <2>2. pc'[j] \in {"loop", "act", "swap"} /\ (j \in Scan => pc'[j] = "loop")
    <3>1. CASE Commit(j)
      <4>1. pc'[j] = Treatment(j)
        BY <3>1 DEF Commit, GoTo
      <4> QED BY <4>1, TreatmentIs
    <3>2. CASE Store(j)
      BY <3>2 DEF Store, GoTo
    <3> QED BY <1>3, <3>1, <3>2
  <2>3. Stored(cur[j].mail)'
    <3>1. StoredRow(j) \in rows' /\ StoredRow(j).mail = cur[j].mail
      BY <2>1 DEF StoredRow
    <3> QED BY <2>1, <3>1 DEF Stored
  <2>4. \A k \in inbox : Ahead(j, k) => Seen(k)' \/ Ahead(j, k)'
    BY <2>1, <2>3, MovesOn DEF Working, Seen
  <2>5. Treats(j)'
    BY <2>2, <2>3 DEF Treats
  <2> QED BY <1>0, <2>1, <2>2, <2>4, <2>5, JobGoesOn
<1>4. CASE Rewrite(j)
  <2>1. /\ pc[j] = "read" /\ pc'[j] = "swap" /\ cur[j].mail \in Linked /\ Treatment(j) = "swap"
        /\ UNCHANGED <<inbox, highest, seenEpoch, retry, todo, cur>>
    BY <1>4 DEF Rewrite, GoTo, server, locals
  <2>2. j \notin Scan
    BY <2>1, TreatmentIs
  <2>3. \A k \in inbox : Ahead(j, k) => Seen(k)' \/ Ahead(j, k)'
    BY <2>1, MovesOn DEF Working
  <2>4. Treats(j)'
    BY <2>1, <2>2 DEF Treats
  <2> QED BY <1>0, <2>1, <2>3, <2>4, JobGoesOn
<1>5. CASE Mark(j)
  <2>1. /\ pc[j] = "mark" /\ pc'[j] = "loop"
        /\ UNCHANGED <<inbox, highest, seenEpoch, retry, todo, cur>>
    BY <1>5 DEF Mark, GoTo, server, locals
  <2>2. cur[j] \notin inbox
    <3>1. Gone(cur[j].mail) /\ ~cur[j].copy
      BY <2>1, CurrentIsItem DEF RequestInv, StampsAreTrue, Working
    <3> QED BY <3>1 DEF Gone
  <2>3. \A k \in inbox : Ahead(j, k) => Seen(k)' \/ Ahead(j, k)'
    BY <2>1, <2>2, MovesOn DEF Working
  <2>4. Treats(j)'
    BY <2>1 DEF Treats
  <2> QED BY <1>0, <2>1, <2>3, <2>4, JobGoesOn
<1> QED BY <1>1, <1>2, <1>3, <1>4, <1>5

(* The commands sent to the mail server leave the rows alone.              *)
LEMMA CommandPasses ==
    ASSUME Types, MailInv, CursorInv, Handed, SeenStays, NEW j \in Job,
           \/ Quarantine(j) \/ Append(j) \/ Drop(j)
           \/ \E r \in pend[j] : RunRequested(j, r)
    PROVE  JobInv(j)'
<1> USE DEF Types, JobTypes
<1>0. nextUid \in Nat /\ JobInv(j) /\ epoch' = epoch
  BY DEF MailInv, Shape, CursorInv, Quarantine, MoveAway, CopyAway, Append, Drop, RunRequested,
         server
<1>1. CASE Quarantine(j)
  <2>1. /\ pc[j] = "act" /\ pc'[j] \in {"mark", "swap"} /\ j \notin Scan
        /\ UNCHANGED <<highest, seenEpoch, retry, todo, cur, rows>>
    BY <1>0, <1>1 DEF Quarantine, GoTo, locals, database, JobInv, Treats
  <2>2. \A k \in inbox' : Ahead(j, k) => Seen(k)' \/ Ahead(j, k)'
    BY <2>1, MovesOn DEF Working
  <2>3. Treats(j)'
    BY <1>0, <2>1 DEF JobInv, Treats, Stored
  <2> QED BY <1>0, <2>1, <2>2, <2>3, JobGoesOn
<1>2. CASE Append(j) \/ Drop(j)
  <2>1. /\ pc[j] \in {"swap", "drop"} /\ j \notin Scan
        /\ pc'[j] \in {"drop", "store", "loop"}
        /\ pc'[j] = "loop" => cur[j].mail \notin Linked
        /\ UNCHANGED <<highest, seenEpoch, retry, todo, cur, rows, gaveUp>>
    BY <1>0, <1>2 DEF Append, Drop, Replaced, GoTo, locals, database, history, JobInv, Treats
  <2>2. cur[j].mail \notin Linked => Stored(cur[j].mail)
    BY <1>0, <2>1 DEF JobInv, Treats
  <2>3. pc'[j] = "loop" => Seen(cur[j])'
    BY <2>1, <2>2 DEF Seen, Stored
  <2>4. \A k \in inbox' : Ahead(j, k) => Seen(k)' \/ Ahead(j, k)'
    BY <2>1, <2>3, MovesOn DEF Working
  <2>5. Treats(j)'
    BY <2>1, <2>2 DEF Treats, Stored
  <2> QED BY <1>0, <2>1, <2>4, <2>5, JobGoesOn
<1>3. ASSUME NEW r \in pend[j], RunRequested(j, r) PROVE JobInv(j)'
  BY <1>0, <1>3, JobWaits DEF RunRequested, database
<1> QED BY <1>1, <1>2, <1>3

(* A message that failed gets another poll, or is given up on.             *)
LEMMA FailPasses ==
    ASSUME Types, MailInv, CursorInv, Handed, SeenStays, NEW j \in Job, Fail(j) PROVE JobInv(j)'
<1> USE DEF Types, JobTypes
<1>0. nextUid \in Nat /\ JobInv(j) /\ epoch' = epoch
  BY DEF MailInv, Shape, CursorInv, Fail, server
<1>1. /\ pc'[j] = "loop" /\ pc[j] \in {"read", "act", "swap", "mark", "store"}
      /\ UNCHANGED <<inbox, highest, seenEpoch, todo, cur, rows>>
  BY DEF Fail, GoTo, server, database
<1>2. Treats(j)'
  BY <1>1 DEF Treats
<1>3. ASSUME j \notin Scan, NEW i \in inbox, Ahead(j, i) PROVE Seen(i)' \/ Ahead(j, i)'
  <2>1. cur[j].uid \in Int /\ retry[j] \in Int /\ i.uid \in Int /\ cur[j].uid # NoUid
    BY <1>1, CurrentIsItem, ImapSyncAssumption DEF Working, Uid, ServerTypes, Item, NoUid
  <2>2. CASE GivesUp(cur[j].uid)
    <3>1. gaveUp' = gaveUp \cup {cur[j].mail} /\ retry' = retry
      BY <1>3, <2>2 DEF Fail
    <3>2. CASE i = cur[j]
      BY <3>1, <3>2 DEF Seen
    <3>3. CASE i # cur[j]
      BY <1>1, <1>3, <3>1, <3>3 DEF Ahead
    <3> QED BY <3>2, <3>3
  <2>3. CASE ~GivesUp(cur[j].uid)
    <3>1. retry'[j] = LowestRetry(j, cur[j].uid)
      BY <1>3, <2>3 DEF Fail
    <3>2. retry'[j] # NoUid /\ retry'[j] <= cur[j].uid /\ (retry[j] # NoUid => retry'[j] <= retry[j])
          /\ retry'[j] \in Int
      BY <2>1, <3>1 DEF LowestRetry
    <3>3. CASE i \in todo[j]
      BY <1>1, <3>3 DEF Ahead
    <3>4. CASE i = cur[j]
      BY <3>2, <3>4 DEF Ahead
    <3>5. CASE retry[j] # NoUid /\ retry[j] <= i.uid
      <4>1. retry'[j] <= i.uid
        BY <2>1, <3>2, <3>5
      <4> QED BY <3>2, <4>1 DEF Ahead
    <3> QED BY <1>3, <3>3, <3>4, <3>5 DEF Ahead
  <2> QED BY <2>2, <2>3
<1> QED BY <1>0, <1>1, <1>2, <1>3, JobGoesOn

(* A job's loop ends, or the job does.                                     *)
LEMMA EndPasses ==
    ASSUME Types, MailInv, CursorInv, Handed, SeenStays, NEW j \in Job,
           FetchHistory(j) \/ EndLoop(j) \/ EndScan(j) \/ Finish(j) \/ Abort(j)
    PROVE  JobInv(j)'
<1> USE DEF Types, JobTypes
<1>0. nextUid \in Nat /\ JobInv(j) /\ epoch' = epoch
  BY DEF MailInv, Shape, CursorInv, FetchHistory, EndLoop, EndScan, Finish, Abort, server
<1>1. CASE EndScan(j) \/ Finish(j) \/ Abort(j)
  <2>1. pc'[j] = "idle"
    BY <1>1 DEF EndScan, Finish, Abort, GoTo
  <2> QED BY <2>1 DEF JobInv, Starts, Passes, Treats
<1>2. CASE EndLoop(j)
  <2>1. /\ pc[j] = "loop" /\ pc'[j] = "asks" /\ todo[j] = {} /\ j \notin Scan
        /\ UNCHANGED <<inbox, highest, seenEpoch, todo, cur, retry>>
    BY <1>2 DEF EndLoop, GoTo, server
  <2>2. \A k \in inbox : Ahead(j, k) => Ahead(j, k)'
    BY <2>1 DEF Ahead, Working
  <2>3. Treats(j)'
    BY <2>1 DEF Treats
  <2> QED BY <1>0, <2>1, <2>2, <2>3, JobGoesOn
<1>3. CASE FetchHistory(j)
  <2>1. pc'[j] = "loop" /\ j \in Scan
    BY <1>3 DEF FetchHistory, GoTo
  <2> QED BY <2>1 DEF JobInv, Starts, Passes, Treats
<1> QED BY <1>1, <1>2, <1>3

(* The cursor a sync stores covers only what somebody has looked at.       *)
LEMMA FinishCovers ==
    ASSUME Types, MailInv, CursorInv, SeenStays, NEW j \in Job, Finish(j) PROVE CursorCovered'
<1>1. /\ cursor' = NextCursor(j) /\ cursorEpoch' = seenEpoch[j] /\ pc[j] = "asks"
      /\ UNCHANGED <<inbox, nextUid, epoch>>
  BY DEF Finish, server
<1>2. /\ Passed(j) /\ highest[j] < nextUid /\ seenEpoch[j] = epoch /\ todo[j] = {}
      /\ Covered(cursor) /\ cursor < nextUid
  BY <1>1 DEF CursorInv, CursorCovered, JobInv, Passes, Treats
<1>3. /\ highest[j] \in Int /\ retry[j] \in Int /\ cursor \in Int /\ nextUid \in Int
      /\ \A i \in inbox : i.uid \in Int
  BY ImapSyncAssumption DEF Types, JobTypes, DatabaseTypes, ServerTypes, Item, Uid
<1>4. epoch # NoEpoch
  BY ImapSyncAssumption DEF Types, ServerTypes, NoEpoch
<1>5. CASE highest[j] = NoUid
  <2>1. NextCursor(j) = cursor
    BY <1>5 DEF NextCursor
  <2> QED BY <1>1, <1>2, <1>4, <2>1, SeenKept DEF CursorCovered, Covered, Seen
<1>6. CASE highest[j] # NoUid
  <2>1. NextCursor(j) <= highest[j] /\ (retry[j] # NoUid => NextCursor(j) < retry[j])
        /\ NextCursor(j) \in Int
    BY <1>3, <1>6 DEF NextCursor
  <2>2. ASSUME NEW i \in inbox, ~i.copy, i.uid <= NextCursor(j) PROVE Seen(i)'
    <3>1. i.uid <= highest[j] /\ ~(retry[j] # NoUid /\ retry[j] <= i.uid)
      BY <1>3, <2>1, <2>2
    <3>2. Seen(i) \/ Ahead(j, i)
      BY <1>2, <2>2, <3>1 DEF Passed
    <3>3. ~Ahead(j, i)
      BY <1>1, <1>2, <3>1 DEF Ahead, Working
    <3> QED BY <3>2, <3>3, SeenKept
  <2>3. NextCursor(j) < nextUid
    BY <1>2, <1>3, <2>1
  <2> QED BY <1>1, <1>2, <1>4, <2>2, <2>3 DEF CursorCovered, Covered, Seen
<1> QED BY <1>5, <1>6


(* Job k is where it was.                                                  *)
Waits(k) ==
    /\ pc'[k] = pc[k] /\ since'[k] = since[k] /\ highest'[k] = highest[k]
    /\ retry'[k] = retry[k] /\ seenEpoch'[k] = seenEpoch[k]
    /\ todo'[k] = todo[k] /\ cur'[k] = cur[k]

(* One job's step leaves the others where they were.                       *)
LEMMA OthersWait ==
    ASSUME Types, NEW j \in Job, Step(j), NEW k \in Job, k # j PROVE Waits(k)
<1> USE DEF Types, JobTypes, Waits, GoTo
<1>1. CASE Start(j) \/ Fetch(j) \/ FetchHistory(j)
  BY <1>1 DEF Start, Fetch, FetchHistory
<1>2. ASSUME NEW i \in todo[j], Skip(j, i) \/ Analyse(j, i) PROVE Waits(k)
  BY <1>2 DEF Skip, Analyse
<1>3. CASE Commit(j) \/ Rewrite(j) \/ Store(j) \/ Mark(j)
  BY <1>3 DEF Commit, Rewrite, Store, Mark, locals
<1>4. CASE Quarantine(j) \/ Append(j) \/ Drop(j)
  BY <1>4 DEF Quarantine, Append, Drop, Replaced, locals
<1>5. CASE Fail(j)
  BY <1>5 DEF Fail
<1>6. CASE EndLoop(j)
  BY <1>6 DEF EndLoop
<1>7. CASE EndScan(j) \/ Finish(j) \/ Abort(j)
  BY <1>7 DEF EndScan, Finish, Abort, Clear
<1>8. ASSUME NEW r \in pend[j], RunRequested(j, r) PROVE Waits(k)
  BY <1>8 DEF RunRequested
<1> QED BY <1>1, <1>2, <1>3, <1>4, <1>5, <1>6, <1>7, <1>8 DEF Step

(* A step of the mail server or of a person: every job is where it was.    *)
LEMMA OutsideWaits ==
    ASSUME Next, ~Renumber, ~Crash, \A j \in Job : ~Step(j)
    PROVE  (\A k \in Job : Waits(k)) /\ UNCHANGED <<cursor, cursorEpoch>> /\ epoch' = epoch
<1>1. \/ \E m \in Mail : Deliver(m)
      \/ \E i \in inbox : Discard(i)
      \/ \E r \in rows : Press(r)
  BY DEF Next
<1> QED BY <1>1 DEF Deliver, Discard, Press, Waits, locals, database, server

(* Where a step leaves the stored cursor: only the end of a sync moves it. *)
LEMMA CursorStays ==
    ASSUME NEW j \in Job, Step(j), ~Finish(j) PROVE UNCHANGED <<cursor, cursorEpoch>>
  BY DEF Step, Start, Fetch, FetchHistory, Skip, Analyse, Commit, Rewrite, Store, Quarantine,
         Mark, Append, Drop, Fail, EndLoop, EndScan, Abort, RunRequested, database

(* Every step leaves the cursor below what nobody has looked at.           *)
LEMMA StepCursor ==
    ASSUME FolderFits, ~Renumber, Types, Types', MailInv, MailInv', RequestInv, CursorInv,
           [Next]_vars
    PROVE  CursorInv'
<1>1. Handed /\ SeenStays /\ nextUid \in Nat
  BY StepHands, StepKeepsSeen DEF MailInv, Shape
<1>2. ~Renumber /\ epoch' = epoch
  <2>1. ~Renumber
    OBVIOUS
  <2> QED BY <2>1, StepNumbers
<1>3. cursor \in Int /\ cursor < nextUid /\ CursorCovered
  BY ImapSyncAssumption DEF Types, DatabaseTypes, CursorInv, CursorCovered
<1>4. ASSUME UNCHANGED <<cursor, cursorEpoch>> PROVE CursorCovered'
  <2>1. Covered(cursor)' /\ cursor < nextUid'
    <3>1. Covered(cursor) /\ UNCHANGED cursor
      BY <1>3, <1>4 DEF CursorCovered
    <3>2. \A i \in inbox' : ~i.copy /\ i.uid <= cursor => Seen(i)'
      BY <1>1, <1>3, <3>1, CoveredKept DEF Covered
    <3> QED BY <1>1, <1>3, <3>1, <3>2, CoveredKept DEF Covered
  <2> QED BY <1>2, <1>3, <1>4, <2>1 DEF CursorCovered
<1>5. ASSUME NEW k \in Job, Waits(k) PROVE JobInv(k)'
  BY <1>1, <1>2, <1>5, JobWaits DEF Waits
<1>6. ASSUME NEW j \in Job, Step(j) PROVE CursorInv'
  <2>1. CursorCovered'
    <3>1. CASE Finish(j)
      BY <1>1, <3>1, FinishCovers
    <3>2. CASE ~Finish(j)
      BY <1>4, <1>6, <3>2, CursorStays
    <3> QED BY <3>1, <3>2
  <2>2. JobInv(j)'
    <3>1. CASE Start(j)
      BY <3>1, StartPasses
    <3>2. CASE Fetch(j)
      BY <3>2, FetchPasses
    <3>3. CASE \/ \E i \in todo[j] : Skip(j, i) \/ Analyse(j, i)
               \/ Commit(j) \/ Rewrite(j) \/ Store(j) \/ Mark(j)
      BY <1>1, <3>3, MessagePasses
    <3>4. CASE \/ Quarantine(j) \/ Append(j) \/ Drop(j)
               \/ \E r \in pend[j] : RunRequested(j, r)
      BY <1>1, <3>4, CommandPasses
    <3>5. CASE Fail(j)
      BY <1>1, <3>5, FailPasses
    <3>6. CASE FetchHistory(j) \/ EndLoop(j) \/ EndScan(j) \/ Finish(j) \/ Abort(j)
      BY <1>1, <3>6, EndPasses
    <3> QED BY <1>6, <3>1, <3>2, <3>3, <3>4, <3>5, <3>6 DEF Step
  <2>3. \A k \in Job : k # j => JobInv(k)'
    BY <1>5, <1>6, OthersWait
  <2> QED BY <2>1, <2>2, <2>3 DEF CursorInv
<1>7. CASE Crash
  <2>1. UNCHANGED <<cursor, cursorEpoch>> /\ \A k \in Job : pc'[k] = "idle"
    BY <1>7 DEF Crash, database
  <2>2. CursorCovered'
    BY <1>4, <2>1
  <2>3. \A k \in Job : JobInv(k)'
    BY <2>1 DEF JobInv, Starts, Passes, Treats
  <2> QED BY <2>2, <2>3 DEF CursorInv
<1>8. CASE UNCHANGED vars
  <2>1. UNCHANGED <<cursor, cursorEpoch>> /\ \A k \in Job : Waits(k)
    BY <1>8 DEF vars, database, locals, Waits
  <2> QED BY <1>4, <1>5, <2>1 DEF CursorInv
<1>9. CASE Next /\ ~Crash /\ \A j \in Job : ~Step(j)
  <2>1. UNCHANGED <<cursor, cursorEpoch>> /\ \A k \in Job : Waits(k)
    BY <1>2, <1>9, OutsideWaits
  <2> QED BY <1>4, <1>5, <2>1 DEF CursorInv
<1> QED BY <1>6, <1>7, <1>8, <1>9

(* Covered mail is analysed mail.                                          *)
LEMMA CoveredIsAnalysed == CursorInv => CursorCoversAnalysed
  BY DEF CursorInv, CursorCovered, Covered, Seen, CursorCoversAnalysed

(* The four parts make up the type invariant.                              *)
LEMMA TypesAreOK == Types => TypeOK
  BY DEF Types, ServerTypes, DatabaseTypes, JobTypes, HistoryTypes, TypeOK


(* Nothing is passed over, for any jobs, locked or not, scans among them,  *)
(* and any faults: the stored cursor never passes mail nobody has looked   *)
(* at, an automatic removal stays asked for until it is done, and a stamp  *)
(* tells the truth (imap_fetch.py:_sync_one, retry_failed_message,         *)
(* _run_requested_quarantines).  The property ends with the first          *)
(* renumbering, after which stored UIDs name nothing; and no fetch is cut  *)
(* off at DEFAULT_LIMIT or FIRST_SYNC_TAIL: a longer backlog is passed     *)
(* over by design.                                                         *)
THEOREM NothingIsPassedOverHolds ==
    ASSUME FolderFits
    PROVE  Spec => []NothingIsPassedOver
<1> DEFINE Safe == Types /\ MailInv /\ RequestInv /\ CursorInv
<1> DEFINE Inv == Numbered /\ (~Renumbered => Safe)
<1>1. Init => Inv
  BY InitTypes, InitMailInv, InitRequests, InitCursor DEF Init, Numbered
<1>2. Inv /\ [Next]_vars => Inv'
  <2> SUFFICES ASSUME Inv, [Next]_vars PROVE Inv'
    OBVIOUS
  <2>1. Numbered' /\ (~Renumbered' => ~Renumbered /\ ~Renumber)
    BY NumberingMovesOn
  <2>2. ASSUME ~Renumbered' PROVE Safe'
    <3>1. Safe /\ ~Renumber
      BY <2>1, <2>2
    <3>2. MailInv' /\ Types'
      BY <3>1, StepMailInv, StepTypes
    <3>3. RequestInv'
      <4>1. StampsAreTrue
        BY <3>1 DEF RequestInv
      <4> QED BY <3>1, <4>1, StepHands, StepTakes, StepMovesRows, StepMovesAsks, RequestsKept
    <3>4. CursorInv'
      BY <3>1, <3>2, StepCursor
    <3> QED BY <3>2, <3>3, <3>4
  <2> QED BY <2>1, <2>2
<1>3. Inv => NothingIsPassedOver
  BY TypesAreOK, RequestsDurable, CoveredIsAnalysed DEF NothingIsPassedOver
<1> QED BY <1>1, <1>2, <1>3, PTL DEF Spec

-----------------------------------------------------------------------------
(* A history scan leaves old mail alone: what only scans have stored stays *)
(* unless a person or the plan has asked for its removal.                  *)

(* A sync has stored mail m, or somebody wants it removed: only such mail  *)
(* is ever touched.                                                        *)
HasSyncRow(m) == \E s \in rows : s.mail = m /\ s.by \notin Scan
Touchable(m) == m \in ToBeRemoved \/ HasSyncRow(m)

Untouched ==
    \A r \in rows : r.by \in Scan /\ r.mail \notin ToBeRemoved => ~r.asked /\ ~r.done

(* The row of a request is a sync's, or one of mail to be removed.         *)
ByRight(r) == IF r.by \in Scan THEN r.mail \in ToBeRemoved ELSE HasSyncRow(r.mail)

RequestsByRight == \A j \in Job : \A r \in pend[j] \cup stamps[j] : ByRight(r)

ScansOnlyRead == \A j \in Scan : pc[j] \in {"idle", "fetch", "loop", "read"}

(* What a job treats it has stored first, clean mail with links apart.     *)
Treating(j) ==
    pc[j] \in {"act", "mark"} \/ (pc[j] \in {"swap", "drop"} /\ cur[j].mail \notin Linked)

TreatedIsStored == \A j \in Job : Treating(j) => HasSyncRow(cur[j].mail)

AwayWasTouchable == \A m \in away : Touchable(m)

CopiesWereTouchable == \A i \in inbox : i.copy => i.mail \in Linked \/ HasSyncRow(i.mail)

HistoryInv ==
    /\ Untouched /\ RequestsByRight /\ ScansOnlyRead /\ TreatedIsStored
    /\ AwayWasTouchable /\ CopiesWereTouchable

(* Nothing is stored, asked for or treated at the start.                   *)
LEMMA InitHistory == Init => HistoryInv
  BY ImapSyncAssumption
     DEF Init, HistoryInv, Untouched, RequestsByRight, ScansOnlyRead, TreatedIsStored, Treating,
         AwayWasTouchable, CopiesWereTouchable

(* A row keeps whose it is; a new one is asked for by the plan alone.      *)
RowsKept ==
    /\ \A r \in rows : \E s \in rows' : s.mail = r.mail /\ s.by = r.by
    /\ \A s \in rows' :
         \/ \E j \in Job : s = StoredRow(j)
         \/ \E r \in rows :
              /\ s.mail = r.mail /\ s.by = r.by
              /\ s.asked => r.asked \/ s.mail \in pressed'
              /\ s.done => \/ r.done
                           \/ \E j \in Job : pc[j] = "mark" /\ s.by = j
                           \/ \E j \in Job : \E x \in stamps[j] : x.mail = s.mail /\ x.by = s.by
    /\ pressed \subseteq pressed'

LEMMA StepKeepsRows == ASSUME Types, [Next]_vars PROVE RowsKept
<1>0. rows \subseteq Row
  BY DEF Types, DatabaseTypes
<1>1. CASE rows' = rows /\ pressed' = pressed
  BY <1>1 DEF RowsKept
<1>2. ASSUME NEW j \in Job, Commit(j) \/ Store(j) PROVE RowsKept
  <2>1. rows' = rows \cup {StoredRow(j)} /\ pressed' = pressed
    BY <1>2 DEF Commit, Store, history
  <2> QED BY <2>1 DEF RowsKept
<1>3. ASSUME NEW j \in Job, Mark(j) PROVE RowsKept
  <2> DEFINE marked(r) == IF r.mail = cur[j].mail /\ r.by = j THEN [r EXCEPT !.done = TRUE] ELSE r
  <2>1. rows' = {marked(r) : r \in rows} /\ pressed' = pressed /\ pc[j] = "mark"
    BY <1>3 DEF Mark, history
  <2>2. ASSUME NEW r \in rows
        PROVE  /\ marked(r).mail = r.mail /\ marked(r).by = r.by /\ marked(r).asked = r.asked
               /\ marked(r).done => r.done \/ marked(r).by = j
    <3>1. CASE r.mail = cur[j].mail /\ r.by = j
      BY <1>0, <3>1, RowFields
    <3>2. CASE ~(r.mail = cur[j].mail /\ r.by = j)
      BY <3>2
    <3> QED BY <3>1, <3>2
  <2> HIDE DEF marked
  <2> QED BY <2>1, <2>2 DEF RowsKept
<1>4. ASSUME NEW j \in Job, Finish(j) PROVE RowsKept
  <2> DEFINE filed(r) == IF \E x \in stamps[j] : x.mail = r.mail /\ x.by = r.by
                           THEN [r EXCEPT !.done = TRUE, !.asked = FALSE] ELSE r
  <2>1. rows' = {filed(r) : r \in rows} /\ pressed' = pressed
    BY <1>4 DEF Finish, Done, history
  <2>2. ASSUME NEW r \in rows
        PROVE  /\ filed(r).mail = r.mail /\ filed(r).by = r.by
               /\ filed(r).asked => r.asked
               /\ filed(r).done => \/ r.done
                                   \/ \E x \in stamps[j] : x.mail = filed(r).mail /\ x.by = filed(r).by
    <3>1. CASE \E x \in stamps[j] : x.mail = r.mail /\ x.by = r.by
      <4>1. filed(r) = [r EXCEPT !.done = TRUE, !.asked = FALSE]
        BY <3>1
      <4>2. filed(r).mail = r.mail /\ filed(r).by = r.by
        BY <1>0, <4>1, RowFields
      <4>3. filed(r).asked = FALSE
        BY <1>0, <4>1 DEF Row
      <4> QED BY <3>1, <4>2, <4>3
    <3>2. CASE ~\E x \in stamps[j] : x.mail = r.mail /\ x.by = r.by
      BY <3>2
    <3> QED BY <3>1, <3>2
  <2> HIDE DEF filed
  <2> QED BY <2>1, <2>2 DEF RowsKept
<1>5. ASSUME NEW r \in rows, Press(r) PROVE RowsKept
  <2>1. /\ rows' = (rows \ {r}) \cup {[r EXCEPT !.asked = TRUE]}
        /\ pressed' = pressed \cup {r.mail}
    BY <1>5 DEF Press
  <2>2. /\ [r EXCEPT !.asked = TRUE].mail = r.mail /\ [r EXCEPT !.asked = TRUE].by = r.by
        /\ [r EXCEPT !.asked = TRUE].done = r.done
    BY <1>0, RowFields
  <2>3. \A s \in rows : \E q \in rows' : q.mail = s.mail /\ q.by = s.by
    <3> SUFFICES ASSUME NEW s \in rows PROVE \E q \in rows' : q.mail = s.mail /\ q.by = s.by
      OBVIOUS
    <3>1. CASE s = r
      BY <2>1, <2>2, <3>1
    <3>2. CASE s # r
      BY <2>1, <3>2
    <3> QED BY <3>1, <3>2
  <2>4. \A s \in rows' : \E q \in rows : /\ s.mail = q.mail /\ s.by = q.by /\ s.done = q.done
                                         /\ s.asked => q.asked \/ s.mail \in pressed'
    <3> SUFFICES ASSUME NEW s \in rows'
                 PROVE  \E q \in rows : /\ s.mail = q.mail /\ s.by = q.by /\ s.done = q.done
                                        /\ s.asked => q.asked \/ s.mail \in pressed'
      OBVIOUS
    <3>1. CASE s \in rows
      BY <3>1
    <3>2. CASE s = [r EXCEPT !.asked = TRUE]
      BY <2>1, <2>2, <3>2
    <3> QED BY <2>1, <3>1, <3>2
  <2> QED BY <2>1, <2>3, <2>4 DEF RowsKept
<1> QED
  BY <1>1, <1>2, <1>3, <1>4, <1>5
  DEF Next, Step, Start, Fetch, FetchHistory, Skip, Analyse, Rewrite, Quarantine, Append, Drop, Fail,
      EndLoop, EndScan, Abort, RunRequested, Deliver, Renumber, Discard, Crash, database, history, vars

(* So what may be touched stays so.                                        *)
LEMMA RightsStay ==
    ASSUME RowsKept
    PROVE  /\ \A m : HasSyncRow(m) => HasSyncRow(m)'
           /\ \A m : m \in ToBeRemoved => m \in ToBeRemoved'
           /\ \A m : Touchable(m) => Touchable(m)'
           /\ \A r : ByRight(r) => ByRight(r)'
<1>1. \A m : HasSyncRow(m) => HasSyncRow(m)'
  BY DEF RowsKept, HasSyncRow
<1>2. \A m : m \in ToBeRemoved => m \in ToBeRemoved'
  BY DEF RowsKept, ToBeRemoved
<1>3. \A m : Touchable(m) => Touchable(m)'
  BY <1>1, <1>2 DEF Touchable
<1>4. \A r : ByRight(r) => ByRight(r)'
  BY <1>1, <1>2 DEF ByRight
<1> QED BY <1>1, <1>2, <1>3, <1>4

(* A row a scan has stored unasked stays unasked and undone.               *)
LEMMA StepUntouched == ASSUME HistoryInv, RowsKept PROVE Untouched'
<1> SUFFICES ASSUME NEW s \in rows', s.by \in Scan, s.mail \notin ToBeRemoved'
             PROVE  ~s.asked /\ ~s.done
  BY DEF Untouched
<1>1. s.mail \notin ToBeRemoved /\ s.mail \notin pressed'
  BY RightsStay DEF ToBeRemoved
<1>2. CASE \E j \in Job : s = StoredRow(j)
  <2>1. PICK j \in Job : s = StoredRow(j)
    BY <1>2
  <2>2. /\ s.asked = (AutoRemove /\ Protected /\ cur[j].mail \in Critical)
        /\ s.done = FALSE /\ s.mail = cur[j].mail
    BY <2>1 DEF StoredRow
  <2>3. ~(AutoRemove /\ Protected /\ s.mail \in Critical)
    BY <1>1 DEF ToBeRemoved
  <2> QED BY <2>2, <2>3
<1>3. CASE \E r \in rows :
             /\ s.mail = r.mail /\ s.by = r.by
             /\ s.asked => r.asked \/ s.mail \in pressed'
             /\ s.done => \/ r.done
                          \/ \E j \in Job : pc[j] = "mark" /\ s.by = j
                          \/ \E j \in Job : \E x \in stamps[j] : x.mail = s.mail /\ x.by = s.by
  <2>1. PICK r \in rows :
             /\ s.mail = r.mail /\ s.by = r.by
             /\ s.asked => r.asked \/ s.mail \in pressed'
             /\ s.done => \/ r.done
                          \/ \E j \in Job : pc[j] = "mark" /\ s.by = j
                          \/ \E j \in Job : \E x \in stamps[j] : x.mail = s.mail /\ x.by = s.by
    BY <1>3
  <2>2. ~r.asked /\ ~r.done
    BY <1>1, <2>1 DEF HistoryInv, Untouched
  <2>3. ~\E j \in Job : pc[j] = "mark" /\ s.by = j
    BY DEF HistoryInv, ScansOnlyRead
  <2>4. ~\E j \in Job : \E x \in stamps[j] : x.mail = s.mail /\ x.by = s.by
    BY <1>1 DEF HistoryInv, RequestsByRight, ByRight
  <2> QED BY <1>1, <2>1, <2>2, <2>3, <2>4
<1> QED BY <1>2, <1>3 DEF RowsKept

(* What a sync lists is asked for, and what it stamps it had listed.       *)
LEMMA StepRequests ==
    ASSUME Types, HistoryInv, RowsKept, [Next]_vars PROVE RequestsByRight'
<1>1. \A j \in Job : pend'[j] \subseteq pend[j] \cup Requested /\ stamps'[j] \subseteq stamps[j] \cup pend[j]
  <2>1. CASE UNCHANGED <<pend, stamps>>
    BY <2>1
  <2>2. CASE Crash
    BY <2>2 DEF Crash
  <2>3. ASSUME NEW j \in Job, EndScan(j) \/ Finish(j) \/ Abort(j)
        PROVE  \A k \in Job : pend'[k] \subseteq pend[k] /\ stamps'[k] \subseteq stamps[k]
    BY <2>3 DEF EndScan, Finish, Abort, Clear, Types, JobTypes
  <2>4. ASSUME NEW j \in Job, EndLoop(j)
        PROVE  stamps' = stamps /\ \A k \in Job : pend'[k] \subseteq pend[k] \cup Requested
    BY <2>4 DEF EndLoop, Types, JobTypes
  <2>5. ASSUME NEW j \in Job, NEW r \in pend[j], RunRequested(j, r)
        PROVE  \A k \in Job : pend'[k] \subseteq pend[k] /\ stamps'[k] \subseteq stamps[k] \cup pend[k]
    <3>1. /\ pend' = [pend EXCEPT ![j] = pend[j] \ {r}]
          /\ stamps' = stamps \/ stamps' = [stamps EXCEPT ![j] = stamps[j] \cup {r}]
      BY <2>5 DEF RunRequested
    <3> QED BY <3>1 DEF Types, JobTypes
  <2> QED
    BY <2>1, <2>2, <2>3, <2>4, <2>5
       DEF Next, Step, Start, Fetch, FetchHistory, Skip, Analyse, Commit, Rewrite, Store, Mark,
           Quarantine, Append, Drop, Fail, Deliver, Renumber, Discard, Press, locals, vars
<1>2. \A r \in Requested : ByRight(r)
  BY DEF Requested, HistoryInv, Untouched, ByRight, HasSyncRow
<1>3. \A j \in Job : \A r \in pend'[j] \cup stamps'[j] : ByRight(r)
  BY <1>1, <1>2 DEF HistoryInv, RequestsByRight
<1> QED BY <1>3, RightsStay DEF RequestsByRight

(* A scan only reads: it never reaches a command or a stamp.               *)
LEMMA ScanSteps ==
    ASSUME Types, HistoryInv, NEW j \in Job, Step(j) PROVE ScansOnlyRead'
<1>1. DOMAIN pc = Job /\ (\A k \in Scan : k \in Job)
  BY ImapSyncAssumption DEF Types, JobTypes
<1>2. pc' = pc \/ \E place : GoTo(j, place)
  BY DEF Step, Start, Fetch, FetchHistory, Skip, Analyse, Commit, Rewrite, Store, Quarantine,
         Mark, Append, Drop, Replaced, Fail, EndLoop, EndScan, Finish, Abort, RunRequested
<1>3. \A k \in Job : k # j => pc'[k] = pc[k]
  BY <1>1, <1>2 DEF GoTo
<1>4. ASSUME j \in Scan PROVE pc'[j] \in {"idle", "fetch", "loop", "read"}
  <2>1. pc[j] \in {"idle", "fetch", "loop", "read"}
    BY <1>4 DEF HistoryInv, ScansOnlyRead
  <2>2. CASE Commit(j)
    <3>1. pc'[j] = Treatment(j)
      BY <1>1, <2>2 DEF Commit, GoTo
    <3> QED BY <1>4, <3>1, TreatmentIs
  <2>3. CASE Rewrite(j)
    BY <1>4, <2>3, TreatmentIs DEF Rewrite
  <2>4. CASE Start(j) \/ FetchHistory(j) \/ Fail(j) \/ EndScan(j) \/ Abort(j)
    BY <1>1, <2>4 DEF Start, FetchHistory, Fail, EndScan, Abort, GoTo
  <2>5. CASE \E i \in todo[j] : Skip(j, i) \/ Analyse(j, i)
    BY <1>1, <2>1, <2>5 DEF Skip, Analyse, GoTo
  <2>6. CASE Finish(j) \/ \E r \in pend[j] : RunRequested(j, r)
    BY <2>1, <2>6 DEF Finish, RunRequested
  <2>7. CASE Fetch(j) \/ Store(j) \/ Quarantine(j) \/ Mark(j) \/ Append(j) \/ Drop(j) \/ EndLoop(j)
    BY <1>4, <2>1, <2>7 DEF Fetch, Store, Quarantine, Mark, Append, Drop, EndLoop
  <2> QED BY <2>2, <2>3, <2>4, <2>5, <2>6, <2>7 DEF Step
<1> QED BY <1>1, <1>3, <1>4 DEF HistoryInv, ScansOnlyRead

(* A sync that comes to treat a message has just stored it, or was at it.  *)
LEMMA StepTreats ==
    ASSUME Types, HistoryInv, RowsKept, NEW j \in Job, Step(j) PROVE TreatedIsStored'
<1>1. \A k \in Job : k # j => pc'[k] = pc[k] /\ cur'[k] = cur[k]
  BY DEF Types, JobTypes, Step, Start, Fetch, FetchHistory, Skip, Analyse, Commit, Rewrite, Store,
         Quarantine, Mark, Append, Drop, Replaced, Fail, EndLoop, EndScan, Finish, Abort,
         RunRequested, GoTo, Clear, locals
<1>2. ASSUME Treating(j)' PROVE HasSyncRow(cur[j].mail)'
  <2>0. pc'[j] \in {"act", "mark", "swap", "drop"}
    BY <1>2 DEF Treating
  <2> USE DEF Types, JobTypes, GoTo
  <2>1. CASE Commit(j)
    <3>1. /\ rows' = rows \cup {StoredRow(j)} /\ cur' = cur /\ pc'[j] = Treatment(j)
      BY <2>1 DEF Commit, locals
    <3>2. j \notin Scan
      BY <2>0, <3>1, TreatmentIs
    <3>3. StoredRow(j).mail = cur[j].mail /\ StoredRow(j).by = j
      BY DEF StoredRow
    <3> QED BY <3>1, <3>2, <3>3 DEF HasSyncRow
  <2>2. CASE Rewrite(j)
    BY <1>2, <2>2 DEF Rewrite, Treating, locals
  <2>3. CASE Quarantine(j)
    <3>1. pc[j] = "act" /\ cur' = cur
      BY <2>3 DEF Quarantine, locals
    <3>2. HasSyncRow(cur[j].mail)
      BY <3>1 DEF HistoryInv, TreatedIsStored, Treating
    <3> QED BY <3>1, <3>2, RightsStay
  <2>4. CASE Append(j)
    <3>1. pc[j] = "swap" /\ cur' = cur /\ pc'[j] \in {"drop", "store", "loop"}
      BY <2>4 DEF Append, Replaced, locals
    <3>2. cur[j].mail \notin Linked
      BY <1>2, <3>1 DEF Treating
    <3>3. HasSyncRow(cur[j].mail)
      BY <3>1, <3>2 DEF HistoryInv, TreatedIsStored, Treating
    <3> QED BY <3>1, <3>3, RightsStay
  <2>5. CASE \E i \in todo[j] : Skip(j, i)
    <3>1. pc[j] = "loop" /\ pc' = pc
      BY <2>5 DEF Skip
    <3> QED BY <2>0, <3>1
  <2>6. CASE \E r \in pend[j] : RunRequested(j, r)
    <3>1. pc[j] = "asks" /\ pc' = pc
      BY <2>6 DEF RunRequested
    <3> QED BY <2>0, <3>1
  <2>7. CASE \/ Start(j) \/ Fetch(j) \/ FetchHistory(j) \/ Store(j) \/ Mark(j) \/ Fail(j)
             \/ EndLoop(j) \/ EndScan(j) \/ Finish(j) \/ Abort(j)
             \/ \E i \in todo[j] : Analyse(j, i)
    BY <2>0, <2>7 DEF Start, Fetch, FetchHistory, Store, Mark, Fail, EndLoop, EndScan, Finish,
                      Abort, Analyse
  <2>8. CASE Drop(j)
    BY <2>0, <2>8 DEF Drop, Replaced
  <2> QED BY <2>1, <2>2, <2>3, <2>4, <2>5, <2>6, <2>7, <2>8 DEF Step
<1>3. ASSUME NEW k \in Job, k # j, Treating(k)' PROVE HasSyncRow(cur[k].mail)'
  <2>1. Treating(k)
    BY <1>1, <1>3 DEF Treating
  <2> QED BY <1>1, <1>3, <2>1, RightsStay DEF HistoryInv, TreatedIsStored
<1> QED BY <1>2, <1>3 DEF TreatedIsStored

(* Only what a job treats, or was asked for, is moved or copied.           *)
LEMMA StepTouches ==
    ASSUME ~Renumber, Types, MailInv, RequestInv, HistoryInv, RowsKept, [Next]_vars
    PROVE  AwayWasTouchable' /\ CopiesWereTouchable'
<1>1. ASSUME \A m \in away' : Touchable(m), \A i \in inbox' : i.copy => i.mail \in Linked \/ HasSyncRow(i.mail)
      PROVE  AwayWasTouchable' /\ CopiesWereTouchable'
  BY <1>1, RightsStay DEF AwayWasTouchable, CopiesWereTouchable
<1>2. ASSUME away' = away, \A i \in inbox' : i \in inbox \/ ~i.copy
      PROVE  AwayWasTouchable' /\ CopiesWereTouchable'
  BY <1>1, <1>2 DEF HistoryInv, AwayWasTouchable, CopiesWereTouchable
<1>3. ASSUME NEW j \in Job, Quarantine(j) PROVE AwayWasTouchable' /\ CopiesWereTouchable'
  <2>1. /\ inbox' \subseteq inbox /\ pc[j] = "act"
        /\ \A m \in away' : m \in away \/ \E i \in At(cur[j].uid) : m = i.mail
    BY <1>3 DEF Quarantine, MoveAway, CopyAway, server
  <2>2. At(cur[j].uid) \subseteq {cur[j]}
    BY <2>1, OnlyOriginal DEF Working
  <2>3. HasSyncRow(cur[j].mail)
    BY <2>1 DEF HistoryInv, TreatedIsStored, Treating
  <2>4. \A m \in away' : Touchable(m)
    BY <2>1, <2>2, <2>3 DEF Touchable, HistoryInv, AwayWasTouchable
  <2> QED BY <1>1, <2>1, <2>4 DEF HistoryInv, CopiesWereTouchable
<1>4. ASSUME NEW j \in Job, NEW r \in pend[j], RunRequested(j, r)
      PROVE  AwayWasTouchable' /\ CopiesWereTouchable'
  <2>1. /\ inbox' \subseteq inbox
        /\ \A m \in away' : m \in away \/ \E i \in At(r.ref) : m = i.mail
    BY <1>4 DEF RunRequested, MoveAway, server
  <2>2. \A i \in At(r.ref) : i.mail = r.mail
    BY DEF RequestInv, RowsNamed, Names, At
  <2>3. Touchable(r.mail)
    BY DEF HistoryInv, RequestsByRight, ByRight, Touchable
  <2>4. \A m \in away' : Touchable(m)
    BY <2>1, <2>2, <2>3 DEF HistoryInv, AwayWasTouchable
  <2> QED BY <1>1, <2>1, <2>4 DEF HistoryInv, CopiesWereTouchable
<1>5. ASSUME NEW j \in Job, Append(j) PROVE AwayWasTouchable' /\ CopiesWereTouchable'
  <2> DEFINE copy == [uid |-> nextUid, mail |-> cur[j].mail, copy |-> TRUE]
  <2>1. away' = away /\ pc[j] = "swap" /\ (inbox' = inbox \/ inbox' = inbox \cup {copy})
    BY <1>5 DEF Append, server
  <2>2. copy.mail = cur[j].mail
    OBVIOUS
  <2>3. cur[j].mail \in Linked \/ HasSyncRow(cur[j].mail)
    BY <2>1 DEF HistoryInv, TreatedIsStored, Treating
  <2> HIDE DEF copy
  <2> QED BY <1>1, <2>1, <2>2, <2>3 DEF HistoryInv, AwayWasTouchable, CopiesWereTouchable
<1>6. ASSUME NEW m \in Mail, Deliver(m) PROVE AwayWasTouchable' /\ CopiesWereTouchable'
  BY <1>2, <1>6 DEF Deliver
<1>7. ~Renumber
  OBVIOUS
<1>8. CASE away' = away /\ inbox' \subseteq inbox
  BY <1>2, <1>8
<1> QED
  BY <1>3, <1>4, <1>5, <1>6, <1>7, <1>8
     DEF Next, Step, Start, Fetch, FetchHistory, Skip, Analyse, Commit, Rewrite, Store, Mark,
         Drop, Fail, EndLoop, EndScan, Finish, Abort, Discard, Press, Crash, server, vars

(* Every step leaves old mail alone until its removal is asked for.        *)
LEMMA StepHistory ==
    ASSUME ~Renumber, Types, MailInv, RequestInv, HistoryInv, [Next]_vars PROVE HistoryInv'
<1>0. RowsKept
  BY StepKeepsRows
<1>1. Untouched' /\ RequestsByRight' /\ AwayWasTouchable' /\ CopiesWereTouchable'
  BY <1>0, StepUntouched, StepRequests, StepTouches
<1>2. ASSUME NEW j \in Job, Step(j) PROVE ScansOnlyRead' /\ TreatedIsStored'
  BY <1>0, <1>2, ScanSteps, StepTreats
<1>3. ASSUME Crash PROVE ScansOnlyRead' /\ TreatedIsStored'
  BY <1>3, ImapSyncAssumption DEF Crash, ScansOnlyRead, TreatedIsStored, Treating
<1>4. ASSUME UNCHANGED <<pc, cur>> PROVE ScansOnlyRead' /\ TreatedIsStored'
  <2>1. ScansOnlyRead'
    BY <1>4 DEF HistoryInv, ScansOnlyRead
  <2>2. \A k \in Job : Treating(k)' <=> Treating(k)
    BY <1>4 DEF Treating
  <2>3. TreatedIsStored'
    BY <1>0, <1>4, <2>2, RightsStay DEF HistoryInv, TreatedIsStored
  <2> QED BY <2>1, <2>3
<1>5. ScansOnlyRead' /\ TreatedIsStored'
  BY <1>2, <1>3, <1>4 DEF Next, Deliver, Renumber, Discard, Press, locals, vars
<1> QED BY <1>1, <1>5 DEF HistoryInv

(* What only scans have stored and nobody wants removed is there as it came.*)
LEMMA UntouchedStays ==
    ASSUME MailInv, RequestInv, HistoryInv PROVE UnaskedStays
<1> SUFFICES ASSUME NEW r \in rows, \A s \in rows : s.mail = r.mail => s.by \in Scan,
                    r.mail \notin discarded \cup ToBeRemoved
             PROVE  ~r.done /\ \E i \in inbox : i.mail = r.mail /\ (i.copy => r.mail \in Linked)
  BY DEF UnaskedStays
<1>1. ~r.done
  BY DEF HistoryInv, Untouched
<1>2. ~HasSyncRow(r.mail)
  BY DEF HasSyncRow
<1>3. r.mail \notin away
  BY <1>2 DEF HistoryInv, AwayWasTouchable, Touchable
<1>4. r.mail \in delivered
  BY DEF RequestInv, RowsNamed, Names
<1>5. PICK i \in inbox : i.mail = r.mail
  BY <1>3, <1>4 DEF MailInv, MailKept
<1>6. i.copy => r.mail \in Linked
  BY <1>2, <1>5 DEF HistoryInv, CopiesWereTouchable
<1> QED BY <1>1, <1>5, <1>6

(* Beside and after any number of history scans and syncs, through crashes *)
(* and faults, what only the scans stored goes only when a person or the   *)
(* plan has asked for it (imap_fetch.py:backfill_mailbox,                  *)
(* pipeline.py:955-958); what was asked for waits until a sync takes it.   *)
THEOREM HistoryStaysHolds == Spec => []HistoryStays
<1> DEFINE Safe == Types /\ MailInv /\ RequestInv /\ HistoryInv
<1> DEFINE Inv == Numbered /\ (~Renumbered => Safe)
<1>1. Init => Inv
  BY InitTypes, InitMailInv, InitRequests, InitHistory DEF Init, Numbered
<1>2. Inv /\ [Next]_vars => Inv'
  <2> SUFFICES ASSUME Inv, [Next]_vars PROVE Inv'
    OBVIOUS
  <2>1. Numbered' /\ (~Renumbered' => ~Renumbered /\ ~Renumber)
    BY NumberingMovesOn
  <2>2. ASSUME ~Renumbered' PROVE Safe'
    <3>1. Safe /\ ~Renumber
      BY <2>1, <2>2
    <3>2. MailInv' /\ Types' /\ HistoryInv'
      BY <3>1, StepMailInv, StepTypes, StepHistory
    <3>3. RequestInv'
      <4>1. StampsAreTrue
        BY <3>1 DEF RequestInv
      <4> QED BY <3>1, <4>1, StepHands, StepTakes, StepMovesRows, StepMovesAsks, RequestsKept
    <3> QED BY <3>2, <3>3
  <2> QED BY <2>1, <2>2
<1>3. Inv => HistoryStays
  BY UntouchedStays, RequestsDurable DEF HistoryStays
<1> QED BY <1>1, <1>2, <1>3, PTL DEF Spec
=============================================================================

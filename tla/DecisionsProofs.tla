---------------------------- MODULE DecisionsProofs ----------------------------
(***************************************************************************)
(* Proofs about what is decided of a mail, a sign-in, a link and a file,   *)
(* and about the mailboxes that are notified or watched. What Analysis does *)
(* is proved of Analysis itself, the others of their instances: every step *)
(* of MCDecisions is a step of one of them and leaves the others alone.    *)
(***************************************************************************)
EXTENDS MCDecisions, FiniteSetTheorems, SequenceTheorems, TLAPS

-----------------------------------------------------------------------------
(* Links.  What is remembered of a link is as old as it says, and what is  *)
(* remembered of a file is the newest look at it.                          *)
Never == Remembered!Never
Moments == 0..MaxTime
Entry == [file : File, verdict : {"clean", "malicious"}, at : Moments]
Reputations == [at : Moments \cup {Never}, listed : BOOLEAN, failed : BOOLEAN]
UrlVerdict == {"none", "clean", "unknown", "suspicious", "malicious"}

WorldTyped ==
    /\ now \in Moments
    /\ listed \in [Link -> Moments \cup {Never}] /\ found \in [File -> Moments \cup {Never}]
LinkTyped ==
    /\ domains \in [Link -> Reputations] /\ verdicts \in [Link -> UrlVerdict]
    /\ confirmed \subseteq Link /\ delivered \subseteq Link
\* An answer "not listed" that was given is true of the moment it was given.
AnswerIsTrue ==
    \A l \in Link : domains[l].at # Never =>
        /\ domains[l].at <= now
        /\ domains[l].listed \/ domains[l].failed \/ listed[l] >= domains[l].at
FilesTyped == files \in Seq(Entry) /\ Len(files) <= MaxFiles
Single == \A i, j \in 1..Len(files) : files[i].file = files[j].file => i = j
\* A clean verdict on a risky file is true of the moment it was given.
VerdictIsTrue ==
    \A i \in 1..Len(files) :
        /\ files[i].at <= now
        /\ files[i].file \in Risky /\ files[i].verdict = "clean" => found[files[i].file] >= files[i].at
CaughtIsHeld ==
    \A f \in caught : \E i \in 1..Len(files) : files[i].file = f /\ files[i].verdict = "malicious"

LinksInv ==
    /\ WorldTyped /\ LinkTyped /\ AnswerIsTrue
    /\ FilesTyped /\ Single /\ VerdictIsTrue /\ CaughtIsHeld
    /\ Remembered!ListedIsBlocked /\ Remembered!ConfirmedIsBlocked
    /\ Remembered!FoundIsServed /\ Remembered!CaughtStaysCaught

(* Nothing is remembered at first.                                         *)
LEMMA LinksStart == Remembered!Init => LinksInv
<1> SUFFICES ASSUME Remembered!Init PROVE LinksInv
    OBVIOUS
<1> USE LinksBounds
<1>1. now = 0 /\ listed = [l \in Link |-> Never] /\ found = [f \in File |-> Never]
    BY DEF Remembered!Init, Never
<1>2. /\ domains = [l \in Link |-> [at |-> Never, listed |-> FALSE, failed |-> FALSE]]
      /\ verdicts = [l \in Link |-> "none"] /\ files = <<>>
      /\ confirmed = {} /\ delivered = {} /\ caught = {}
      /\ last = [link |-> "none", allowed |-> FALSE, blind |-> FALSE]
      /\ served = [file |-> "none", verdict |-> "none", missed |-> FALSE]
    BY DEF Remembered!Init, Never, Remembered!NoEntry, Remembered!NoClick, Remembered!NoFile
<1>3. WorldTyped /\ LinkTyped
    BY <1>1, <1>2 DEF WorldTyped, LinkTyped, Moments, Reputations, UrlVerdict
<1>4. AnswerIsTrue
    BY <1>2 DEF AnswerIsTrue
<1>5. Len(files) = 0 /\ files \in Seq(Entry)
    BY <1>2
<1>6. FilesTyped /\ Single /\ VerdictIsTrue /\ CaughtIsHeld
    BY <1>2, <1>5 DEF FilesTyped, Single, VerdictIsTrue, CaughtIsHeld
<1>7. Remembered!ListedIsBlocked /\ Remembered!ConfirmedIsBlocked
    BY <1>2 DEF Remembered!ListedIsBlocked, Remembered!ConfirmedIsBlocked
<1>8. Remembered!FoundIsServed /\ Remembered!CaughtStaysCaught
    BY <1>2 DEF Remembered!FoundIsServed, Remembered!CaughtStaysCaught
<1> QED BY <1>3, <1>4, <1>6, <1>7, <1>8 DEF LinksInv

(* Between two answers, what was served or opened last is not looked at.   *)
LEMMA NoAnswer ==
    ASSUME last' = Remembered!NoClick, served' = Remembered!NoFile,
           confirmed' \subseteq Link, caught' \subseteq File
    PROVE  /\ Remembered!ListedIsBlocked' /\ Remembered!ConfirmedIsBlocked'
           /\ Remembered!FoundIsServed' /\ Remembered!CaughtStaysCaught'
<1> USE LinksBounds
<1>1. last'.link = "none" /\ last'.allowed = FALSE
    BY DEF Remembered!NoClick
<1>2. served'.file = "none"
    BY DEF Remembered!NoFile
<1>3. Remembered!ListedIsBlocked' /\ Remembered!ConfirmedIsBlocked'
    BY <1>1 DEF Remembered!ListedIsBlocked, Remembered!ConfirmedIsBlocked
<1>4. Remembered!FoundIsServed' /\ Remembered!CaughtStaysCaught'
    BY <1>2 DEF Remembered!FoundIsServed, Remembered!CaughtStaysCaught
<1> QED BY <1>3, <1>4

(* What is caught is a file.                                               *)
LEMMA CaughtAreFiles == ASSUME FilesTyped, CaughtIsHeld PROVE caught \subseteq File
<1> SUFFICES ASSUME NEW f \in caught PROVE f \in File
    OBVIOUS
<1>1. PICK i \in 1..Len(files) : files[i].file = f
    BY DEF CaughtIsHeld
<1>2. files[i] \in Entry
    BY <1>1, ElementOfSeq DEF FilesTyped
<1> QED BY <1>1, <1>2 DEF Entry

(* The world turns: what was true when it was answered was.                *)
LEMMA TurnKeeps == ASSUME LinksInv, Remembered!Turn PROVE LinksInv'
<1> USE LinksBounds
<1>1. /\ last' = Remembered!NoClick /\ served' = Remembered!NoFile
      /\ domains' = domains /\ verdicts' = verdicts /\ files' = files
      /\ delivered' = delivered /\ caught' = caught
    BY DEF Remembered!Turn
<1>2. WorldTyped /\ LinkTyped /\ AnswerIsTrue /\ FilesTyped /\ Single /\ VerdictIsTrue /\ CaughtIsHeld
    BY DEF LinksInv
<1>3. WorldTyped' /\ confirmed' \subseteq Link /\ now' >= now
    BY <1>2 DEF WorldTyped, LinkTyped, Remembered!Turn, Moments, Never, Remembered!Never
<1>4. /\ \A l \in Link : listed'[l] = listed[l] \/ (listed'[l] = now /\ listed[l] = Never)
      /\ \A f \in File : found'[f] = found[f] \/ (found'[f] = now /\ found[f] = Never)
    BY <1>2 DEF WorldTyped, Remembered!Turn, Never
<1>5. LinkTyped' /\ FilesTyped' /\ Single' /\ CaughtIsHeld'
    BY <1>1, <1>2, <1>3 DEF LinkTyped, FilesTyped, Single, CaughtIsHeld
<1>6. AnswerIsTrue'
  <2> SUFFICES ASSUME NEW l \in Link, domains[l].at # Never
               PROVE  /\ domains[l].at <= now'
                      /\ domains[l].listed \/ domains[l].failed \/ listed'[l] >= domains[l].at
      BY <1>1 DEF AnswerIsTrue
  <2>1. /\ domains[l].at <= now
        /\ domains[l].listed \/ domains[l].failed \/ listed[l] >= domains[l].at
      BY <1>2 DEF AnswerIsTrue
  <2>2. domains[l].at \in Moments
      BY <1>2 DEF LinkTyped, Reputations
  <2> QED BY <2>1, <2>2, <1>2, <1>3, <1>4 DEF WorldTyped, Moments, Never, Remembered!Never
<1>7. VerdictIsTrue'
  <2> SUFFICES ASSUME NEW i \in 1..Len(files)
               PROVE  /\ files[i].at <= now'
                      /\ files[i].file \in Risky /\ files[i].verdict = "clean" =>
                             found'[files[i].file] >= files[i].at
      BY <1>1 DEF VerdictIsTrue
  <2>1. files[i] \in Entry
      BY <1>2, ElementOfSeq DEF FilesTyped
  <2>2. files[i].file \in File /\ files[i].at \in Moments
      BY <2>1 DEF Entry
  <2>3. files[i].at <= now /\ (files[i].file \in Risky /\ files[i].verdict = "clean" =>
             found[files[i].file] >= files[i].at)
      BY <1>2 DEF VerdictIsTrue
  <2> QED BY <2>2, <2>3, <1>2, <1>3, <1>4 DEF WorldTyped, Moments, Never, Remembered!Never
<1>8. caught' \subseteq File
    BY <1>1, <1>2, CaughtAreFiles
<1>9. /\ Remembered!ListedIsBlocked' /\ Remembered!ConfirmedIsBlocked'
      /\ Remembered!FoundIsServed' /\ Remembered!CaughtStaysCaught'
    BY <1>1, <1>3, <1>8, NoAnswer
<1> QED BY <1>3, <1>5, <1>6, <1>7, <1>9 DEF LinksInv

(* A blocklist answer, remembered or fresh, is true of its moment; one that*)
(* says "not listed" without having failed leaves a listing of ListTtl at  *)
(* most.                                                                   *)
LEMMA AnswerHolds ==
    ASSUME LinksInv, NEW l \in Link, NEW failed \in BOOLEAN
    PROVE  LET rep == Remembered!Reputation(l, failed)
           IN  /\ rep \in Reputations /\ rep.at <= now
               /\ rep.listed \/ rep.failed \/ listed[l] >= rep.at
               /\ rep.listed \/ rep.failed \/ listed[l] = Never \/ now - listed[l] <= ListTtl
<1> DEFINE rep == Remembered!Reputation(l, failed)
<1>0. WorldTyped /\ LinkTyped /\ AnswerIsTrue /\ ListTtl \in Nat /\ MaxTime \in Nat
    BY LinksBounds DEF LinksInv
<1>1. domains[l] \in Reputations /\ listed[l] \in Moments \cup {Never} /\ now \in Moments
    BY <1>0 DEF WorldTyped, LinkTyped
<1>2. domains[l].at # Never =>
          /\ domains[l].at <= now
          /\ domains[l].listed \/ domains[l].failed \/ listed[l] >= domains[l].at
    BY <1>0 DEF AnswerIsTrue
<1>3. CASE Remembered!Fresh(domains[l])
  <2>1. rep = domains[l]
      BY <1>3 DEF Remembered!Reputation
  <2>2. domains[l].at # Never /\ now - domains[l].at <= ListTtl
      BY <1>3 DEF Remembered!Fresh, Never
  <2>3. domains[l].at \in Moments
      BY <1>1, <2>2 DEF Reputations
  <2> HIDE DEF rep
  <2>4. listed[l] >= domains[l].at => now - listed[l] <= ListTtl
      BY <1>0, <1>1, <2>2, <2>3 DEF Moments, Never, Remembered!Never
  <2> QED BY <1>1, <1>2, <2>1, <2>2, <2>4 DEF rep
<1>4. CASE ~Remembered!Fresh(domains[l])
  <2>1. rep = [at |-> now, listed |-> listed[l] # Never /\ ~failed, failed |-> failed]
      BY <1>4 DEF Remembered!Reputation, Never
  <2> HIDE DEF rep
  <2>2. rep.at = now /\ rep.failed = failed /\ rep.listed = (listed[l] # Never /\ ~failed)
      BY <2>1
  <2>3. rep \in Reputations
      BY <1>1, <2>1 DEF Reputations
  <2>4. rep.listed \/ rep.failed \/ listed[l] = Never
      BY <2>2
  <2>5. listed[l] = Never => listed[l] >= now
      BY <1>0, <1>1 DEF Moments, Never, Remembered!Never
  <2> QED BY <1>0, <1>1, <2>2, <2>3, <2>4, <2>5 DEF Moments, rep
<1> QED BY <1>3, <1>4

(* What the cascade answers is one of its verdicts.                        *)
LEMMA CascadeTyped ==
    ASSUME LinkTyped, NEW l \in Link, NEW failed \in BOOLEAN
    PROVE  Remembered!Cascade(l, failed) \in UrlVerdict
BY DEF LinkTyped, UrlVerdict, Remembered!Cascade

(* What the steps on a link leave alone.                                   *)
LEMMA LinkFrame ==
    ASSUME LinksInv, UNCHANGED <<now, listed, confirmed, found, files, caught>>,
           LinkTyped', AnswerIsTrue'
    PROVE  /\ WorldTyped' /\ LinkTyped' /\ AnswerIsTrue'
           /\ FilesTyped' /\ Single' /\ VerdictIsTrue' /\ CaughtIsHeld'
           /\ confirmed' \subseteq Link /\ caught' \subseteq File
<1>1. WorldTyped /\ LinkTyped /\ FilesTyped /\ Single /\ VerdictIsTrue /\ CaughtIsHeld
    BY DEF LinksInv
<1>2. WorldTyped' /\ FilesTyped' /\ Single' /\ VerdictIsTrue' /\ CaughtIsHeld'
    BY <1>1 DEF WorldTyped, FilesTyped, Single, VerdictIsTrue, CaughtIsHeld
<1>3. caught \subseteq File
    BY <1>1, CaughtAreFiles
<1> QED BY <1>1, <1>2, <1>3 DEF LinkTyped

(* A remembered answer that is true keeps the memory true.                 *)
LEMMA Remembering ==
    ASSUME LinksInv, UNCHANGED <<now, listed, confirmed>>, NEW l \in Link,
           NEW rep \in Reputations, rep.at <= now,
           rep.listed \/ rep.failed \/ listed[l] >= rep.at,
           domains' = [domains EXCEPT ![l] = IF l \in confirmed THEN @ ELSE rep],
           NEW answer \in UrlVerdict, NEW writes \in BOOLEAN,
           verdicts' = [verdicts EXCEPT ![l] = IF writes THEN answer ELSE @],
           delivered' \subseteq Link
    PROVE  LinkTyped' /\ AnswerIsTrue'
<1>1. LinkTyped /\ AnswerIsTrue
    BY DEF LinksInv
<1>2. LinkTyped'
    BY <1>1 DEF LinkTyped
<1>3. AnswerIsTrue'
  <2> SUFFICES ASSUME NEW k \in Link, domains'[k].at # Never
               PROVE  /\ domains'[k].at <= now
                      /\ domains'[k].listed \/ domains'[k].failed \/ listed[k] >= domains'[k].at
      BY DEF AnswerIsTrue
  <2>1. domains'[k] = domains[k] \/ (k = l /\ domains'[k] = rep)
      BY <1>1 DEF LinkTyped
  <2> QED BY <1>1, <2>1 DEF AnswerIsTrue
<1> QED BY <1>2, <1>3

(* Delivery looks, and opens nothing.                                      *)
LEMMA DeliverKeeps ==
    ASSUME LinksInv, NEW l \in Link, NEW failed \in BOOLEAN, Remembered!Deliver(l, failed)
    PROVE  LinksInv'
<1> DEFINE rep == Remembered!Reputation(l, failed)
           asks == ~rep.listed /\ l \notin confirmed
<1>1. /\ delivered' = delivered \cup {l}
      /\ domains' = [domains EXCEPT ![l] = IF l \in confirmed THEN @ ELSE rep]
      /\ verdicts' = [verdicts EXCEPT ![l] = IF asks THEN Remembered!Cascade(l, failed) ELSE @]
      /\ last' = Remembered!NoClick /\ served' = Remembered!NoFile
      /\ UNCHANGED <<now, listed, flagged, confirmed, found, files, caught>>
    BY DEF Remembered!Deliver
<1>2. /\ rep \in Reputations /\ rep.at <= now
      /\ rep.listed \/ rep.failed \/ listed[l] >= rep.at
    BY AnswerHolds
<1>3. Remembered!Cascade(l, failed) \in UrlVerdict /\ delivered' \subseteq Link /\ asks \in BOOLEAN
    BY <1>1, CascadeTyped DEF LinksInv, LinkTyped
<1> HIDE DEF rep, asks
<1>4. LinkTyped' /\ AnswerIsTrue'
    BY <1>1, <1>2, <1>3, Remembering
<1>5. /\ WorldTyped' /\ LinkTyped' /\ AnswerIsTrue'
      /\ FilesTyped' /\ Single' /\ VerdictIsTrue' /\ CaughtIsHeld'
      /\ confirmed' \subseteq Link /\ caught' \subseteq File
    BY <1>1, <1>4, LinkFrame
<1>6. /\ Remembered!ListedIsBlocked' /\ Remembered!ConfirmedIsBlocked'
      /\ Remembered!FoundIsServed' /\ Remembered!CaughtStaysCaught'
    BY <1>1, <1>5, NoAnswer
<1> QED BY <1>5, <1>6 DEF LinksInv

(* A click asks the graph and the blocklists before what is remembered of  *)
(* the link, so neither a confirmed nor a long listed one opens.           *)
LEMMA ClickKeeps ==
    ASSUME LinksInv, NEW l \in Link, NEW go \in BOOLEAN, NEW failed \in BOOLEAN,
           Remembered!Click(l, go, failed)
    PROVE  LinksInv'
<1> DEFINE rep == Remembered!Reputation(l, failed)
           answer == Remembered!Cascade(l, failed)
           verdict == Remembered!Verdict(l, rep, answer)
           allowed == verdict \in {"clean", "unknown"} \/ (verdict = "suspicious" /\ go)
           writes == ~(l \in confirmed \/ rep.listed)
<1>1. /\ domains' = [domains EXCEPT ![l] = IF l \in confirmed THEN @ ELSE rep]
      /\ verdicts' = [verdicts EXCEPT ![l] = IF l \in confirmed \/ rep.listed THEN @ ELSE answer]
      /\ last' = [link |-> l, allowed |-> allowed, blind |-> rep.failed \/ failed]
      /\ served' = Remembered!NoFile
      /\ UNCHANGED <<now, listed, flagged, confirmed, found, files, delivered, caught>>
    BY DEF Remembered!Click
<1>2. /\ rep \in Reputations /\ rep.at <= now
      /\ rep.listed \/ rep.failed \/ listed[l] >= rep.at
      /\ rep.listed \/ rep.failed \/ listed[l] = Never \/ now - listed[l] <= ListTtl
    BY AnswerHolds
<1>3. answer \in UrlVerdict /\ delivered' \subseteq Link /\ writes \in BOOLEAN
    BY <1>1, CascadeTyped DEF LinksInv, LinkTyped
<1>4. allowed => l \notin confirmed /\ ~rep.listed
    BY DEF Remembered!Verdict
<1>5. verdicts' = [verdicts EXCEPT ![l] = IF writes THEN answer ELSE @]
    BY <1>1
<1> HIDE DEF rep, answer, verdict, allowed, writes
<1>6. LinkTyped' /\ AnswerIsTrue'
    BY <1>1, <1>2, <1>3, <1>5, Remembering
<1>7. /\ WorldTyped' /\ LinkTyped' /\ AnswerIsTrue'
      /\ FilesTyped' /\ Single' /\ VerdictIsTrue' /\ CaughtIsHeld'
      /\ caught' \subseteq File
    BY <1>1, <1>6, LinkFrame
<1>8. last'.link = l /\ last'.allowed = allowed /\ last'.blind = (rep.failed \/ failed)
    BY <1>1
<1>9. Remembered!ListedIsBlocked' /\ Remembered!ConfirmedIsBlocked'
    BY <1>1, <1>2, <1>4, <1>8 DEF Remembered!ListedIsBlocked, Remembered!ConfirmedIsBlocked, Never
<1>10. served'.file = "none"
    BY <1>1 DEF Remembered!NoFile
<1>11. Remembered!FoundIsServed' /\ Remembered!CaughtStaysCaught'
    BY <1>7, <1>10, LinksBounds DEF Remembered!FoundIsServed, Remembered!CaughtStaysCaught
<1> QED BY <1>7, <1>9, <1>11 DEF LinksInv

(* Leaving out the entry of a file: the others are still there, in order.  *)
LEMMA WithoutOne ==
    ASSUME FilesTyped, Single, NEW i \in 1..Len(files)
    PROVE  /\ Remembered!Without(i) \in Seq(Entry)
           /\ Len(Remembered!Without(i)) = Len(files) - 1
           /\ \A k \in 1..Len(files) - 1 :
                  Remembered!Without(i)[k] = files[IF k < i THEN k ELSE k + 1]
           /\ \A k \in 1..Len(files) : k # i =>
                  \E m \in 1..Len(files) - 1 : Remembered!Without(i)[m] = files[k]
<1> DEFINE rest == Remembered!Without(i)
<1>1. Len(files) \in Nat /\ files \in Seq(Entry)
    BY LenProperties DEF FilesTyped
<1>2. rest = [k \in 1..(Len(files) - 1) |-> files[IF k < i THEN k ELSE k + 1]]
    BY DEF Remembered!Without
<1>3. \A k \in 1..Len(files) - 1 : (IF k < i THEN k ELSE k + 1) \in 1..Len(files)
    BY <1>1
<1>4. \A k \in 1..Len(files) : files[k] \in Entry
    BY <1>1, ElementOfSeq
<1> HIDE DEF rest
<1>5. \A k \in 1..Len(files) - 1 : rest[k] \in Entry
    BY <1>2, <1>3, <1>4
<1>6. Len(files) - 1 \in Nat
    BY <1>1
<1>7. rest \in Seq(Entry) /\ Len(rest) = Len(files) - 1
    BY <1>2, <1>5, <1>6
<1>8. ASSUME NEW k \in 1..Len(files), k # i
      PROVE  \E m \in 1..Len(files) - 1 : rest[m] = files[k]
  <2>1. CASE k < i
    <3>1. k \in 1..Len(files) - 1
        BY <2>1, <1>1
    <3>2. rest[k] = files[k]
        BY <3>1, <2>1, <1>2
    <3> QED BY <3>1, <3>2
  <2>2. CASE ~(k < i)
    <3>1. k - 1 \in 1..Len(files) - 1 /\ ~(k - 1 < i) /\ (k - 1) + 1 = k
        BY <2>2, <1>1, <1>8
    <3>2. rest[k - 1] = files[k]
        BY <3>1, <1>2
    <3> QED BY <3>1, <3>2
  <2> QED BY <2>1, <2>2
<1> QED BY <1>2, <1>7, <1>8 DEF rest

(* The cache without a file: entries of the other files, each as before.   *)
LEMMA OthersAre ==
    ASSUME FilesTyped, Single, NEW f \in File
    PROVE  LET rest == Remembered!Others(f)
           IN  /\ rest \in Seq(Entry) /\ Len(rest) <= Len(files)
               /\ \A k \in 1..Len(rest) : rest[k].file # f /\ \E i \in 1..Len(files) : rest[k] = files[i]
               /\ \A k, m \in 1..Len(rest) : rest[k].file = rest[m].file => k = m
<1> DEFINE rest == Remembered!Others(f)
<1>0. Len(files) \in Nat /\ files \in Seq(Entry)
    BY LenProperties DEF FilesTyped
<1>1. CASE Remembered!At(f) = {}
  <2>1. rest = files
      BY <1>1 DEF Remembered!Others
  <2>2. \A k \in 1..Len(files) : files[k].file # f
      BY <1>1 DEF Remembered!At
  <2> HIDE DEF rest
  <2> QED BY <1>0, <2>1, <2>2 DEF Single, rest
<1>2. CASE Remembered!At(f) # {}
  <2>1. PICK i \in Remembered!At(f) : rest = Remembered!Without(i)
      BY <1>2 DEF Remembered!Others
  <2>2. i \in 1..Len(files) /\ files[i].file = f
      BY DEF Remembered!At
  <2> HIDE DEF rest
  <2>3. /\ rest \in Seq(Entry) /\ Len(rest) = Len(files) - 1
        /\ \A k \in 1..Len(files) - 1 : rest[k] = files[IF k < i THEN k ELSE k + 1]
      BY <2>1, <2>2, WithoutOne
  <2>4. \A k \in 1..Len(rest) : (IF k < i THEN k ELSE k + 1) \in 1..Len(files) \ {i}
      BY <1>0, <2>2, <2>3
  <2>5. \A k \in 1..Len(rest) : rest[k].file # f /\ \E n \in 1..Len(files) : rest[k] = files[n]
      BY <2>2, <2>3, <2>4 DEF Single
  <2>6. ASSUME NEW k \in 1..Len(rest), NEW m \in 1..Len(rest), rest[k].file = rest[m].file PROVE k = m
    <3>1. (IF k < i THEN k ELSE k + 1) = (IF m < i THEN m ELSE m + 1)
        BY <2>3, <2>4, <2>6 DEF Single
    <3> QED BY <3>1, <2>2, <1>0
  <2> QED BY <1>0, <2>3, <2>5, <2>6 DEF rest
<1> QED BY <1>1, <1>2

(* What may follow the others: one more entry, itself true, at the end.    *)
Follows(after, f, e) ==
    /\ after \in Seq(Entry) /\ Len(after) <= MaxFiles /\ Len(after) >= 1
    /\ after[Len(after)] = e
    /\ \A k \in 1..Len(after) - 1 : after[k].file # f /\ \E i \in 1..Len(files) : after[k] = files[i]
    /\ \A k, m \in 1..Len(after) : after[k].file = after[m].file => k = m

LEMMA Appended ==
    ASSUME FilesTyped, NEW f \in File, NEW rest \in Seq(Entry), NEW e \in Entry, e.file = f,
           \A k \in 1..Len(rest) : rest[k].file # f /\ \E i \in 1..Len(files) : rest[k] = files[i],
           \A k, m \in 1..Len(rest) : rest[k].file = rest[m].file => k = m,
           Len(rest) < MaxFiles
    PROVE  Follows(Append(rest, e), f, e)
<1> DEFINE after == Append(rest, e)
<1>1. /\ after \in Seq(Entry) /\ Len(after) = Len(rest) + 1 /\ Len(rest) \in Nat
      /\ \A k \in 1..Len(rest) : after[k] = rest[k]
      /\ after[Len(rest) + 1] = e
    BY AppendProperties, LenProperties
<1> HIDE DEF after
<1>2. \A k \in 1..Len(after) - 1 : after[k].file # f /\ \E i \in 1..Len(files) : after[k] = files[i]
    BY <1>1
<1>3. \A k, m \in 1..Len(after) : after[k].file = after[m].file => k = m
    BY <1>1
<1>4. Len(after) <= MaxFiles /\ Len(after) >= 1
    BY <1>1, LinksBounds
<1> QED BY <1>1, <1>2, <1>3, <1>4 DEF Follows, after

(* Storing a verdict: it comes last, and the oldest goes if it must.       *)
LEMMA StoredAre ==
    ASSUME FilesTyped, Single, NEW f \in File, NEW verdict \in {"clean", "malicious"}, now \in Moments
    PROVE  Follows(Remembered!Stored(f, verdict), f, [file |-> f, verdict |-> verdict, at |-> now])
<1> DEFINE rest == Remembered!Others(f)
           e == [file |-> f, verdict |-> verdict, at |-> now]
           all == Append(rest, e)
           after == Remembered!Stored(f, verdict)
<1>0. MaxFiles \in Nat /\ MaxFiles >= 1 /\ Len(files) <= MaxFiles
    BY LinksBounds DEF FilesTyped
<1>1. after = IF Len(all) > MaxFiles THEN Tail(all) ELSE all
    BY DEF Remembered!Stored, Remembered!Kept
<1>2. e \in Entry /\ e.file = f
    BY DEF Entry
<1>3. /\ rest \in Seq(Entry) /\ Len(rest) <= Len(files)
      /\ \A k \in 1..Len(rest) : rest[k].file # f /\ \E i \in 1..Len(files) : rest[k] = files[i]
      /\ \A k, m \in 1..Len(rest) : rest[k].file = rest[m].file => k = m
    BY OthersAre
<1> HIDE DEF rest, e, after
<1>4. all \in Seq(Entry) /\ Len(all) = Len(rest) + 1 /\ Len(rest) \in Nat
    BY <1>2, <1>3, AppendProperties, LenProperties
<1>5. CASE Len(rest) < MaxFiles
  <2>1. Follows(all, f, e)
      BY <1>2, <1>3, <1>5, Appended
  <2>2. after = all
      BY <1>0, <1>1, <1>4, <1>5
  <2> QED BY <2>1, <2>2 DEF e, after
<1>6. CASE ~(Len(rest) < MaxFiles)
  <2>1. Len(rest) = MaxFiles /\ after = Tail(all)
      BY <1>0, <1>1, <1>3, <1>4, <1>6, LenProperties DEF FilesTyped
  <2>2. /\ \A k \in 1..Len(rest) : all[k] = rest[k]
        /\ all[Len(rest) + 1] = e
      BY <1>2, <1>3, AppendProperties
  <2> HIDE DEF all
  <2>3. all # <<>>
      BY <1>4
  <2>4. /\ after \in Seq(Entry) /\ Len(after) = Len(all) - 1
        /\ \A k \in 1..Len(after) : after[k] = all[k + 1]
      BY <1>4, <2>1, <2>3, HeadTailProperties
  <2>5. Len(after) = MaxFiles /\ after[Len(after)] = e
      BY <1>0, <1>4, <2>1, <2>2, <2>4
  <2>6. \A k \in 1..Len(after) - 1 : k + 1 \in 1..Len(rest) /\ after[k] = rest[k + 1]
      BY <1>0, <1>4, <2>1, <2>2, <2>4
  <2>7. ASSUME NEW k \in 1..Len(after) - 1
        PROVE  after[k].file # f /\ \E i \in 1..Len(files) : after[k] = files[i]
    <3>1. k + 1 \in 1..Len(rest) /\ after[k] = rest[k + 1]
        BY <2>6
    <3>2. rest[k + 1].file # f /\ \E i \in 1..Len(files) : rest[k + 1] = files[i]
        BY <1>3, <3>1
    <3> QED BY <3>1, <3>2
  <2>8. ASSUME NEW k \in 1..Len(after), NEW m \in 1..Len(after), after[k].file = after[m].file
        PROVE  k = m
    <3>1. CASE k = Len(after) \/ m = Len(after)
      <4>1. \A n \in 1..Len(after) : n = Len(after) \/ n \in 1..Len(after) - 1
          BY <1>0, <2>5
      <4> QED BY <1>2, <2>5, <2>7, <2>8, <3>1, <4>1
    <3>2. CASE k # Len(after) /\ m # Len(after)
      <4>1. k \in 1..Len(after) - 1 /\ m \in 1..Len(after) - 1
          BY <1>0, <2>5, <3>2
      <4>2. k + 1 \in 1..Len(rest) /\ m + 1 \in 1..Len(rest) /\ rest[k + 1].file = rest[m + 1].file
          BY <2>6, <2>8, <4>1
      <4>3. k + 1 = m + 1
          BY <1>3, <4>2
      <4> QED BY <4>1, <4>3
    <3> QED BY <3>1, <3>2
  <2>9. Len(after) <= MaxFiles /\ Len(after) >= 1
      BY <1>0, <2>5
  <2> QED BY <2>4, <2>5, <2>7, <2>8, <2>9 DEF Follows, e, after
<1> QED BY <1>5, <1>6

(* Serving a file: the cache holds what it held of the others, and of the  *)
(* file what was answered; a caught file is answered as such.              *)
LEMMA ServesKeeps ==
    ASSUME LinksInv, NEW f \in File, NEW verdict, NEW missed, NEW after \in Seq(Entry),
           Remembered!Serves(f, verdict, missed, after), Len(after) <= MaxFiles,
           \A k, m \in 1..Len(after) : after[k].file = after[m].file => k = m,
           \A k \in 1..Len(after) :
               \/ after[k].file # f /\ \E i \in 1..Len(files) : after[k] = files[i]
               \/ /\ after[k].file = f /\ after[k].verdict = verdict /\ after[k].at <= now
                  /\ f \in Risky /\ verdict = "clean" => found[f] >= after[k].at,
           verdict = "malicious" => \E k \in 1..Len(after) : after[k].file = f,
           f \in caught => verdict = "malicious",
           f \in Risky /\ verdict # "malicious" =>
               missed \/ found[f] = Never \/ now - found[f] <= CleanTtl
    PROVE  LinksInv'
<1>1. /\ files' = after
      /\ served' = [file |-> f, verdict |-> verdict, missed |-> missed]
      /\ caught' = {g \in caught : g = f \/ \E i \in 1..Len(after) : after[i].file = g}
                       \cup {x \in {f} : verdict = "malicious"}
      /\ last' = Remembered!NoClick
      /\ UNCHANGED <<now, listed, flagged, confirmed, found, domains, verdicts, delivered>>
    BY DEF Remembered!Serves
<1>2. WorldTyped /\ LinkTyped /\ AnswerIsTrue /\ FilesTyped /\ Single /\ VerdictIsTrue /\ CaughtIsHeld
      /\ Remembered!CaughtStaysCaught
    BY DEF LinksInv
<1>3. WorldTyped' /\ LinkTyped' /\ AnswerIsTrue'
    BY <1>1, <1>2 DEF WorldTyped, LinkTyped, AnswerIsTrue
<1>4. FilesTyped' /\ Single'
    BY <1>1 DEF FilesTyped, Single
<1>5. VerdictIsTrue'
  <2> SUFFICES ASSUME NEW k \in 1..Len(after)
               PROVE  /\ after[k].at <= now
                      /\ after[k].file \in Risky /\ after[k].verdict = "clean" =>
                             found[after[k].file] >= after[k].at
      BY <1>1 DEF VerdictIsTrue
  <2> QED BY <1>2 DEF VerdictIsTrue
<1>6. CaughtIsHeld'
  <2> SUFFICES ASSUME NEW g \in caught'
               PROVE  \E k \in 1..Len(after) : after[k].file = g /\ after[k].verdict = "malicious"
      BY <1>1 DEF CaughtIsHeld
  <2>1. CASE g = f
    <3>1. verdict = "malicious"
        BY <1>1, <2>1
    <3>2. PICK k \in 1..Len(after) : after[k].file = f
        BY <3>1
    <3> QED BY <2>1, <3>1, <3>2
  <2>2. CASE g # f
    <3>1. g \in caught
        BY <1>1, <2>2
    <3>2. PICK k \in 1..Len(after) : after[k].file = g
        BY <1>1, <2>2
    <3>3. PICK i \in 1..Len(files) : after[k] = files[i]
        BY <2>2, <3>2
    <3>4. PICK n \in 1..Len(files) : files[n].file = g /\ files[n].verdict = "malicious"
        BY <1>2, <3>1 DEF CaughtIsHeld
    <3>5. i = n
        BY <1>2, <3>2, <3>3, <3>4 DEF Single
    <3> QED BY <3>2, <3>3, <3>4, <3>5
  <2> QED BY <2>1, <2>2
<1>7. last'.link = "none" /\ last'.allowed = FALSE
    BY <1>1 DEF Remembered!NoClick
<1>8. Remembered!ListedIsBlocked' /\ Remembered!ConfirmedIsBlocked'
    BY <1>7, LinksBounds DEF Remembered!ListedIsBlocked, Remembered!ConfirmedIsBlocked
<1>9. served'.file = f /\ served'.verdict = verdict /\ served'.missed = missed
    BY <1>1
<1>10. Remembered!FoundIsServed'
    BY <1>1, <1>9 DEF Remembered!FoundIsServed, Never
<1>11. Remembered!CaughtStaysCaught'
    BY <1>1, <1>9 DEF Remembered!CaughtStaysCaught
<1> QED BY <1>3, <1>4, <1>5, <1>6, <1>8, <1>10, <1>11 DEF LinksInv

(* Remembered verdicts are reused while they last, a malicious one for ever*)
LEMMA ReuseKeeps ==
    ASSUME LinksInv, NEW f \in File, NEW i, Remembered!Reuse(f, i)
    PROVE  LinksInv'
<1> DEFINE rest == Remembered!Without(i)
           after == Append(rest, files[i])
<1>1. /\ WorldTyped /\ FilesTyped /\ Single /\ VerdictIsTrue /\ CaughtIsHeld
      /\ CleanTtl \in Nat /\ MaxTime \in Nat
    BY LinksBounds DEF LinksInv
<1>2. /\ i \in 1..Len(files) /\ files[i].file = f
      /\ files[i].verdict = "malicious" \/ ~(now - files[i].at > CleanTtl)
      /\ Remembered!Serves(f, files[i].verdict, FALSE, after)
    BY DEF Remembered!Reuse, Remembered!At, Remembered!Expired, Remembered!Overdue
<1>3. files[i] \in Entry /\ Len(files) \in Nat /\ Len(files) <= MaxFiles
    BY <1>1, <1>2, ElementOfSeq, LenProperties DEF FilesTyped
<1>4. /\ rest \in Seq(Entry) /\ Len(rest) = Len(files) - 1
      /\ \A k \in 1..Len(files) - 1 : rest[k] = files[IF k < i THEN k ELSE k + 1]
    BY <1>1, <1>2, WithoutOne
<1> HIDE DEF rest
<1>5. ASSUME NEW k \in 1..Len(rest)
      PROVE  rest[k].file # f /\ \E n \in 1..Len(files) : rest[k] = files[n]
  <2>1. PICK n \in 1..Len(files) : n # i /\ rest[k] = files[n]
    <3>1. CASE k < i
        BY <3>1, <1>2, <1>3, <1>4
    <3>2. CASE ~(k < i)
        BY <3>2, <1>2, <1>3, <1>4
    <3> QED BY <3>1, <3>2
  <2> QED BY <1>1, <1>2, <2>1 DEF Single
<1>6. ASSUME NEW k \in 1..Len(rest), NEW m \in 1..Len(rest), rest[k].file = rest[m].file PROVE k = m
  <2> DEFINE before(n) == IF n < i THEN n ELSE n + 1
  <2>1. before(k) \in 1..Len(files) /\ before(m) \in 1..Len(files)
      BY <1>2, <1>3, <1>4
  <2>2. rest[k] = files[before(k)] /\ rest[m] = files[before(m)]
      BY <1>4
  <2> HIDE DEF before
  <2>3. before(k) = before(m)
      BY <1>1, <1>6, <2>1, <2>2 DEF Single
  <2> QED BY <1>2, <2>3 DEF before
<1>7. Follows(after, f, files[i])
  <2>1. Len(rest) < MaxFiles
      BY <1>3, <1>4, LinksBounds
  <2> QED BY <1>1, <1>2, <1>3, <1>4, <1>5, <1>6, <2>1, Appended
<1> HIDE DEF after
<1>8. /\ after \in Seq(Entry) /\ Len(after) <= MaxFiles /\ after[Len(after)] = files[i]
      /\ Len(after) \in 1..Len(after)
      /\ \A k, m \in 1..Len(after) : after[k].file = after[m].file => k = m
    BY <1>7, LenProperties DEF Follows
<1>9. files[i].at <= now /\ (f \in Risky /\ files[i].verdict = "clean" => found[f] >= files[i].at)
    BY <1>1, <1>2 DEF VerdictIsTrue
<1>10. ASSUME NEW k \in 1..Len(after)
       PROVE  \/ after[k].file # f /\ \E n \in 1..Len(files) : after[k] = files[n]
              \/ /\ after[k].file = f /\ after[k].verdict = files[i].verdict /\ after[k].at <= now
                 /\ f \in Risky /\ files[i].verdict = "clean" => found[f] >= after[k].at
  <2>1. CASE k = Len(after)
      BY <1>2, <1>8, <1>9, <2>1
  <2>2. CASE k # Len(after)
    <3>1. k \in 1..Len(after) - 1
        BY <2>2, <1>8
    <3> QED BY <1>7, <3>1 DEF Follows
  <2> QED BY <2>1, <2>2
<1>11. \E k \in 1..Len(after) : after[k].file = f
    BY <1>2, <1>8
<1>12. f \in caught => files[i].verdict = "malicious"
  <2> HAVE f \in caught
  <2>1. PICK n \in 1..Len(files) : files[n].file = f /\ files[n].verdict = "malicious"
      BY <1>1 DEF CaughtIsHeld
  <2> QED BY <1>1, <1>2, <2>1 DEF Single
<1>13. f \in Risky /\ files[i].verdict # "malicious" => found[f] = Never \/ now - found[f] <= CleanTtl
  <2> HAVE f \in Risky /\ files[i].verdict # "malicious"
  <2>1. files[i].verdict = "clean" /\ files[i].at \in Moments
      BY <1>3 DEF Entry
  <2>2. found[f] \in Moments \cup {Never} /\ now \in Moments
      BY <1>1 DEF WorldTyped
  <2>3. found[f] >= files[i].at /\ ~(now - files[i].at > CleanTtl)
      BY <1>2, <1>9, <2>1
  <2> QED BY <1>1, <2>1, <2>2, <2>3 DEF Moments, Never, Remembered!Never
<1> DEFINE v == files[i].verdict
<1>14. /\ Remembered!Serves(f, v, FALSE, after)
       /\ \A k \in 1..Len(after) :
              \/ after[k].file # f /\ \E n \in 1..Len(files) : after[k] = files[n]
              \/ /\ after[k].file = f /\ after[k].verdict = v /\ after[k].at <= now
                 /\ f \in Risky /\ v = "clean" => found[f] >= after[k].at
       /\ v = "malicious" => \E k \in 1..Len(after) : after[k].file = f
       /\ f \in caught => v = "malicious"
       /\ f \in Risky /\ v # "malicious" => FALSE \/ found[f] = Never \/ now - found[f] <= CleanTtl
    BY <1>2, <1>10, <1>11, <1>12, <1>13
<1> HIDE DEF v
<1> QED BY <1>8, <1>14, ServesKeeps

(* A file looked into anew has no verdict that lasts; a lookup that found  *)
(* nothing out is not remembered.                                          *)
LEMMA LookKeeps ==
    ASSUME LinksInv, NEW f \in File, NEW failed \in BOOLEAN, Remembered!LookInto(f, failed)
    PROVE  LinksInv'
<1> DEFINE verdict == Remembered!Layered(f, failed)
           rest == Remembered!Others(f)
           e == [file |-> f, verdict |-> verdict, at |-> now]
           after == IF verdict = "suspicious" THEN rest ELSE Remembered!Stored(f, verdict)
<1>1. /\ WorldTyped /\ FilesTyped /\ Single /\ VerdictIsTrue /\ CaughtIsHeld
      /\ MaxTime \in Nat /\ now \in Moments /\ found[f] \in Moments \cup {Never}
    BY LinksBounds DEF LinksInv, WorldTyped
<1>2. /\ \A i \in Remembered!At(f) : Remembered!Expired(files[i])
      /\ Remembered!Serves(f, verdict, failed, after)
    BY DEF Remembered!LookInto
<1>3. /\ verdict \in {"clean", "suspicious", "malicious"}
      /\ f \in Risky /\ verdict = "clean" => found[f] = Never
      /\ verdict = "suspicious" => failed
    BY DEF Remembered!Layered, Never
<1>4. f \notin caught
  <2> SUFFICES ASSUME f \in caught PROVE FALSE
      OBVIOUS
  <2>1. PICK n \in 1..Len(files) : files[n].file = f /\ files[n].verdict = "malicious"
      BY <1>1 DEF CaughtIsHeld
  <2>2. n \in Remembered!At(f) /\ ~Remembered!Expired(files[n])
      BY <2>1 DEF Remembered!At, Remembered!Expired
  <2> QED BY <1>2, <2>2
<1>5. f \in Risky /\ verdict # "malicious" => failed \/ found[f] = Never \/ now - found[f] <= CleanTtl
    BY <1>3
<1>6. found[f] = Never => found[f] >= now
    BY <1>1 DEF Moments, Never, Remembered!Never
<1> HIDE DEF verdict
<1>7. CASE verdict = "suspicious"
  <2>1. after = rest
      BY <1>7
  <2>2. /\ rest \in Seq(Entry) /\ Len(rest) <= Len(files)
        /\ \A k \in 1..Len(rest) : rest[k].file # f /\ \E i \in 1..Len(files) : rest[k] = files[i]
        /\ \A k, m \in 1..Len(rest) : rest[k].file = rest[m].file => k = m
      BY <1>1, OthersAre
  <2> HIDE DEF rest, after
  <2>3. Len(rest) <= MaxFiles
      BY <1>1, <2>2, LenProperties, LinksBounds DEF FilesTyped
  <2> QED BY <1>2, <1>4, <1>5, <1>7, <2>1, <2>2, <2>3, ServesKeeps
<1>8. CASE verdict # "suspicious"
  <2>1. verdict \in {"clean", "malicious"}
      BY <1>3, <1>8
  <2>2. Follows(after, f, e)
      BY <1>1, <1>8, <2>1, StoredAre
  <2> HIDE DEF after
  <2>3. /\ after \in Seq(Entry) /\ Len(after) <= MaxFiles /\ after[Len(after)] = e
        /\ Len(after) \in 1..Len(after)
        /\ \A k, m \in 1..Len(after) : after[k].file = after[m].file => k = m
      BY <2>2, LenProperties DEF Follows
  <2>4. ASSUME NEW k \in 1..Len(after)
        PROVE  \/ after[k].file # f /\ \E n \in 1..Len(files) : after[k] = files[n]
               \/ /\ after[k].file = f /\ after[k].verdict = verdict /\ after[k].at <= now
                  /\ f \in Risky /\ verdict = "clean" => found[f] >= after[k].at
    <3>1. CASE k = Len(after)
        BY <1>1, <1>3, <1>6, <2>3, <3>1 DEF Moments
    <3>2. CASE k # Len(after)
      <4>1. k \in 1..Len(after) - 1
          BY <3>2, <2>3
      <4> QED BY <2>2, <4>1 DEF Follows
    <3> QED BY <3>1, <3>2
  <2>5. \E k \in 1..Len(after) : after[k].file = f
      BY <2>3
  <2> QED BY <1>2, <1>4, <1>5, <2>3, <2>4, <2>5, ServesKeeps
<1> QED BY <1>7, <1>8

(* Every step of Links keeps what is remembered true.                      *)
LEMMA LinksStep == ASSUME LinksInv, Remembered!Next \/ UNCHANGED linksVars PROVE LinksInv'
<1>1. CASE Remembered!Turn
    BY <1>1, TurnKeeps
<1>2. ASSUME NEW l \in Link, Remembered!OnLink(l) PROVE LinksInv'
    BY <1>2, DeliverKeeps, ClickKeeps DEF Remembered!OnLink
<1>3. ASSUME NEW f \in File, Remembered!Analyse(f) PROVE LinksInv'
    BY <1>3, ReuseKeeps, LookKeeps DEF Remembered!Analyse
<1>4. CASE UNCHANGED linksVars
    BY <1>4 DEF linksVars, LinksInv, WorldTyped, LinkTyped, AnswerIsTrue, FilesTyped, Single,
       VerdictIsTrue, CaughtIsHeld, Remembered!ListedIsBlocked, Remembered!ConfirmedIsBlocked,
       Remembered!FoundIsServed, Remembered!CaughtStaysCaught
<1> QED BY <1>1, <1>2, <1>3, <1>4 DEF Remembered!Next

(* What is remembered decides as it should.                                *)
LEMMA LinksEnough == LinksInv => CaughtIsBlocked
<1> SUFFICES ASSUME LinksInv PROVE CaughtIsBlocked
    OBVIOUS
<1>1. Remembered!TypeOK
    BY DEF LinksInv, WorldTyped, LinkTyped, FilesTyped, Single, Moments, UrlVerdict, Remembered!TypeOK
<1> QED BY <1>1 DEF LinksInv, CaughtIsBlocked
-----------------------------------------------------------------------------
(* Analysis.  First what a set of findings amounts to.                     *)
Tiers == NoTier..Critical
Tiered(F) == \A f \in F : f.tier \in Low..Critical
Promoted(F) == {c \in Promoting : c \subseteq Services(F)}
Forced(F) == \E c \in Forcing : c \subseteq Services(F)

(* The highest tier is that of a finding, and none is higher.              *)
LEMMA HighestIs ==
    ASSUME NEW F, F # {}, Tiered(F)
    PROVE  /\ Highest(F) \in Tiers /\ \A f \in F : f.tier <= Highest(F)
           /\ \E f \in F : f.tier = Highest(F)
<1> DEFINE top(t) == (\E f \in F : f.tier = t) /\ \A f \in F : f.tier <= t
<1>1. \E t \in Tiers : top(t)
  <2>1. CASE \E f \in F : f.tier = 4
      BY <2>1 DEF Tiered, Tiers, Low, Critical, NoTier
  <2>2. CASE (\A f \in F : f.tier # 4) /\ \E f \in F : f.tier = 3
      BY <2>2 DEF Tiered, Tiers, Low, Critical, NoTier
  <2>3. CASE (\A f \in F : f.tier \notin {3, 4}) /\ \E f \in F : f.tier = 2
      BY <2>3 DEF Tiered, Tiers, Low, Critical, NoTier
  <2>4. CASE \A f \in F : f.tier \notin {2, 3, 4}
      BY <2>4 DEF Tiered, Tiers, Low, Critical, NoTier
  <2> QED BY <2>1, <2>2, <2>3, <2>4
<1>2. Highest(F) = CHOOSE t \in Tiers : top(t)
    BY DEF Highest, Tiers
<1> HIDE DEF top
<1>3. Highest(F) \in Tiers /\ top(Highest(F))
    BY <1>1, <1>2
<1> QED BY <1>3 DEF top

(* There are finitely many combinations that promote.                      *)
LEMMA PromotedFinite == \A F : IsFiniteSet(Promoted(F)) /\ Cardinality(Promoted(F)) \in Nat
<1>1. IsFiniteSet({"A", "C"}) /\ IsFiniteSet(1..15)
  <2>1. IsFiniteSet({"A"}) /\ IsFiniteSet({"C"})
      BY FS_Singleton
  <2>2. {"A", "C"} = {"A"} \cup {"C"}
      OBVIOUS
  <2>3. IsFiniteSet({"A", "C"})
      BY <2>1, <2>2, FS_Union
  <2>4. 1 \in Int /\ 15 \in Int
      OBVIOUS
  <2>5. IsFiniteSet(1..15)
      BY ONLY <2>4, FS_Interval
  <2> QED BY <2>3, <2>5
<1>2. IsFiniteSet({"A", "C"} \X (1..15))
    BY <1>1, FS_Product
<1>3. IsFiniteSet(SUBSET ({"A", "C"} \X (1..15)))
    BY <1>2, FS_SUBSET
<1>4. \A n \in {1, 3, 6, 7, 8, 10, 11, 14} :
          A(n) \in {"A", "C"} \X (1..15) /\ <<"C", n>> \in {"A", "C"} \X (1..15)
    BY DEF A
<1>5. Promoting \subseteq SUBSET ({"A", "C"} \X (1..15))
  <2> SUFFICES ASSUME NEW c \in Promoting PROVE c \subseteq {"A", "C"} \X (1..15)
      OBVIOUS
  <2>1. CASE c = {<<"C", 1>>, <<"C", 11>>}
      BY <2>1, <1>4
  <2>2. CASE \E n \in {3, 6, 7, 8, 10, 14} : c = {A(n), A(1)}
      BY <2>2, <1>4
  <2> QED BY <2>1, <2>2 DEF Promoting
<1>6. IsFiniteSet(Promoting)
    BY <1>3, <1>5, FS_Subset
<1> QED BY <1>6, FS_Subset, FS_CardinalityType DEF Promoted

(* An assessment is a tier, as high as any finding, and Critical if forced.*)
LEMMA AssessIs ==
    ASSUME NEW F, Tiered(F)
    PROVE  /\ Assess(F) \in Tiers /\ \A f \in F : f.tier <= Assess(F)
           /\ Forced(F) => Assess(F) = Critical
           /\ F # {} /\ ~Forced(F) => Assess(F) = AtMost(Highest(F) + Cardinality(Promoted(F)))
<1>1. CASE F = {}
  <2>1. \A c \in Forcing : c # {}
      BY DEF Forcing
  <2>2. ~Forced(F)
      BY <1>1, <2>1 DEF Forced, Services
  <2> QED BY <1>1, <2>2 DEF Assess, Tiers, NoTier, Critical
<1>2. CASE F # {} /\ Forced(F)
    BY <1>2 DEF Assess, Forced, Tiered, Tiers, NoTier, Low, Critical
<1>3. CASE F # {} /\ ~Forced(F)
  <2>1. Assess(F) = AtMost(Highest(F) + Cardinality(Promoted(F)))
      BY <1>3 DEF Assess, Forced, Promoted
  <2>2. /\ Highest(F) \in Tiers /\ \A f \in F : f.tier <= Highest(F)
        /\ Cardinality(Promoted(F)) \in Nat
      BY <1>3, HighestIs, PromotedFinite
  <2> QED BY <1>3, <2>1, <2>2 DEF AtMost, Tiered, Tiers, NoTier, Low, Critical
<1> QED BY <1>1, <1>2, <1>3

(* Fewer findings never amount to more, nor ask for a call more finds not. *)
LEMMA AssessGrows ==
    ASSUME NEW F, Tiered(F), NEW G \in SUBSET F
    PROVE  Assess(G) <= Assess(F) /\ (Callback(G) => Callback(F))
<1>1. Tiered(G) /\ Services(G) \subseteq Services(F)
    BY DEF Tiered, Services
<1>2. Assess(F) \in Tiers /\ Assess(G) \in Tiers
    BY <1>1, AssessIs
<1>3. Assess(G) <= Assess(F)
  <2>1. CASE G = {}
      BY <2>1, <1>2 DEF Assess, Tiers, NoTier, Critical
  <2>2. CASE Forced(F)
      BY <2>2, <1>2, AssessIs DEF Tiers, NoTier, Critical
  <2>3. CASE G # {} /\ ~Forced(F)
    <3>1. F # {} /\ ~Forced(G)
        BY <2>3, <1>1 DEF Forced
    <3>2. /\ Assess(F) = AtMost(Highest(F) + Cardinality(Promoted(F)))
          /\ Assess(G) = AtMost(Highest(G) + Cardinality(Promoted(G)))
        BY <1>1, <2>3, <3>1, AssessIs
    <3>3. Promoted(G) \subseteq Promoted(F)
        BY <1>1 DEF Promoted
    <3>4. /\ Cardinality(Promoted(G)) <= Cardinality(Promoted(F))
          /\ Cardinality(Promoted(G)) \in Nat /\ Cardinality(Promoted(F)) \in Nat
        BY <3>3, PromotedFinite, FS_Subset
    <3>5. Highest(G) <= Highest(F) /\ Highest(G) \in Tiers /\ Highest(F) \in Tiers
        BY <1>1, <2>3, <3>1, HighestIs
    <3> QED BY <3>2, <3>4, <3>5 DEF AtMost, Tiers, NoTier, Critical
  <2> QED BY <2>1, <2>2, <2>3
<1>4. Assess(G) = Critical => Assess(F) = Critical
    BY <1>2, <1>3 DEF Tiers, NoTier, Critical
<1>5. Callback(G) => Callback(F)
    BY <1>1, <1>4 DEF Callback
<1> QED BY <1>3, <1>5

(* Every detection reports at a tier.                                      *)
LEMMA MailTiered == \A m : Tiered(OnMail(m))
<1> SUFFICES ASSUME NEW m PROVE Tiered(OnMail(m))
    OBVIOUS
<1> USE DEF Tiered, Where, Find, From, Harder, Low, Medium, High, Critical
<1>1. Tiered(A1(m)) /\ Tiered(A2(m)) /\ Tiered(A3(m)) /\ Tiered(A4(m)) /\ Tiered(A5(m))
    BY DEF A1, A2, A3, A4, A5
<1>2. Tiered(A6(m)) /\ Tiered(A7(m)) /\ Tiered(A8(m)) /\ Tiered(A9(m)) /\ Tiered(A10(m))
    BY DEF A6, A7, A8, A9, A10
<1>3. Tiered(A11(m)) /\ Tiered(A12(m)) /\ Tiered(A13(m)) /\ Tiered(A14(m)) /\ Tiered(A15(m))
    BY DEF A11, A12, A13, A14, A15
<1>4. Tiered(B1(m)) /\ Tiered(B2(m)) /\ Tiered(B3(m)) /\ Tiered(B4(m)) /\ Tiered(B5(m))
    BY DEF B1, B2, B3, B4, B5, Hard, Soft
<1>5. Tiered(B6(m)) /\ Tiered(B7(m)) /\ Tiered(B8(m)) /\ Tiered(B9(m)) /\ Tiered(C15(m))
    BY DEF B6, B7, B8, B9, C15
<1> QED BY <1>1, <1>2, <1>3, <1>4, <1>5 DEF OnMail

(* So does every detection on sign-ins and settings.                       *)
LEMMA IdentityTiered == \A e : Tiered(OnIdentity(e))
<1> SUFFICES ASSUME NEW e PROVE Tiered(OnIdentity(e))
    OBVIOUS
<1> USE DEF Tiered, Where, Find, Harder, Low, Medium, High, Critical
<1>1. Tiered(C1(e)) /\ Tiered(C2(e)) /\ Tiered(C3(e)) /\ Tiered(C4(e)) /\ Tiered(C5(e))
    BY DEF C1, C2, C3, C4, C5
<1>2. Tiered(C6(e)) /\ Tiered(C7(e)) /\ Tiered(C8(e)) /\ Tiered(C9(e)) /\ Tiered(C10(e))
    BY DEF C6, C7, C8, C9, C10
<1>3. Tiered(C11(e)) /\ Tiered(C12(e)) /\ Tiered(C13(e)) /\ Tiered(C14(e))
    BY DEF C11, C12, C13, C14
<1> QED BY <1>1, <1>2, <1>3 DEF OnIdentity

(* The plans beyond the guard run the detections of mail; reading inbound  *)
(* mail is all that those of money and of disguise need.                   *)
LEMMA MoneyRuns ==
    ASSUME NEW n \in {1, 2, 3, 4, 5, 6, 7, 14}
    PROVE  /\ Requires(A(n)) = {"inbound"} /\ A(n)[1] = "A"
           /\ \A m : A(n) \in Skipped(m) => n = 7 /\ "vouched" \in m
<1>1. A(n)[1] = "A" /\ A(n)[2] = n
    BY DEF A
<1>2. Requires(A(n)) = {"inbound"}
    BY <1>1 DEF Requires
<1>3. \A m : A(n) \in Skipped(m) => n = 7 /\ "vouched" \in m
    BY <1>1 DEF Skipped, Where
<1> QED BY <1>1, <1>2, <1>3

LEMMA TravelRuns ==
    ASSUME NEW n \in {7, 8, 9}
    PROVE  Requires(<<"C", n>>) = {"sessions"} /\ \A m : <<"C", n>> \notin Skipped(m)
<1> DEFINE s == <<"C", n>>
<1>1. s[1] = "C" /\ s[2] = n
    OBVIOUS
<1> HIDE DEF s
<1>2. Requires(s) = {"sessions"}
    BY <1>1 DEF Requires
<1>3. \A m : s \notin Skipped(m)
    BY <1>1 DEF Skipped, Where
<1> QED BY <1>2, <1>3 DEF s

(* A finding of a service that runs is kept.                               *)
LEMMA Kept ==
    ASSUME NEW F, NEW m, NEW able, NEW p, NEW f \in F, Requires(f.service) \subseteq able,
           f.service[1] \in Included(p), f.service \notin Skipped(m)
    PROVE  f \in RunAll(F, m, able, p) /\ f.service \in Services(RunAll(F, m, able, p))
BY DEF RunAll, Services

(* A changed account is found, and is Critical with a call.                *)
LEMMA ChangeFound ==
    ASSUME NEW m, NEW able, NEW p, "inbound" \in able, "A" \in Included(p),
           {"external", "payment", "account", "changed", "baseline"} \subseteq m
    PROVE  LET F == RunAll(OnMail(m), m, able, p) IN Assess(F) = Critical /\ Callback(F)
<1> DEFINE F == RunAll(OnMail(m), m, able, p)
           f == [service |-> A(1), tier |-> Critical]
<1>1. f \in OnMail(m)
    BY DEF OnMail, A1, From, Where, Find, A
<1>2. f.service = A(1) /\ f.tier = Critical
    OBVIOUS
<1>3. f \in F /\ A(1) \in Services(F)
    BY <1>1, <1>2, MoneyRuns, Kept
<1>4. Tiered(F)
    BY MailTiered DEF Tiered, RunAll
<1> HIDE DEF F, f
<1>5. Assess(F) \in Tiers /\ Critical <= Assess(F)
    BY <1>2, <1>3, <1>4, AssessIs
<1>6. Assess(F) = Critical
    BY <1>5 DEF Tiers, NoTier, Critical
<1> QED BY <1>3, <1>6 DEF Callback, F

(* A first strike is found: its request for money with the disguise it     *)
(* wears, or with being a stranger's and urgent.                           *)
LEMMA StrikeFound ==
    ASSUME NEW m, NEW able, NEW p, "inbound" \in able, "A" \in Included(p), FirstStrike(m)
    PROVE  LET F == RunAll(OnMail(m), m, able, p) IN Assess(F) = Critical /\ Callback(F)
<1> DEFINE F == RunAll(OnMail(m), m, able, p)
<1>1. /\ {"external", "payment", "account"} \subseteq Body(m)
      /\ "met" \notin m /\ "baseline" \notin m
      /\ Disguise \cap m # {} \/ ("urgent" \in m /\ "vouched" \notin m)
    BY DEF FirstStrike
<1>2. "external" \in m /\ "payment" \in m
    BY <1>1 DEF Body
<1>3. ASSUME NEW n \in {1, 2, 3, 4, 5, 6, 7, 14}, n = 7 => "vouched" \notin m,
             NEW f \in OnMail(m), f.service = A(n)
      PROVE  A(n) \in Services(F)
    BY <1>3, MoneyRuns, Kept
<1>4. A(2) \in Services(F)
  <2>1. [service |-> A(2), tier |-> Medium] \in OnMail(m)
      BY <1>1 DEF OnMail, A2, From, Where, Find, A
  <2> QED BY <1>3, <2>1
<1>5. \E c \in Forcing : c \subseteq Services(F)
  <2>1. CASE Disguise \cap m # {}
    <3>1. \E n \in 3..6 : \E f \in OnMail(m) : f.service = A(n)
      <4>1. CASE m \cap {"cousin", "swapped", "homoglyph"} # {}
        <5>1. \E n \in {3, 4} : \E f \in A3(m) : f.service = A(n)
            BY <1>2, <4>1 DEF A3, Where, Find, A
        <5> QED BY <5>1 DEF OnMail
      <4>2. CASE m \cap {"cousin", "swapped", "homoglyph"} = {} /\ "colleague" \in m
        <5>1. \E f \in A3(m) : f.service = A(5)
            BY <1>2, <4>2 DEF A3, Where, Find, A
        <5> QED BY <5>1 DEF OnMail
      <4>3. CASE "brand" \in m
        <5>1. \E f \in A5(m) : f.service = A(5)
            BY <1>2, <4>3 DEF A5, From, Where, Find, A
        <5> QED BY <5>1 DEF OnMail
      <4>4. CASE "rerouted" \in m
        <5>1. \E f \in A6(m) : f.service = A(6)
          <6>1. [service |-> A(6), tier |-> Harder(m, "payment", High, Medium)] \in A6(m)
              BY <1>2, <4>4 DEF A6, From, Where, Find, A
          <6> QED BY <6>1
        <5> QED BY <5>1 DEF OnMail
      <4> QED BY <2>1, <4>1, <4>2, <4>3, <4>4 DEF Disguise
    <3>2. PICK n \in 3..6 : \E f \in OnMail(m) : f.service = A(n)
        BY <3>1
    <3>3. A(n) \in Services(F)
        BY <1>3, <3>2
    <3>4. {A(2), A(n)} \in Forcing
        BY DEF Forcing
    <3> QED BY <1>4, <3>3, <3>4
  <2>2. CASE "urgent" \in m /\ "vouched" \notin m
    <3>1. \E f \in OnMail(m) : f.service = A(7)
      <4>1. \E f \in A7(m) : f.service = A(7)
          BY <1>1, <1>2 DEF A7, From, Where, Find, A
      <4> QED BY <4>1 DEF OnMail
    <3>2. \E f \in OnMail(m) : f.service = A(14)
      <4>1. \E f \in A14(m) : f.service = A(14)
          BY <1>2, <2>2 DEF A14, From, Where, Find, A
      <4> QED BY <4>1 DEF OnMail
    <3>3. A(7) \in Services(F) /\ A(14) \in Services(F)
        BY <1>3, <2>2, <3>1, <3>2
    <3>4. {A(2), A(7), A(14)} \in Forcing
        BY DEF Forcing
    <3> QED BY <1>4, <3>3, <3>4
  <2> QED BY <1>1, <2>1, <2>2
<1>6. Tiered(F)
    BY MailTiered DEF Tiered, RunAll
<1> HIDE DEF F
<1>7. Assess(F) = Critical
    BY <1>5, <1>6, AssessIs DEF Forced
<1> QED BY <1>4, <1>7 DEF Callback, F

(* A move abroad is found as a relocation, as impossible travel or by the  *)
(* network that hides it.                                                  *)
LEMMA MoveFound ==
    ASSUME NEW e, NEW able, NEW p, "sessions" \in able, "C" \in Included(p), SignedIn(e),
           {"previous", "abroad"} \subseteq e, "fast" \in e => "far" \in e
    PROVE  Assess(RunAll(OnIdentity(e), e, able, p)) >= Medium
<1> DEFINE F == RunAll(OnIdentity(e), e, able, p)
<1>1. \E n \in {7, 8, 9} : \E f \in OnIdentity(e) : f.service = <<"C", n>> /\ f.tier >= Medium
  <2>1. CASE "fast" \notin e
    <3>1. \E f \in C8(e) : f.service = <<"C", 8>> /\ f.tier >= Medium
      <4>1. [service |-> <<"C", 8>>, tier |-> Medium] \in C8(e)
          BY <2>1 DEF C8, Where, Find
      <4>2. Medium >= Medium
          BY DEF Medium, High
      <4> QED BY <4>1, <4>2
    <3> QED BY <3>1 DEF OnIdentity
  <2>2. CASE "fast" \in e /\ e \cap {"vpn", "proxy", "tor"} = {}
    <3>1. \E f \in C7(e) : f.service = <<"C", 7>> /\ f.tier >= Medium
      <4>1. [service |-> <<"C", 7>>, tier |-> High] \in C7(e)
          BY <2>2 DEF C7, Where, Find
      <4>2. High >= Medium
          BY DEF Medium, High
      <4> QED BY <4>1, <4>2
    <3> QED BY <3>1 DEF OnIdentity
  <2>3. CASE e \cap {"vpn", "proxy", "tor"} # {}
    <3>1. \E f \in C9(e) : f.service = <<"C", 9>> /\ f.tier >= Medium
      <4>1. [service |-> <<"C", 9>>, tier |-> (IF e \cap {"tor", "hosting"} # {} THEN High ELSE Medium)] \in C9(e)
          BY <2>3 DEF C9, Masked, Where, Find
      <4>2. (IF e \cap {"tor", "hosting"} # {} THEN High ELSE Medium) >= Medium
          BY DEF Medium, High
      <4> QED BY <4>1, <4>2
    <3> QED BY <3>1 DEF OnIdentity
  <2> QED BY <2>1, <2>2, <2>3
<1>2. PICK n \in {7, 8, 9}, f \in OnIdentity(e) : f.service = <<"C", n>> /\ f.tier >= Medium
    BY <1>1
<1>3. f \in F
  <2>1. Requires(f.service) \subseteq able /\ f.service \notin Skipped(e)
      BY <1>2, TravelRuns
  <2>2. f.service[1] = "C"
      BY <1>2
  <2> QED BY <2>1, <2>2, Kept
<1>4. Tiered(F)
    BY IdentityTiered DEF Tiered, RunAll
<1> HIDE DEF F
<1>5. Assess(F) \in Tiers /\ f.tier <= Assess(F) /\ f.tier \in Low..Critical
    BY <1>3, <1>4, AssessIs DEF Tiered
<1>6. Assess(F) >= Medium
    BY <1>2, <1>5 DEF Tiers, NoTier, Low, Medium, Critical
<1> QED BY <1>6 DEF F

(* An analysis: what it found, what it makes of it, and what it has read   *)
(* before it writes.                                                       *)
Record(r) ==
    /\ r = [stage |-> r.stage, kind |-> r.kind, account |-> r.account, facts |-> r.facts,
            found |-> r.found, tier |-> r.tier, callback |-> r.callback, called |-> r.called,
            seen |-> r.seen, nth |-> r.nth]
    /\ r.stage \in {"idle", "read", "asking", "judged", "learned"}
    /\ r.tier \in Tiers /\ r.callback \in BOOLEAN /\ r.called \in BOOLEAN /\ r.nth \in Nat
    /\ r.stage # "idle" => r.nth > 0
    /\ r.stage \in {"idle", "read", "asking"} => ~r.called

\* Until the judge answers, the assessment is that of the findings.
Assessed(r) ==
    /\ r.stage = "read" =>
          Tiered(r.found) /\ r.tier = Assess(r.found) /\ r.callback = Callback(r.found)
    /\ r.stage = "asking" => r.tier \in {Medium, High}

Fraud(facts) ==
    \/ {"external", "payment", "account", "changed"} \subseteq facts
    \/ FirstStrike(facts)
Reported(r) ==
    r.stage # "idle" /\ r.kind = "mail" /\ plan # "guard" /\ Fraud(r.facts) =>
        r.tier = Critical /\ r.callback
Moved(r) ==
    /\ r.kind = "identity" /\ plan = "complete" /\ "sensor" \in source
    /\ SignedIn(r.facts) /\ {"previous", "abroad"} \subseteq r.facts
    /\ "fast" \in r.facts => "far" \in r.facts
Travelled(r) == r.stage # "idle" /\ Moved(r) => r.tier >= Medium

\* What it learns is of a mail that is not reported high.
Taught(r) ==
    r.stage = "learned" =>
        /\ r.seen = <<r.seen[1], r.seen[2]>> /\ r.seen[1] \in Nat /\ NoAccount \notin r.seen[2]
        /\ r.seen[2] # {} => r.kind = "mail" /\ r.tier \notin {High, Critical}

Sound(r) == Record(r) /\ Assessed(r) /\ Reported(r) /\ Travelled(r) /\ Taught(r)

Setting ==
    /\ plan \in Plans /\ source \in Sources /\ together \in BOOLEAN
    /\ calls \in Nat /\ paid \in Nat /\ lost \in Nat /\ arrived \in Nat /\ arrived <= MaxEvents
    /\ holder \in Job \cup {Nobody} /\ jobs = [j \in Job |-> jobs[j]]
Store ==
    /\ cp = [count |-> cp.count, banks |-> cp.banks, phone |-> cp.phone]
    /\ cp.count \in Nat /\ cp.phone \in BOOLEAN /\ NoAccount \notin cp.banks
\* Only the holder of the usage row asks, and its own claim is not paid yet.
Claims ==
    /\ \A j \in Job : jobs[j].called => holder = j /\ paid > lost
    /\ \A j \in Job : jobs[j].stage = "asking" => holder = j /\ calls <= Cap
    /\ holder # Nobody =>
          /\ jobs[holder].stage \notin {"idle", "read"} /\ calls > 0
          /\ ~jobs[holder].called => paid <= calls - 1 + lost
    /\ lost <= paid /\ paid <= calls + lost /\ paid <= Cap + lost
\* Each mail is counted once, by the analysis that saw it.
Active == {j \in Job : jobs[j].stage # "idle"}
Counted ==
    /\ cp.count + Cardinality(Active) <= 10 + arrived
    /\ \A j \in Job : jobs[j].stage = "learned" => jobs[j].seen[1] + Cardinality(Active) <= 10 + arrived
\* While analyses take turns, an account is learned when there is none.
Turns ==
    /\ ~together => /\ \A j, k \in Job : jobs[j].stage = "learned" /\ jobs[k].stage = "learned" => j = k
                    /\ \A j \in Job : jobs[j].stage = "learned" /\ jobs[j].seen[2] # {} => cp.banks = {}
    /\ taught # {} => cp.banks # {}
Lessons ==
    /\ plan # "guard" => \A t \in taught : ~FirstStrike(t.facts)
    /\ OneBaseline

AnalysisInv ==
    /\ Setting /\ Store /\ (\A j \in Job : Sound(jobs[j]))
    /\ Claims /\ Counted /\ Turns /\ Lessons

(* Nothing is analysed, learned or paid for at first.                      *)
LEMMA IdleSound == Sound(Idle)
<1>1. Record(Idle)
    BY DEF Record, Idle, Tiers, NoTier, Critical
<1>2. Assessed(Idle) /\ Reported(Idle) /\ Travelled(Idle) /\ Taught(Idle)
    BY DEF Assessed, Reported, Travelled, Taught, Idle
<1> QED BY <1>1, <1>2 DEF Sound

LEMMA AnalysisStart == Init => AnalysisInv
<1> SUFFICES ASSUME Init PROVE AnalysisInv
    OBVIOUS
<1>1. /\ cp \in History /\ plan \in Plans /\ source \in Sources
      /\ jobs = [j \in Job |-> Idle] /\ calls = 0 /\ holder = Nobody /\ paid = 0 /\ lost = 0
      /\ arrived = 0 /\ taught = {} /\ together = FALSE
    BY DEF Init
<1>2. \A j \in Job : jobs[j] = Idle
    BY <1>1
<1>3. Idle.stage = "idle" /\ Idle.called = FALSE
    BY DEF Idle
<1>4. Setting
  <2>1. jobs = [j \in Job |-> jobs[j]]
      BY <1>1
  <2>2. MaxEvents \in Nat /\ arrived = 0
      BY <1>1, AnalysisBounds
  <2>3. arrived \in Nat /\ arrived <= MaxEvents
      BY <2>2
  <2>4. plan \in Plans /\ source \in Sources /\ together \in BOOLEAN /\ holder \in Job \cup {Nobody}
      BY <1>1
  <2>5. calls \in Nat /\ paid \in Nat /\ lost \in Nat
      BY <1>1
  <2> QED BY <2>1, <2>3, <2>4, <2>5 DEF Setting
<1>5. Store /\ cp.count \in 0..10
    BY <1>1, AnalysisBounds DEF Store
<1>6. \A j \in Job : Sound(jobs[j])
    BY <1>2, IdleSound
<1>7. Claims
    BY <1>1, <1>2, <1>3, AnalysisBounds DEF Claims
<1>8. Active = {}
    BY <1>2, <1>3 DEF Active
<1>9. Cardinality(Active) = 0
    BY <1>8, FS_EmptySet
<1>10. Counted /\ Turns /\ Lessons
    BY <1>1, <1>2, <1>3, <1>5, <1>9 DEF Counted, Turns, Lessons, OneBaseline
<1> QED BY <1>4, <1>5, <1>6, <1>7, <1>10 DEF AnalysisInv

(* One analysis becomes another; the others are as they were.              *)
Becomes(j, r) == jobs' = [jobs EXCEPT ![j] = r]

LEMMA BecomesIs ==
    ASSUME Setting, NEW j \in Job, NEW r, Becomes(j, r)
    PROVE  /\ jobs'[j] = r /\ \A k \in Job \ {j} : jobs'[k] = jobs[k]
           /\ jobs' = [k \in Job |-> jobs'[k]]
BY DEF Setting, Becomes

LEMMA SoundAfter ==
    ASSUME AnalysisInv, NEW j \in Job, NEW r, Becomes(j, r), Sound(r), UNCHANGED <<plan, source>>
    PROVE  \A k \in Job : Sound(jobs[k])'
<1>1. /\ jobs'[j] = r /\ \A k \in Job \ {j} : jobs'[k] = jobs[k]
    BY BecomesIs DEF AnalysisInv
<1>2. \A k \in Job : Sound(jobs'[k])
    BY <1>1 DEF AnalysisInv
<1> QED BY <1>2 DEF Sound, Record, Assessed, Reported, Travelled, Taught, Moved, Fraud, FirstStrike

(* Analyses in progress are finite in number; one more or one less counts. *)
LEMMA ActiveIs ==
    ASSUME Setting, NEW j \in Job, NEW r, Becomes(j, r)
    PROVE  /\ Cardinality(Active) \in Nat /\ Cardinality(Active') \in Nat
           /\ jobs[j].stage # "idle" /\ r.stage # "idle" => Cardinality(Active') = Cardinality(Active)
           /\ jobs[j].stage = "idle" => Cardinality(Active') <= Cardinality(Active) + 1
           /\ jobs[j].stage # "idle" /\ r.stage = "idle" => Cardinality(Active') = Cardinality(Active) - 1
<1>1. /\ jobs'[j] = r /\ \A k \in Job \ {j} : jobs'[k] = jobs[k]
    BY BecomesIs
<1>2. IsFiniteSet(Active) /\ IsFiniteSet(Active') /\ Cardinality(Active) \in Nat /\ Cardinality(Active') \in Nat
    BY AnalysisBounds, FS_Subset, FS_CardinalityType DEF Active
<1>3. ASSUME jobs[j].stage # "idle", r.stage # "idle" PROVE Active' = Active
    BY <1>1, <1>3 DEF Active
<1>4. ASSUME jobs[j].stage = "idle" PROVE Cardinality(Active') <= Cardinality(Active) + 1
  <2>1. Active' \subseteq Active \cup {j} /\ j \notin Active
      BY <1>1, <1>4 DEF Active
  <2>2. IsFiniteSet(Active \cup {j}) /\ Cardinality(Active \cup {j}) = Cardinality(Active) + 1
      BY <1>2, <2>1, FS_AddElement
  <2>3. Cardinality(Active') <= Cardinality(Active \cup {j})
      BY <2>1, <2>2, FS_Subset
  <2> QED BY <2>2, <2>3
<1>5. ASSUME jobs[j].stage # "idle", r.stage = "idle" PROVE Cardinality(Active') = Cardinality(Active) - 1
  <2>1. Active' = Active \ {j} /\ j \in Active
      BY <1>1, <1>5 DEF Active
  <2> QED BY <1>2, <2>1, FS_RemoveElement
<1> QED BY <1>2, <1>3, <1>4, <1>5

(* What a step of one analysis leaves, if it does not come to learn.       *)
LEMMA TurnsKept ==
    ASSUME Setting, Turns, Lessons, NEW j \in Job, NEW r, Becomes(j, r), r.stage # "learned",
           UNCHANGED <<cp, plan, taught, together>>
    PROVE  Turns' /\ Lessons'
<1>1. /\ jobs'[j] = r /\ \A k \in Job \ {j} : jobs'[k] = jobs[k]
    BY BecomesIs
<1>2. \A k \in Job : jobs'[k].stage = "learned" => jobs[k].stage = "learned" /\ jobs'[k] = jobs[k]
    BY <1>1
<1>3. Turns'
    BY <1>2 DEF Turns
<1>4. Lessons'
    BY DEF Lessons, OneBaseline, FirstStrike
<1> QED BY <1>3, <1>4

(* Reading: what the detections find of the facts is what they amount to.  *)
LEMMA ContextIs ==
    ASSUME Setting, NEW e \in Event
    PROVE  /\ "inbound" \in Capabilities
           /\ plan # "guard" => "A" \in Included(plan)
           /\ plan = "complete" => "C" \in Included(plan)
           /\ "sensor" \in source => "sessions" \in Capabilities
           /\ e.kind = "mail" /\ "changed" \in Context(e) => "baseline" \in Context(e)
<1>1. "inbound" \in Capabilities
    BY AnalysisBounds DEF Setting, Capabilities
<1>2. /\ plan # "guard" => "A" \in Included(plan)
      /\ plan = "complete" => "C" \in Included(plan)
    BY AnalysisBounds DEF Setting, Included
<1>3. ASSUME "sensor" \in source PROVE "sessions" \in Capabilities
  <2>1. "sessions" \in Can("sensor")
      BY DEF Can
  <2> QED BY <1>3, <2>1 DEF Capabilities
<1>4. ASSUME e.kind = "mail", "changed" \in Context(e) PROVE "baseline" \in Context(e)
  <2>1. "changed" \notin e.facts
      BY <1>4, AnalysisBounds DEF OfTheStore
  <2>2. "changed" \in Stored(e)
      BY <1>4, <2>1 DEF Context
  <2>3. cp.banks # {}
      BY <2>2 DEF Stored, Where
  <2>4. "baseline" \in Stored(e)
      BY <2>3 DEF Stored, Where
  <2> QED BY <1>4, <2>4 DEF Context
<1> QED BY <1>1, <1>2, <1>3, <1>4

LEMMA ReadKeeps ==
    ASSUME AnalysisInv, NEW j \in Job, NEW e \in Event, Read(j, e)
    PROVE  AnalysisInv'
<1> DEFINE facts == Context(e)
           F == RunAll(IF e.kind = "mail" THEN OnMail(facts) ELSE OnIdentity(facts),
                       facts, Capabilities, plan)
           r == [stage |-> "read", kind |-> e.kind, account |-> e.account, facts |-> facts, found |-> F,
                 tier |-> Assess(F), callback |-> Callback(F), called |-> FALSE, seen |-> <<>>,
                 nth |-> arrived + 1]
<1>1. /\ jobs[j].stage = "idle" /\ arrived < MaxEvents /\ arrived' = arrived + 1
      /\ UNCHANGED <<cp, plan, source, calls, holder, paid, lost, taught, together>>
    BY DEF Read
<1>2. Becomes(j, r)
    BY DEF Read, Becomes
<1>3. Setting /\ Store /\ Claims /\ Counted /\ Turns /\ Lessons
    BY DEF AnalysisInv
<1>4. Tiered(F)
    BY MailTiered, IdentityTiered DEF Tiered, RunAll
<1>5. Sound(r)
  <2>1. Assess(F) \in Tiers /\ Callback(F) \in BOOLEAN
      BY <1>4, AssessIs DEF Callback
  <2>2. ASSUME e.kind = "mail", plan # "guard", Fraud(facts) PROVE Assess(F) = Critical /\ Callback(F)
    <3>1. F = RunAll(OnMail(facts), facts, Capabilities, plan)
        BY <2>2
    <3>2. "inbound" \in Capabilities /\ "A" \in Included(plan)
        BY <1>3, <2>2, ContextIs
    <3> HIDE DEF F
    <3>3. CASE FirstStrike(facts)
        BY <3>1, <3>2, <3>3, StrikeFound
    <3>4. CASE {"external", "payment", "account", "changed"} \subseteq facts
      <4>1. "baseline" \in facts
          BY <1>3, <2>2, <3>4, ContextIs
      <4> HIDE DEF facts
      <4>2. {"external", "payment", "account", "changed", "baseline"} \subseteq facts
          BY <3>4, <4>1
      <4> QED BY <3>1, <3>2, <4>2, ChangeFound
    <3> QED BY <2>2, <3>3, <3>4 DEF Fraud
  <2>3. ASSUME Moved(r) PROVE Assess(F) >= Medium
    <3>1. /\ e.kind = "identity" /\ plan = "complete" /\ "sensor" \in source
          /\ SignedIn(facts) /\ {"previous", "abroad"} \subseteq facts
          /\ "fast" \in facts => "far" \in facts
        BY <2>3 DEF Moved
    <3>2. "sessions" \in Capabilities /\ "C" \in Included(plan)
        BY <1>3, <3>1, ContextIs
    <3>3. F = RunAll(OnIdentity(facts), facts, Capabilities, plan)
        BY <3>1
    <3> HIDE DEF F, facts
    <3> QED BY <3>1, <3>2, <3>3, MoveFound
  <2>4. arrived + 1 \in Nat /\ arrived + 1 > 0
      BY <1>3 DEF Setting
  <2> HIDE DEF F, facts
  <2>5. Record(r) /\ Assessed(r) /\ Taught(r)
      BY <1>4, <2>1, <2>4 DEF Record, Assessed, Taught
  <2>6. Reported(r) /\ Travelled(r)
      BY <2>2, <2>3 DEF Reported, Travelled
  <2> QED BY <2>5, <2>6 DEF Sound
<1>6. r.stage = "read" /\ r.called = FALSE
    OBVIOUS
<1> HIDE DEF r
<1>7. /\ jobs'[j] = r /\ \A k \in Job \ {j} : jobs'[k] = jobs[k]
      /\ jobs' = [k \in Job |-> jobs'[k]]
    BY <1>2, <1>3, BecomesIs
<1>8. Setting' /\ Store'
    BY <1>1, <1>3, <1>7, AnalysisBounds DEF Setting, Store
<1>9. \A k \in Job : Sound(jobs[k])'
    BY <1>1, <1>2, <1>5, SoundAfter
<1>10. Claims'
    BY <1>1, <1>3, <1>6, <1>7 DEF Claims, Setting
<1>11. Cardinality(Active) \in Nat /\ Cardinality(Active') \in Nat
       /\ Cardinality(Active') <= Cardinality(Active) + 1
    BY <1>1, <1>2, <1>3, ActiveIs
<1>12. Counted'
  <2>1. cp.count \in Nat /\ arrived \in Nat
      BY <1>3 DEF Setting, Store
  <2>2. \A k \in Job : jobs'[k].stage = "learned" =>
            jobs'[k] = jobs[k] /\ jobs[k].seen[1] \in Nat
      BY <1>6, <1>7 DEF AnalysisInv, Sound, Taught
  <2>3. ASSUME NEW k \in Job, jobs'[k].stage = "learned"
        PROVE  jobs'[k].seen[1] + Cardinality(Active') <= 10 + arrived'
    <3>1. jobs[k].seen[1] + Cardinality(Active) <= 10 + arrived /\ jobs[k].seen[1] \in Nat
        BY <1>3, <2>2, <2>3 DEF Counted
    <3> QED BY <1>1, <1>11, <2>1, <2>2, <2>3, <3>1
  <2>4. cp.count + Cardinality(Active) <= 10 + arrived
      BY <1>3 DEF Counted
  <2>5. cp'.count + Cardinality(Active') <= 10 + arrived'
      BY <1>1, <1>11, <2>1, <2>4
  <2> QED BY <2>3, <2>5 DEF Counted
<1>13. Turns' /\ Lessons'
    BY <1>1, <1>2, <1>3, <1>6, TurnsKept
<1> QED BY <1>8, <1>9, <1>10, <1>12, <1>13 DEF AnalysisInv

(* An analysis that goes on: what it is of stays.                          *)
GoneOn(j, s, t, c, d, n) ==
    [stage |-> s, kind |-> jobs[j].kind, account |-> jobs[j].account, facts |-> jobs[j].facts,
     found |-> jobs[j].found, tier |-> t, callback |-> c, called |-> d, seen |-> n, nth |-> jobs[j].nth]

LEMMA StageMoves ==
    ASSUME AnalysisInv, NEW j \in Job, NEW s, jobs' = [jobs EXCEPT ![j].stage = s]
    PROVE  Becomes(j, GoneOn(j, s, jobs[j].tier, jobs[j].callback, jobs[j].called, jobs[j].seen))
<1>1. /\ jobs' = [jobs EXCEPT ![j] = [jobs[j] EXCEPT !.stage = s]]
    OBVIOUS
<1>2. PICK r : r = jobs[j]
    OBVIOUS
<1>3. r = [stage |-> r.stage, kind |-> r.kind, account |-> r.account, facts |-> r.facts,
           found |-> r.found, tier |-> r.tier, callback |-> r.callback, called |-> r.called,
           seen |-> r.seen, nth |-> r.nth]
    BY <1>2 DEF AnalysisInv, Sound, Record
<1>4. [r EXCEPT !.stage = s]
        = [stage |-> s, kind |-> r.kind, account |-> r.account, facts |-> r.facts,
           found |-> r.found, tier |-> r.tier, callback |-> r.callback, called |-> r.called,
           seen |-> r.seen, nth |-> r.nth]
    BY <1>3
<1> QED BY <1>1, <1>2, <1>4 DEF Becomes, GoneOn

LEMMA AnswerMoves ==
    ASSUME AnalysisInv, NEW j \in Job, NEW t, NEW c \in BOOLEAN,
           jobs' = [jobs EXCEPT ![j].stage = "judged", ![j].called = TRUE, ![j].tier = t,
                                ![j].callback = @ \/ c]
    PROVE  Becomes(j, GoneOn(j, "judged", t, jobs[j].callback \/ c, TRUE, jobs[j].seen))
<1>1. PICK r : r = jobs[j]
    OBVIOUS
<1>2. jobs' = [jobs EXCEPT ![j] = [r EXCEPT !.stage = "judged", !.called = TRUE, !.tier = t,
                                            !.callback = @ \/ c]]
    BY <1>1
<1>3. r = [stage |-> r.stage, kind |-> r.kind, account |-> r.account, facts |-> r.facts,
           found |-> r.found, tier |-> r.tier, callback |-> r.callback, called |-> r.called,
           seen |-> r.seen, nth |-> r.nth]
    BY <1>1 DEF AnalysisInv, Sound, Record
<1>4. PICK r1 : r1 = [r EXCEPT !.stage = "judged"]
    OBVIOUS
<1>5. r1 = [stage |-> "judged", kind |-> r.kind, account |-> r.account, facts |-> r.facts,
           found |-> r.found, tier |-> r.tier, callback |-> r.callback, called |-> r.called,
           seen |-> r.seen, nth |-> r.nth]
    BY <1>3, <1>4
<1>6. PICK r2 : r2 = [r1 EXCEPT !.called = TRUE]
    OBVIOUS
<1>7. r2 = [stage |-> "judged", kind |-> r.kind, account |-> r.account, facts |-> r.facts,
           found |-> r.found, tier |-> r.tier, callback |-> r.callback, called |-> TRUE,
           seen |-> r.seen, nth |-> r.nth]
    BY <1>5, <1>6
<1>8. PICK r3 : r3 = [r2 EXCEPT !.tier = t]
    OBVIOUS
<1>9. r3 = [stage |-> "judged", kind |-> r.kind, account |-> r.account, facts |-> r.facts,
           found |-> r.found, tier |-> t, callback |-> r.callback, called |-> TRUE,
           seen |-> r.seen, nth |-> r.nth]
    BY <1>7, <1>8
<1>10. [r EXCEPT !.stage = "judged", !.called = TRUE, !.tier = t, !.callback = @ \/ c]
         = [r3 EXCEPT !.callback = @ \/ c]
    BY <1>4, <1>6, <1>8
<1>11. [r3 EXCEPT !.callback = @ \/ c]
         = [stage |-> "judged", kind |-> r.kind, account |-> r.account, facts |-> r.facts,
           found |-> r.found, tier |-> t, callback |-> r.callback \/ c, called |-> TRUE,
           seen |-> r.seen, nth |-> r.nth]
  <2>1. PICK d : d = (r.callback \/ c)
      OBVIOUS
  <2>2. r3.callback = r.callback
      BY <1>9
  <2>3. [r3 EXCEPT !.callback = @ \/ c] = [r3 EXCEPT !.callback = d]
      BY <2>1, <2>2
  <2>4. PICK y, e : y = "judged" /\ e = TRUE
      OBVIOUS
  <2>5. r3 = [stage |-> y, kind |-> r.kind, account |-> r.account, facts |-> r.facts,
             found |-> r.found, tier |-> t, callback |-> r.callback, called |-> e,
             seen |-> r.seen, nth |-> r.nth]
      BY ONLY <1>9, <2>4
  <2>6. [r3 EXCEPT !.callback = d]
          = [stage |-> y, kind |-> r.kind, account |-> r.account, facts |-> r.facts,
             found |-> r.found, tier |-> t, callback |-> d, called |-> e,
             seen |-> r.seen, nth |-> r.nth]
      BY ONLY <2>5
  <2>7. [r3 EXCEPT !.callback = d]
          = [stage |-> "judged", kind |-> r.kind, account |-> r.account, facts |-> r.facts,
             found |-> r.found, tier |-> t, callback |-> d, called |-> TRUE,
             seen |-> r.seen, nth |-> r.nth]
      BY ONLY <2>4, <2>6
  <2> QED BY <2>1, <2>3, <2>7
<1> QED BY <1>1, <1>2, <1>10, <1>11 DEF Becomes, GoneOn

LEMMA LearnMoves ==
    ASSUME AnalysisInv, NEW j \in Job, NEW n,
           jobs' = [jobs EXCEPT ![j].stage = "learned", ![j].seen = n]
    PROVE  Becomes(j, GoneOn(j, "learned", jobs[j].tier, jobs[j].callback, jobs[j].called, n))
<1>1. PICK r : r = jobs[j]
    OBVIOUS
<1>2. jobs' = [jobs EXCEPT ![j] = [r EXCEPT !.stage = "learned", !.seen = n]]
    BY <1>1
<1>3. r = [stage |-> r.stage, kind |-> r.kind, account |-> r.account, facts |-> r.facts,
           found |-> r.found, tier |-> r.tier, callback |-> r.callback, called |-> r.called,
           seen |-> r.seen, nth |-> r.nth]
    BY <1>1 DEF AnalysisInv, Sound, Record
<1>4. PICK r1 : r1 = [r EXCEPT !.stage = "learned"]
    OBVIOUS
<1>5. r1 = [stage |-> "learned", kind |-> r.kind, account |-> r.account, facts |-> r.facts,
           found |-> r.found, tier |-> r.tier, callback |-> r.callback, called |-> r.called,
           seen |-> r.seen, nth |-> r.nth]
    BY <1>3, <1>4
<1>6. [r EXCEPT !.stage = "learned", !.seen = n] = [r1 EXCEPT !.seen = n]
    BY <1>4
<1>7. [r1 EXCEPT !.seen = n] = [stage |-> "learned", kind |-> r.kind, account |-> r.account, facts |-> r.facts,
           found |-> r.found, tier |-> r.tier, callback |-> r.callback, called |-> r.called,
           seen |-> n, nth |-> r.nth]
    BY <1>5
<1> QED BY <1>1, <1>2, <1>6, <1>7 DEF Becomes, GoneOn

(* A step that neither stores nor finishes leaves the counts as they were. *)
LEMMA CountedKept ==
    ASSUME Setting, Counted, NEW j \in Job, NEW r, Becomes(j, r),
           jobs[j].stage # "idle", r.stage \notin {"idle", "learned"}, UNCHANGED <<cp, arrived>>
    PROVE  Counted'
<1>1. /\ jobs'[j] = r /\ \A k \in Job \ {j} : jobs'[k] = jobs[k]
    BY BecomesIs
<1>2. Cardinality(Active') = Cardinality(Active)
    BY ActiveIs
<1> QED BY <1>1, <1>2 DEF Counted

(* A claim takes the usage row; over the cap nothing is asked.             *)
LEMMA ReserveKeeps ==
    ASSUME AnalysisInv, NEW j \in Job, Reserve(j)
    PROVE  AnalysisInv'
<1> DEFINE s == IF UnderCap(calls + 1) THEN "asking" ELSE "judged"
           q == jobs[j]
           r == GoneOn(j, s, q.tier, q.callback, q.called, q.seen)
<1>1. /\ q.stage = "read" /\ Judging(j) /\ holder = Nobody
      /\ calls' = calls + 1 /\ holder' = j /\ jobs' = [jobs EXCEPT ![j].stage = s]
      /\ UNCHANGED <<cp, plan, source, paid, lost, arrived, taught, together>>
    BY DEF Reserve
<1>2. Becomes(j, r)
    BY <1>1, StageMoves
<1>3. Setting /\ Store /\ Claims /\ Counted /\ Turns /\ Lessons /\ Sound(q)
    BY DEF AnalysisInv
<1>4. s \in {"asking", "judged"} /\ (s = "asking" => calls + 1 <= Cap)
    BY DEF UnderCap
<1>5. q.tier \in {Medium, High}
    BY <1>1, <1>3 DEF Sound, Assessed, Judging, ShouldEscalate
<1> HIDE DEF s
<1>6. /\ r.stage = s /\ r.kind = q.kind /\ r.facts = q.facts /\ r.tier = q.tier /\ r.callback = q.callback
      /\ r.called = q.called /\ r.nth = q.nth
    BY DEF GoneOn
<1>7. Sound(r)
  <2>1. Record(r)
      BY <1>1, <1>3, <1>4, <1>6 DEF Sound, Record, GoneOn
  <2>2. Assessed(r) /\ Reported(r) /\ Travelled(r) /\ Taught(r)
      BY <1>1, <1>3, <1>4, <1>5, <1>6 DEF Sound, Assessed, Reported, Travelled, Taught, Moved
  <2> QED BY <2>1, <2>2 DEF Sound
<1>8. r.called = FALSE
    BY <1>1, <1>3, <1>6 DEF Sound, Record
<1> HIDE DEF r
<1>9. /\ jobs'[j] = r /\ \A k \in Job \ {j} : jobs'[k] = jobs[k]
      /\ jobs' = [k \in Job |-> jobs'[k]]
    BY <1>2, <1>3, BecomesIs
<1>10. Setting' /\ Store'
    BY <1>1, <1>3, <1>9 DEF Setting, Store
<1>11. \A k \in Job : Sound(jobs[k])'
    BY <1>1, <1>2, <1>7, SoundAfter
<1>12. Claims'
  <2>1. \A k \in Job : ~jobs'[k].called
      BY <1>1, <1>3, <1>8, <1>9, AnalysisBounds DEF Claims
  <2>2. \A k \in Job : jobs'[k].stage = "asking" => k = j
      BY <1>1, <1>3, <1>9, AnalysisBounds DEF Claims
  <2>3. lost <= paid /\ paid <= calls + lost /\ paid <= Cap + lost /\ calls \in Nat /\ lost \in Nat /\ paid \in Nat
      BY <1>3 DEF Claims, Setting
  <2> QED BY <1>1, <1>4, <1>6, <1>9, <2>1, <2>2, <2>3 DEF Claims
<1>13. Counted'
    BY <1>1, <1>2, <1>3, <1>4, <1>6, CountedKept
<1>14. Turns' /\ Lessons'
    BY <1>1, <1>2, <1>3, <1>4, <1>6, TurnsKept
<1> QED BY <1>10, <1>11, <1>12, <1>13, <1>14 DEF AnalysisInv

(* What is not for the judge goes on as it is.                             *)
LEMMA NotJudgedKeeps ==
    ASSUME AnalysisInv, NEW j \in Job, NotJudged(j)
    PROVE  AnalysisInv'
<1> DEFINE q == jobs[j]
           r == GoneOn(j, "judged", q.tier, q.callback, q.called, q.seen)
<1>1. /\ q.stage = "read" /\ jobs' = [jobs EXCEPT ![j].stage = "judged"]
      /\ UNCHANGED <<cp, plan, source, calls, holder, paid, lost, arrived, taught, together>>
    BY DEF NotJudged
<1>2. Becomes(j, r)
    BY <1>1, StageMoves
<1>3. Setting /\ Store /\ Claims /\ Counted /\ Turns /\ Lessons /\ Sound(q)
    BY DEF AnalysisInv
<1>4. /\ r.stage = "judged" /\ r.kind = q.kind /\ r.facts = q.facts /\ r.tier = q.tier
      /\ r.callback = q.callback /\ r.called = q.called /\ r.nth = q.nth
    BY DEF GoneOn
<1>5. Sound(r)
  <2>1. Record(r)
      BY <1>1, <1>3, <1>4 DEF Sound, Record, GoneOn
  <2>2. Assessed(r) /\ Reported(r) /\ Travelled(r) /\ Taught(r)
      BY <1>1, <1>3, <1>4 DEF Sound, Assessed, Reported, Travelled, Taught, Moved
  <2> QED BY <2>1, <2>2 DEF Sound
<1> HIDE DEF r
<1>6. /\ jobs'[j] = r /\ \A k \in Job \ {j} : jobs'[k] = jobs[k]
      /\ jobs' = [k \in Job |-> jobs'[k]]
    BY <1>2, <1>3, BecomesIs
<1>7. Setting' /\ Store'
    BY <1>1, <1>3, <1>6 DEF Setting, Store
<1>8. \A k \in Job : Sound(jobs[k])'
    BY <1>1, <1>2, <1>5, SoundAfter
<1>9. Claims'
    BY <1>1, <1>3, <1>4, <1>6 DEF Claims, Setting
<1>10. Counted'
    BY <1>1, <1>2, <1>3, <1>4, CountedKept
<1>11. Turns' /\ Lessons'
    BY <1>1, <1>2, <1>3, <1>4, TurnsKept
<1> QED BY <1>7, <1>8, <1>9, <1>10, <1>11 DEF AnalysisInv

(* An answer is paid for; it raises the tier or leaves it.                 *)
LEMMA RefinedIs ==
    ASSUME NEW t \in Tiers, NEW answer
    PROVE  Refined(t, answer) \in Tiers /\ Refined(t, answer) >= t
BY DEF Refined, AtMost, Tiers, NoTier, Critical

LEMMA AnswerKeeps ==
    ASSUME AnalysisInv, NEW j \in Job, NEW answer, Answer(j, answer)
    PROVE  AnalysisInv'
<1> DEFINE q == jobs[j]
           t == Refined(q.tier, answer)
           c == answer = "fraud" /\ t = Critical
           r == GoneOn(j, "judged", t, q.callback \/ c, TRUE, q.seen)
<1>1. /\ q.stage = "asking" /\ paid' = paid + 1
      /\ jobs' = [jobs EXCEPT ![j].stage = "judged", ![j].called = TRUE, ![j].tier = t,
                              ![j].callback = @ \/ c]
      /\ UNCHANGED <<cp, plan, source, calls, holder, lost, arrived, taught, together>>
    BY DEF Answer
<1>2. Becomes(j, r)
  <2>1. c \in BOOLEAN
      OBVIOUS
  <2> HIDE DEF c, t
  <2> QED BY <1>1, <2>1, AnswerMoves
<1>3. Setting /\ Store /\ Claims /\ Counted /\ Turns /\ Lessons /\ Sound(q)
    BY DEF AnalysisInv
<1>4. q.tier \in Tiers /\ t \in Tiers /\ t >= q.tier /\ q.called = FALSE
    BY <1>1, <1>3, RefinedIs DEF Sound, Record
<1> HIDE DEF c, t
<1>5. /\ r.stage = "judged" /\ r.kind = q.kind /\ r.facts = q.facts /\ r.tier = t
      /\ r.callback = (q.callback \/ c) /\ r.called = TRUE /\ r.nth = q.nth
    BY DEF GoneOn
<1>6. Sound(r)
  <2>1. Record(r)
      BY <1>1, <1>3, <1>4, <1>5 DEF Sound, Record, GoneOn
  <2>2. Assessed(r) /\ Taught(r)
      BY <1>5 DEF Assessed, Taught
  <2>3. Reported(r)
    <3>1. q.tier = Critical => t = Critical
        BY <1>4 DEF Tiers, NoTier, Critical
    <3>2. q.stage # "idle"
        BY <1>1
    <3>3. Reported(q)
        BY <1>3 DEF Sound
    <3> HIDE DEF q
    <3> QED BY <1>5, <3>1, <3>2, <3>3 DEF Reported
  <2>4. Travelled(r)
    <3>1. q.tier >= Medium => t >= Medium
        BY <1>4 DEF Tiers, NoTier, Medium, Critical
    <3>2. q.stage # "idle"
        BY <1>1
    <3>3. Travelled(q)
        BY <1>3 DEF Sound
    <3> HIDE DEF q
    <3> QED BY <1>5, <3>1, <3>2, <3>3 DEF Travelled, Moved
  <2> QED BY <2>1, <2>2, <2>3, <2>4 DEF Sound
<1> HIDE DEF r
<1>7. /\ jobs'[j] = r /\ \A k \in Job \ {j} : jobs'[k] = jobs[k]
      /\ jobs' = [k \in Job |-> jobs'[k]]
    BY <1>2, <1>3, BecomesIs
<1>8. Setting' /\ Store'
    BY <1>1, <1>3, <1>7 DEF Setting, Store
<1>9. \A k \in Job : Sound(jobs[k])'
    BY <1>1, <1>2, <1>6, SoundAfter
<1>10. Claims'
  <2>1. holder = j /\ calls <= Cap /\ paid <= calls - 1 + lost /\ lost <= paid /\ calls > 0
      BY <1>1, <1>3, <1>4, AnalysisBounds DEF Claims
  <2>2. \A k \in Job \ {j} : ~jobs[k].called /\ jobs[k].stage # "asking"
      BY <1>3, <2>1 DEF Claims
  <2>3. calls \in Nat /\ lost \in Nat /\ paid \in Nat /\ Cap \in Nat
      BY <1>3, AnalysisBounds DEF Setting
  <2>4. lost' = lost /\ paid' > lost' /\ lost' <= paid' /\ paid' <= calls' + lost' /\ paid' <= Cap + lost'
      BY <1>1, <2>1, <2>3
  <2>5. holder' = j /\ calls' > 0 /\ j # Nobody
      BY <1>1, <2>1, AnalysisBounds
  <2>6. \A k \in Job : jobs'[k].stage # "asking"
      BY <1>5, <1>7, <2>2
  <2>7. \A k \in Job : jobs'[k].called => k = j
      BY <1>7, <2>2
  <2> HIDE DEF q
  <2> QED BY <1>5, <1>7, <2>4, <2>5, <2>6, <2>7 DEF Claims
<1>11. Counted'
    BY <1>1, <1>2, <1>3, <1>5, CountedKept
<1>12. Turns' /\ Lessons'
    BY <1>1, <1>2, <1>3, <1>5, TurnsKept
<1> QED BY <1>8, <1>9, <1>10, <1>11, <1>12 DEF AnalysisInv

(* Learning notes what is on file, and an account only where there is none.*)
LEMMA LearnKeeps ==
    ASSUME AnalysisInv, NEW j \in Job, Learn(j)
    PROVE  AnalysisInv'
<1> DEFINE q == jobs[j]
           adds == Where(Teaches(j), {q.account})
           n == <<cp.count, adds>>
           r == GoneOn(j, "learned", q.tier, q.callback, q.called, n)
<1>1. /\ q.stage = "judged" /\ jobs' = [jobs EXCEPT ![j].stage = "learned", ![j].seen = n]
      /\ together' = (together \/ \E k \in Job \ {j} : jobs[k].stage = "learned")
      /\ UNCHANGED <<cp, plan, source, calls, holder, paid, lost, arrived, taught>>
    BY DEF Learn
<1>2. Becomes(j, r)
  <2> HIDE DEF n
  <2> QED BY <1>1, LearnMoves
<1>3. Setting /\ Store /\ Claims /\ Counted /\ Turns /\ Lessons /\ Sound(q)
    BY DEF AnalysisInv
<1>4. adds # {} => /\ q.kind = "mail" /\ q.tier \notin {High, Critical}
                   /\ q.account # NoAccount /\ cp.banks = {} /\ adds = {q.account}
    BY DEF Where, Teaches, Counts, Flagged, Unlearned
<1> HIDE DEF adds
<1>5. n[1] = cp.count /\ n[2] = adds /\ n = <<n[1], n[2]>>
    OBVIOUS
<1> HIDE DEF n
<1>6. /\ r.stage = "learned" /\ r.kind = q.kind /\ r.facts = q.facts /\ r.tier = q.tier
      /\ r.callback = q.callback /\ r.called = q.called /\ r.nth = q.nth /\ r.seen = n
    BY DEF GoneOn
<1>7. Sound(r)
  <2>1. Record(r)
      BY <1>1, <1>3, <1>6 DEF Sound, Record, GoneOn
  <2>2. Assessed(r) /\ Reported(r) /\ Travelled(r)
      BY <1>1, <1>3, <1>6 DEF Sound, Assessed, Reported, Travelled, Moved
  <2>3. Taught(r)
      BY <1>3, <1>4, <1>5, <1>6 DEF Taught, Store
  <2> QED BY <2>1, <2>2, <2>3 DEF Sound
<1> HIDE DEF r
<1>8. /\ jobs'[j] = r /\ \A k \in Job \ {j} : jobs'[k] = jobs[k]
      /\ jobs' = [k \in Job |-> jobs'[k]]
    BY <1>2, <1>3, BecomesIs
<1>9. Setting' /\ Store'
    BY <1>1, <1>3, <1>8 DEF Setting, Store
<1>10. \A k \in Job : Sound(jobs[k])'
    BY <1>1, <1>2, <1>7, SoundAfter
<1>11. Claims'
  <2> HIDE DEF q
  <2>1. jobs[j] = q
      BY DEF q
  <2> QED BY <1>1, <1>3, <1>6, <1>8, <2>1 DEF Claims, Setting
<1>12. Counted'
  <2>1. Cardinality(Active') = Cardinality(Active)
      BY <1>1, <1>2, <1>3, <1>6, ActiveIs
  <2> QED BY <1>1, <1>3, <1>5, <1>6, <1>8, <2>1 DEF Counted
<1>13. Turns'
  <2>1. ASSUME ~together'
        PROVE  /\ \A k, m \in Job : jobs'[k].stage = "learned" /\ jobs'[m].stage = "learned" => k = m
               /\ \A k \in Job : jobs'[k].stage = "learned" /\ jobs'[k].seen[2] # {} => cp'.banks = {}
    <3>1. \A k \in Job \ {j} : jobs'[k].stage # "learned"
        BY <1>1, <1>8, <2>1
    <3>2. jobs'[j].seen[2] # {} => cp.banks = {}
        BY <1>4, <1>5, <1>6, <1>8
    <3> QED BY <1>1, <3>1, <3>2
  <2> QED BY <1>1, <1>3, <2>1 DEF Turns
<1>14. Lessons'
    BY <1>1, <1>3 DEF Lessons, OneBaseline, FirstStrike
<1> QED BY <1>9, <1>10, <1>11, <1>12, <1>13, <1>14 DEF AnalysisInv

(* An analysis that ends gives the usage row back.                         *)
LEMMA FinishIs ==
    ASSUME AnalysisInv, NEW j \in Job, Finish(j), jobs[j].stage # "idle",
           UNCHANGED <<plan, source>>
    PROVE  /\ Becomes(j, Idle)
           /\ jobs'[j] = Idle /\ \A k \in Job \ {j} : jobs'[k] = jobs[k]
           /\ jobs' = [k \in Job |-> jobs'[k]]
           /\ \A k \in Job : Sound(jobs[k])'
           /\ Cardinality(Active) \in Nat /\ Cardinality(Active') = Cardinality(Active) - 1
           /\ holder' = (IF holder = j THEN Nobody ELSE holder)
           /\ Idle.stage = "idle" /\ Idle.called = FALSE
<1>1. Becomes(j, Idle) /\ holder' = (IF holder = j THEN Nobody ELSE holder)
    BY DEF Finish, Becomes
<1>2. Setting
    BY DEF AnalysisInv
<1>3. /\ jobs'[j] = Idle /\ \A k \in Job \ {j} : jobs'[k] = jobs[k]
      /\ jobs' = [k \in Job |-> jobs'[k]]
    BY <1>1, <1>2, BecomesIs
<1>4. Idle.stage = "idle" /\ Idle.called = FALSE
    BY DEF Idle
<1>5. \A k \in Job : Sound(jobs[k])'
    BY <1>1, IdleSound, SoundAfter
<1>6. Cardinality(Active) \in Nat /\ Cardinality(Active') = Cardinality(Active) - 1
    BY <1>1, <1>2, <1>4, ActiveIs
<1> QED BY <1>1, <1>3, <1>4, <1>5, <1>6

(* A commit counts the mail and stores what it learned.                    *)
LEMMA CommitKeeps ==
    ASSUME AnalysisInv, NEW j \in Job, Commit(j)
    PROVE  AnalysisInv'
<1> DEFINE q == jobs[j]
           adds == q.seen[2]
           count == IF Counts(j) THEN q.seen[1] + 1 ELSE cp.count
<1>1. /\ q.stage = "learned"
      /\ cp' = [cp EXCEPT !.count = IF Counts(j) THEN q.seen[1] + 1 ELSE @, !.banks = @ \cup adds]
      /\ taught' = taught \cup {[account |-> a, facts |-> q.facts, nth |-> q.nth] : a \in adds}
      /\ Finish(j) /\ UNCHANGED <<plan, source, calls, paid, lost, arrived, together>>
    BY DEF Commit
<1>2. Setting /\ Store /\ Claims /\ Counted /\ Turns /\ Lessons /\ Sound(q)
    BY DEF AnalysisInv
<1>3. /\ jobs'[j] = Idle /\ \A k \in Job \ {j} : jobs'[k] = jobs[k]
      /\ jobs' = [k \in Job |-> jobs'[k]]
      /\ \A k \in Job : Sound(jobs[k])'
      /\ Cardinality(Active) \in Nat /\ Cardinality(Active') = Cardinality(Active) - 1
      /\ holder' = (IF holder = j THEN Nobody ELSE holder)
      /\ Idle.stage = "idle" /\ Idle.called = FALSE
    BY <1>1, FinishIs
<1>4. /\ q.seen[1] \in Nat /\ NoAccount \notin adds
      /\ adds # {} => q.kind = "mail" /\ q.tier \notin {High, Critical}
    BY <1>1, <1>2 DEF Sound, Taught
<1>5. cp'.count = count /\ cp'.banks = cp.banks \cup adds /\ cp'.phone = cp.phone
      /\ cp' = [count |-> cp'.count, banks |-> cp'.banks, phone |-> cp'.phone]
  <2>1. PICK c : c = cp
      OBVIOUS
  <2>2. PICK n, b : n = count /\ b = c.banks \cup adds
      OBVIOUS
  <2> HIDE DEF count, adds
  <2>3. c = [count |-> c.count, banks |-> c.banks, phone |-> c.phone]
      BY <1>2, <2>1 DEF Store
  <2>4. PICK c1 : c1 = [c EXCEPT !.count = n]
      OBVIOUS
  <2>5. c1 = [count |-> n, banks |-> c.banks, phone |-> c.phone]
      BY ONLY <2>3, <2>4
  <2>6. cp' = [c1 EXCEPT !.banks = b]
      BY <1>1, <2>1, <2>2, <2>3, <2>4 DEF count, adds
  <2>7. [c1 EXCEPT !.banks = b] = [count |-> n, banks |-> b, phone |-> c.phone]
      BY ONLY <2>5
  <2> QED BY <2>1, <2>2, <2>6, <2>7
<1>6. count \in Nat /\ count + Cardinality(Active') <= 10 + arrived
    BY <1>1, <1>2, <1>3, <1>4 DEF Store, Setting, Counted
<1> HIDE DEF count, adds
<1>7. Setting' /\ Store'
  <2>1. Setting'
      BY <1>1, <1>2, <1>3 DEF Setting
  <2>2. Store'
      BY <1>2, <1>4, <1>5, <1>6 DEF Store
  <2> QED BY <2>1, <2>2
<1>8. Claims'
  <2>1. \A k \in Job : jobs'[k].called => k # j /\ holder' = k
      BY <1>2, <1>3, AnalysisBounds DEF Claims
  <2>2. \A k \in Job : jobs'[k].stage = "asking" => k # j /\ holder' = k
      BY <1>2, <1>3, AnalysisBounds DEF Claims
  <2>3. holder' # Nobody => holder' = holder /\ holder # j /\ holder \in Job
      BY <1>2, <1>3 DEF Setting
  <2> QED BY <1>1, <1>2, <1>3, <2>1, <2>2, <2>3 DEF Claims
<1>9. Counted'
  <2>1. ASSUME NEW k \in Job, jobs'[k].stage = "learned"
        PROVE  jobs'[k].seen[1] + Cardinality(Active') <= 10 + arrived'
    <3>1. k # j /\ jobs'[k] = jobs[k]
        BY <1>3, <2>1
    <3>2. jobs[k].seen[1] + Cardinality(Active) <= 10 + arrived /\ jobs[k].seen[1] \in Nat
        BY <1>2, <2>1, <3>1 DEF Counted, AnalysisInv, Sound, Taught
    <3> QED BY <1>1, <1>2, <1>3, <3>1, <3>2 DEF Setting
  <2> QED BY <1>1, <1>5, <1>6, <2>1 DEF Counted
<1>10. Turns'
  <2>1. ~together => \A k \in Job : jobs'[k].stage # "learned"
      BY <1>1, <1>2, <1>3 DEF Turns
  <2>2. taught' # {} => cp'.banks # {}
      BY <1>1, <1>2, <1>5 DEF Turns, adds
  <2> QED BY <1>1, <2>1, <2>2 DEF Turns
<1>11. Lessons'
  <2>1. \A t \in taught' : t \in taught \/ (adds # {} /\ t.facts = q.facts /\ t.nth = q.nth)
      BY <1>1 DEF adds
  <2>2. plan # "guard" /\ adds # {} => ~FirstStrike(q.facts)
      BY <1>1, <1>2, <1>4 DEF Sound, Reported, Fraud
  <2>3. ASSUME ~together, adds # {} PROVE taught = {}
      BY <1>1, <1>2, <2>3 DEF Turns, adds
  <2>4. ASSUME plan # "guard", NEW t \in taught' PROVE ~FirstStrike(t.facts)
      BY <1>2, <2>1, <2>2, <2>4 DEF Lessons
  <2>5. ASSUME ~together, NEW s \in taught', NEW t \in taught' PROVE s.nth = t.nth
      BY <1>2, <2>1, <2>3, <2>5 DEF Lessons, OneBaseline
  <2>6. plan' # "guard" => \A t \in taught' : ~FirstStrike(t.facts)
      BY <1>1, <2>4
  <2>7. OneBaseline'
      BY <1>1, <2>5 DEF OneBaseline
  <2> QED BY <2>6, <2>7 DEF Lessons, FirstStrike
<1> QED BY <1>3, <1>7, <1>8, <1>9, <1>10, <1>11 DEF AnalysisInv

(* A failure takes the claim back, and counts what was paid for as lost.   *)
LEMMA FailKeeps ==
    ASSUME AnalysisInv, NEW j \in Job, Fail(j)
    PROVE  AnalysisInv'
<1> DEFINE q == jobs[j]
<1>1. /\ q.stage \notin {"idle", "read"}
      /\ calls' = (IF holder = j THEN calls - 1 ELSE calls)
      /\ lost' = (IF q.called THEN lost + 1 ELSE lost)
      /\ Finish(j) /\ UNCHANGED <<cp, plan, source, paid, arrived, taught, together>>
    BY DEF Fail
<1>2. Setting /\ Store /\ Claims /\ Counted /\ Turns /\ Lessons /\ Sound(q)
    BY DEF AnalysisInv
<1>3. /\ Becomes(j, Idle)
      /\ jobs'[j] = Idle /\ \A k \in Job \ {j} : jobs'[k] = jobs[k]
      /\ jobs' = [k \in Job |-> jobs'[k]]
      /\ \A k \in Job : Sound(jobs[k])'
      /\ Cardinality(Active) \in Nat /\ Cardinality(Active') = Cardinality(Active) - 1
      /\ holder' = (IF holder = j THEN Nobody ELSE holder)
      /\ Idle.stage = "idle" /\ Idle.called = FALSE
    BY <1>1, FinishIs
<1>4. calls \in Nat /\ lost \in Nat /\ paid \in Nat /\ Cap \in Nat /\ j # Nobody
    BY <1>2, AnalysisBounds DEF Setting
<1>5. /\ holder = j => calls > 0
      /\ holder = j /\ ~q.called => paid <= calls - 1 + lost
      /\ q.called => holder = j /\ paid > lost
      /\ lost <= paid /\ paid <= calls + lost /\ paid <= Cap + lost
    BY <1>2, <1>4 DEF Claims
<1>6. /\ calls' \in Nat /\ lost' \in Nat
      /\ lost' <= paid /\ paid <= calls' + lost' /\ paid <= Cap + lost'
  <2>1. CASE holder = j /\ q.called
      BY <1>1, <1>4, <1>5, <2>1
  <2>2. CASE holder = j /\ ~q.called
      BY <1>1, <1>4, <1>5, <2>2
  <2>3. CASE holder # j
      BY <1>1, <1>4, <1>5, <2>3
  <2> QED BY <2>1, <2>2, <2>3
<1>7. holder # j => calls' = calls /\ lost' = lost
    BY <1>1, <1>5
<1>8. Setting' /\ Store'
  <2>1. Setting'
      BY <1>1, <1>2, <1>3, <1>6 DEF Setting
  <2>2. Store'
      BY <1>1, <1>2 DEF Store
  <2> QED BY <2>1, <2>2
<1>9. Claims'
  <2>1. \A k \in Job : jobs'[k].called => k # j /\ holder = k /\ holder' = k /\ paid > lost
      BY <1>2, <1>3, AnalysisBounds DEF Claims
  <2>2. \A k \in Job : jobs'[k].stage = "asking" => k # j /\ holder = k /\ holder' = k /\ calls <= Cap
      BY <1>2, <1>3, AnalysisBounds DEF Claims
  <2>3. holder' # Nobody => holder' = holder /\ holder # j /\ holder \in Job
      BY <1>2, <1>3 DEF Setting
  <2>4. holder' # Nobody => /\ jobs'[holder'].stage \notin {"idle", "read"} /\ calls' > 0
                            /\ ~jobs'[holder'].called => paid <= calls' - 1 + lost'
      BY <1>2, <1>3, <1>7, <2>3 DEF Claims
  <2> QED BY <1>1, <1>6, <1>7, <2>1, <2>2, <2>4 DEF Claims
<1>10. Counted'
  <2>1. ASSUME NEW k \in Job, jobs'[k].stage = "learned"
        PROVE  jobs'[k].seen[1] + Cardinality(Active') <= 10 + arrived'
    <3>1. k # j /\ jobs'[k] = jobs[k]
        BY <1>3, <2>1
    <3>2. jobs[k].seen[1] + Cardinality(Active) <= 10 + arrived /\ jobs[k].seen[1] \in Nat
        BY <1>2, <2>1, <3>1 DEF Counted, AnalysisInv, Sound, Taught
    <3> QED BY <1>1, <1>2, <1>3, <3>1, <3>2 DEF Setting
  <2> QED BY <1>1, <1>2, <1>3, <2>1 DEF Counted, Store, Setting
<1>11. Turns' /\ Lessons'
    BY <1>1, <1>2, <1>3, TurnsKept
<1> QED BY <1>3, <1>8, <1>9, <1>10, <1>11 DEF AnalysisInv

(* Every step of Analysis keeps the invariant.                             *)
LEMMA AnalysisStep == ASSUME AnalysisInv, [Next]_vars PROVE AnalysisInv'
<1>1. ASSUME NEW j \in Job, NEW e \in Event, Read(j, e) PROVE AnalysisInv'
    BY <1>1, ReadKeeps
<1>2. ASSUME NEW j \in Job, Goes(j) PROVE AnalysisInv'
    BY <1>2, ReserveKeeps, NotJudgedKeeps, AnswerKeeps, LearnKeeps, CommitKeeps, FailKeeps DEF Goes
<1>3. CASE UNCHANGED vars
  <2>1. UNCHANGED <<cp, plan, source, jobs, calls, holder, paid, lost, arrived, taught, together>>
      BY <1>3 DEF vars
  <2>2. Setting' /\ Store' /\ Claims'
      BY <2>1 DEF AnalysisInv, Setting, Store, Claims
  <2>3. \A j \in Job : Sound(jobs[j])'
      BY <2>1 DEF AnalysisInv, Sound, Record, Assessed, Reported, Travelled, Taught, Moved, Fraud,
         FirstStrike
  <2>4. Active' = Active
      BY <2>1 DEF Active
  <2>5. Counted' /\ Turns'
      BY <2>1, <2>4 DEF AnalysisInv, Counted, Turns
  <2>6. Lessons'
      BY <2>1 DEF AnalysisInv, Lessons, OneBaseline, FirstStrike
  <2> QED BY <2>2, <2>3, <2>5, <2>6 DEF AnalysisInv
<1> QED BY <1>1, <1>2, <1>3 DEF Next

(* The invariant says that fraud is reported, and learning sound.          *)
LEMMA AnalysisEnough == AnalysisInv => FraudIsReported /\ LearningIsSound
<1> SUFFICES ASSUME AnalysisInv PROVE FraudIsReported /\ LearningIsSound
    OBVIOUS
<1>1. Setting /\ Store /\ Claims /\ Counted /\ Turns /\ Lessons /\ \A j \in Job : Sound(jobs[j])
    BY DEF AnalysisInv
<1>2. \A j \in Job : Record(jobs[j])
    BY <1>1 DEF Sound
<1>3. TypeOK
  <2>1. IsFiniteSet(Active)
      BY AnalysisBounds, FS_Subset DEF Active
  <2>2. Cardinality(Active) \in Nat
      BY <2>1, FS_CardinalityType
  <2>3. cp.count \in 0..10 + MaxEvents
      BY <1>1, <2>2, AnalysisBounds DEF Counted, Store, Setting
  <2>4. \A j \in Job : /\ jobs[j].stage \in {"idle", "read", "asking", "judged", "learned"}
                       /\ jobs[j].tier \in NoTier..Critical
                       /\ jobs[j].called => holder = j
      BY <1>1, <1>2 DEF Record, Tiers, Claims
  <2> QED BY <1>1, <2>3, <2>4 DEF TypeOK, Setting, Store, Claims
<1>4. \A j \in Known : Fraud(jobs[j].facts) => Settled(j)
    BY <1>1 DEF Sound, Reported, Known, Settled
<1>5. ChangedAccountIsCritical /\ FirstStrikeIsCritical
    BY <1>4 DEF Fraud, ChangedAccountIsCritical, FirstStrikeIsCritical
<1>6. MoreNeverCalms
  <2> SUFFICES ASSUME NEW j \in Job, jobs[j].stage = "read", NEW f \in jobs[j].found
               PROVE  LET fewer == jobs[j].found \ {f}
                      IN  /\ Assess(fewer) <= Assess(jobs[j].found)
                          /\ Callback(fewer) => Callback(jobs[j].found)
      BY DEF MoreNeverCalms
  <2>1. Tiered(jobs[j].found)
      BY <1>1 DEF Sound, Assessed
  <2> QED BY <2>1, AssessGrows
<1>7. MoveIsReported
    BY <1>1 DEF Sound, Travelled, Moved, MoveIsReported
<1>8. plan # "guard" => StrikeTeachesNothing
    BY <1>1 DEF Lessons, StrikeTeachesNothing
<1>9. OneBaseline /\ SpendIsCapped
    BY <1>1 DEF Lessons, Claims, SpendIsCapped
<1> QED BY <1>3, <1>5, <1>6, <1>7, <1>8, <1>9 DEF FraudIsReported, LearningIsSound

(* The judge only raises: what an answer does to an assessment, and that   *)
(* only a Medium or a High one is asked about.                             *)
LEMMA RaisesStep == ASSUME AnalysisInv, [Next]_vars PROVE JudgeOnlyRaisesStep
<1> SUFFICES ASSUME NEW k \in Job, jobs[k].stage # "idle", jobs'[k].nth = jobs[k].nth
             PROVE  /\ jobs'[k].tier >= jobs[k].tier
                    /\ jobs[k].callback => jobs'[k].callback
                    /\ jobs[k].tier \in {NoTier, Low, Critical} => ~jobs'[k].called \/ jobs[k].called
    BY DEF JudgeOnlyRaisesStep
<1> DEFINE q == jobs[k]
<1>1. Setting /\ Sound(q)
    BY DEF AnalysisInv
<1>2. q.tier \in Tiers /\ q.nth > 0
    BY <1>1 DEF Sound, Record
<1>3. q.tier >= q.tier
    BY <1>2 DEF Tiers, NoTier, Critical
<1>4. ASSUME NEW j \in Job, NEW r, Becomes(j, r), j # k PROVE jobs'[k] = q
    BY <1>1, <1>4, BecomesIs
<1>5. ASSUME NEW r, Becomes(k, r), r.tier = q.tier, r.callback = q.callback, r.called = q.called
      PROVE  jobs'[k].tier = q.tier /\ jobs'[k].callback = q.callback /\ jobs'[k].called = q.called
    BY <1>1, <1>5, BecomesIs
<1>6. ASSUME Becomes(k, Idle) PROVE FALSE
  <2>1. jobs'[k] = Idle
      BY <1>1, <1>6, BecomesIs
  <2>2. Idle.nth = 0
      BY DEF Idle
  <2> QED BY <1>2, <2>1, <2>2
<1>7. CASE jobs' = jobs
    BY <1>3, <1>7
<1>8. ASSUME NEW j \in Job, NEW e \in Event, Read(j, e) PROVE jobs'[k] = q
  <2>1. j # k
      BY <1>8 DEF Read
  <2>2. \E r : Becomes(j, r)
      BY <1>8 DEF Read, Becomes
  <2> QED BY <1>4, <2>1, <2>2
<1>9. ASSUME NEW j \in Job, NEW s, jobs' = [jobs EXCEPT ![j].stage = s]
      PROVE  jobs'[k].tier = q.tier /\ jobs'[k].callback = q.callback /\ jobs'[k].called = q.called
  <2> DEFINE r == GoneOn(j, s, jobs[j].tier, jobs[j].callback, jobs[j].called, jobs[j].seen)
  <2>1. Becomes(j, r)
      BY <1>9, StageMoves
  <2>2. r.tier = jobs[j].tier /\ r.callback = jobs[j].callback /\ r.called = jobs[j].called
      BY DEF GoneOn
  <2> HIDE DEF r
  <2> QED BY <1>4, <1>5, <2>1, <2>2
<1>10. ASSUME NEW j \in Job, NEW n, jobs' = [jobs EXCEPT ![j].stage = "learned", ![j].seen = n]
       PROVE  jobs'[k].tier = q.tier /\ jobs'[k].callback = q.callback /\ jobs'[k].called = q.called
  <2> DEFINE r == GoneOn(j, "learned", jobs[j].tier, jobs[j].callback, jobs[j].called, n)
  <2>1. Becomes(j, r)
      BY <1>10, LearnMoves
  <2>2. r.tier = jobs[j].tier /\ r.callback = jobs[j].callback /\ r.called = jobs[j].called
      BY DEF GoneOn
  <2> HIDE DEF r
  <2> QED BY <1>4, <1>5, <2>1, <2>2
<1>11. ASSUME NEW j \in Job, NEW answer, Answer(j, answer)
       PROVE  \/ jobs'[k] = q
              \/ /\ jobs'[k].tier >= q.tier /\ (q.callback => jobs'[k].callback)
                 /\ q.tier \in {Medium, High}
  <2> DEFINE t == Refined(jobs[j].tier, answer)
             c == answer = "fraud" /\ t = Critical
             r == GoneOn(j, "judged", t, jobs[j].callback \/ c, TRUE, jobs[j].seen)
  <2>1. /\ jobs[j].stage = "asking"
        /\ jobs' = [jobs EXCEPT ![j].stage = "judged", ![j].called = TRUE, ![j].tier = t,
                                ![j].callback = @ \/ c]
      BY <1>11 DEF Answer
  <2>2. Becomes(j, r)
    <3>1. c \in BOOLEAN
        OBVIOUS
    <3> HIDE DEF c, t
    <3> QED BY <2>1, <3>1, AnswerMoves
  <2>3. jobs[j].tier \in Tiers /\ jobs[j].tier \in {Medium, High}
      BY <2>1 DEF AnalysisInv, Sound, Record, Assessed
  <2>4. t >= jobs[j].tier
      BY <2>3, RefinedIs
  <2> HIDE DEF c, t
  <2>5. r.tier = t /\ r.callback = (jobs[j].callback \/ c)
      BY DEF GoneOn
  <2> HIDE DEF r
  <2>6. CASE j = k
    <3>1. jobs'[k] = r
        BY <1>1, <2>2, <2>6, BecomesIs
    <3> QED BY <2>3, <2>4, <2>5, <2>6, <3>1
  <2>7. CASE j # k
      BY <1>4, <2>2, <2>7
  <2> QED BY <2>6, <2>7
<1>12. ASSUME NEW j \in Job, Finish(j) PROVE jobs'[k] = q
  <2>1. Becomes(j, Idle)
      BY <1>12 DEF Finish, Becomes
  <2> QED BY <1>4, <1>6, <2>1
<1>13. Medium \notin {NoTier, Low, Critical} /\ High \notin {NoTier, Low, Critical}
    BY DEF NoTier, Low, Medium, High, Critical
<1>14. ASSUME NEW j \in Job, Goes(j)
       PROVE  /\ jobs'[k].tier >= q.tier /\ (q.callback => jobs'[k].callback)
              /\ q.tier \in {NoTier, Low, Critical} => ~jobs'[k].called \/ q.called
  <2>1. CASE Reserve(j)
      BY <1>3, <1>9, <2>1 DEF Reserve
  <2>2. CASE NotJudged(j)
      BY <1>3, <1>9, <2>2 DEF NotJudged
  <2>3. CASE \E answer \in {"fraud", "benign", "none"} : Answer(j, answer)
      BY <1>3, <1>11, <1>13, <2>3
  <2>4. CASE Learn(j)
      BY <1>3, <1>10, <2>4 DEF Learn
  <2>5. CASE Commit(j)
      BY <1>3, <1>12, <2>5 DEF Commit
  <2>6. CASE Fail(j)
      BY <1>3, <1>12, <2>6 DEF Fail
  <2> QED BY <1>14, <2>1, <2>2, <2>3, <2>4, <2>5, <2>6 DEF Goes
<1>15. Next \/ jobs' = jobs
    BY DEF vars
<1> QED BY <1>3, <1>7, <1>8, <1>14, <1>15 DEF Next
-----------------------------------------------------------------------------
(* Notified mail: one mailbox read on notifications                        *)

Working == {"alert", "tell", "hold", "mark", "copy", "remove", "commit"}
Kinds == {"clean", "high", "critical", "none"}
Places == {"out", "inbox", "held", "gone"}

SyncJob == [phase : Working \cup {"idle", "listing", "loop", "clicks"}, from : Nat,
            todo : SUBSET NotifiedMail, on : NotifiedMail \cup {"none"},
            done : SUBSET NotifiedMail]

MailTyped ==
    /\ kind \in [NotifiedMail -> Kinds] /\ place \in [NotifiedMail -> Places]
    /\ notifiedCopies \in [NotifiedMail -> Nat] /\ notifiedTries \in [NotifiedMail -> Nat]
    /\ notifiedTold \subseteq notifiedStored /\ notifiedStored \subseteq NotifiedMail
    /\ stamped \subseteq notifiedStored /\ wanted \subseteq notifiedStored /\ wanted \subseteq clicked
    /\ pushes \subseteq NotifiedMail /\ announced \subseteq NotifiedMail
    /\ notifiedKnown \subseteq NotifiedMail
    /\ flag \in Nat /\ notifiedStamps \in Nat
    /\ flag <= notifiedStamps /\ notifiedStamps <= MaxStamps

(* A message that has not arrived is nowhere to be found.                 *)
NotHere(m) ==
    /\ notifiedCopies[m] = 0 /\ kind[m] = "none"
    /\ m \notin notifiedStored \cup pushes \cup announced \cup notifiedKnown \cup notifiedJob.todo
    /\ m # notifiedJob.on

(* The sync under way: what it is at, and what it has before it.          *)
SyncTyped ==
    /\ notifiedJob \in SyncJob /\ notifiedJob.from <= notifiedStamps
    /\ notifiedJob.phase = "idle" => notifiedJob = Notified!Idle
    /\ notifiedJob.phase \in {"idle", "listing"} => notifiedJob.todo = {}
    /\ notifiedJob.on # "none" <=> notifiedJob.phase \in Working
    /\ notifiedJob.phase = "clicks" => notifiedJob.todo \subseteq wanted
    /\ notifiedJob.phase # "clicks" => notifiedJob.todo \cap notifiedKnown = {}
                                        /\ notifiedJob.on \notin notifiedJob.todo
    /\ notifiedJob.done \subseteq wanted
    /\ notifiedJob.phase # "idle" /\ flag = 0 => notifiedJob.from = 0

Arrivals ==
    \A m \in NotifiedMail : /\ kind[m] = "none" => place[m] = "out"
                            /\ place[m] = "out" => NotHere(m)

(* What was done to a message: its copy is in before the original is out, *)
(* and somebody was told.                                                 *)
Touched ==
    /\ \A m \in NotifiedMail :
          /\ place[m] = "gone" => notifiedCopies[m] > 0
          /\ (place[m] \in {"held", "gone"} \/ notifiedCopies[m] > 0) /\ kind[m] # "clean" =>
                m \in notifiedTold \cup clicked
    /\ notifiedJob.phase = "remove" => notifiedCopies[notifiedJob.on] > 0
    /\ notifiedJob.phase = "tell" => notifiedJob.on \in notifiedStored
    /\ notifiedJob.phase \in {"hold", "mark", "copy", "remove"} /\ kind[notifiedJob.on] # "clean" =>
          notifiedJob.on \in notifiedTold

(* A message with a copy is on record, or at its end.                     *)
WrittenOnce ==
    "midwrite" \notin notifiedOdd =>
        /\ \A m \in NotifiedMail :
              /\ notifiedCopies[m] <= 1
              /\ notifiedCopies[m] > 0 =>
                    m \in notifiedStored
                    \/ (m = notifiedJob.on /\ notifiedJob.phase \in {"remove", "commit"})
        /\ notifiedJob.phase \in {"alert", "tell", "hold", "mark", "copy"} =>
              notifiedCopies[notifiedJob.on] = 0

(* While the provider refused a move at most, what is on record was dealt *)
(* with, and a critical message is out of the inbox before that counts.   *)
Enforced ==
    notifiedOdd \subseteq {"nomove"} =>
        /\ notifiedStored \subseteq notifiedKnown \cup {notifiedJob.on}
        /\ \A m \in NotifiedMail : kind[m] = "critical" /\ m \in notifiedKnown =>
              place[m] \in {"held", "gone"}
        /\ notifiedJob.phase \in {"mark", "commit"} /\ kind[notifiedJob.on] = "critical" =>
              place[notifiedJob.on] \in {"held", "gone"}

(* A message is done with, will be tried again, or is being worked on.    *)
Accounted(m) ==
    \/ Notified!Handled(m) \/ notifiedTries[m] > 0 \/ "crash" \in notifiedOdd
    \/ notifiedJob.on = m

(* A sync has yet to list, for the last notification.                     *)
Waits ==
    flag # 0 /\ (notifiedJob.phase \in {"idle", "listing"} \/ flag # notifiedJob.from)

Heard ==
    /\ \A m \in notifiedKnown : Notified!Handled(m)
    /\ \A m \in NotifiedMail : place[m] \in {"held", "gone"} => Accounted(m)
    /\ Waits \/ \A m \in announced : Accounted(m) \/ m \in notifiedJob.todo

NotifiedInv ==
    MailTyped /\ SyncTyped /\ Arrivals /\ Touched /\ WrittenOnce /\ Enforced /\ Heard

(* A sync that goes on with its message.                                  *)
LEMMA SyncFields ==
    ASSUME notifiedJob \in SyncJob, NEW p \in Working \cup {"idle", "listing", "loop", "clicks"},
           notifiedJob' = [notifiedJob EXCEPT !.phase = p]
    PROVE  /\ notifiedJob' \in SyncJob /\ notifiedJob'.phase = p /\ notifiedJob'.from = notifiedJob.from
           /\ notifiedJob'.todo = notifiedJob.todo /\ notifiedJob'.on = notifiedJob.on
           /\ notifiedJob'.done = notifiedJob.done
  BY DEF SyncJob

(* Who is at work on a message has one that has arrived.                  *)
LEMMA OnIsHere ==
    ASSUME NotifiedInv, notifiedJob.phase \in Working
    PROVE  /\ notifiedJob.on \in NotifiedMail /\ place[notifiedJob.on] # "out"
           /\ kind[notifiedJob.on] # "none"
<1>1. notifiedJob.on \in NotifiedMail
  <2>1. notifiedJob.on # "none" /\ notifiedJob.on \in NotifiedMail \cup {"none"}
    BY DEF NotifiedInv, SyncTyped, SyncJob
  <2> QED BY <2>1
<1>2. place[notifiedJob.on] # "out"
  BY <1>1 DEF NotifiedInv, Arrivals, NotHere
<1> QED BY <1>1, <1>2 DEF NotifiedInv, Arrivals

(* What no step within a message disturbs.                                *)
LEMMA WithinMessage ==
    ASSUME NotifiedInv, notifiedJob.phase \in Working, NEW p \in Working,
           notifiedJob' = [notifiedJob EXCEPT !.phase = p],
           UNCHANGED <<kind, wanted, stamped, flag, notifiedStamps, pushes, announced,
                       notifiedKnown, notifiedTries, clicked>>,
           notifiedStored \subseteq notifiedStored',
           notifiedStored' \subseteq notifiedStored \cup {notifiedJob.on},
           notifiedTold' \subseteq notifiedStored', notifiedOdd \subseteq notifiedOdd',
           place' \in [NotifiedMail -> Places], notifiedCopies' \in [NotifiedMail -> Nat],
           \A m \in NotifiedMail \ {notifiedJob.on} :
              place'[m] = place[m] /\ notifiedCopies'[m] = notifiedCopies[m],
           place'[notifiedJob.on] # "out"
    PROVE  /\ MailTyped' /\ SyncTyped' /\ Arrivals' /\ Heard'
           /\ notifiedJob'.phase = p /\ notifiedJob'.on = notifiedJob.on
           /\ notifiedJob'.todo = notifiedJob.todo
<1>1. /\ notifiedJob' \in SyncJob /\ notifiedJob'.phase = p /\ notifiedJob'.from = notifiedJob.from
      /\ notifiedJob'.todo = notifiedJob.todo /\ notifiedJob'.on = notifiedJob.on
      /\ notifiedJob'.done = notifiedJob.done
  <2>1. notifiedJob \in SyncJob
    BY DEF NotifiedInv, SyncTyped
  <2> QED BY <2>1, SyncFields
<1>2. notifiedJob.on \in NotifiedMail /\ kind[notifiedJob.on] # "none"
  BY OnIsHere
<1>3. MailTyped'
  BY <1>2 DEF NotifiedInv, MailTyped
<1>4. SyncTyped'
  BY <1>1 DEF NotifiedInv, SyncTyped, Working
<1>5. Arrivals'
  <2>1. ASSUME NEW m \in NotifiedMail, m # notifiedJob.on
        PROVE (kind[m] = "none" => place[m] = "out") /\ (place[m] = "out" => NotHere(m))
    BY DEF NotifiedInv, Arrivals
  <2>2. ASSUME NEW m \in NotifiedMail, m # notifiedJob.on, NotHere(m) PROVE NotHere(m)'
    BY <1>1, <2>2 DEF NotHere
  <2> QED BY <1>2, <2>1, <2>2 DEF Arrivals
<1>6. Heard'
  <2>1. \A m \in NotifiedMail : Notified!Handled(m) => Notified!Handled(m)'
    BY DEF Notified!Handled
  <2>2. \A m \in NotifiedMail : Accounted(m) => Accounted(m)'
    BY <1>1, <2>1 DEF Accounted
  <2>3. Accounted(notifiedJob.on)'
    BY <1>1 DEF Accounted
  <2>4. Waits => Waits'
    BY <1>1 DEF Waits, Working
  <2>5. announced \subseteq NotifiedMail /\ notifiedKnown \subseteq NotifiedMail
    BY DEF NotifiedInv, MailTyped
  <2>6. \A m \in notifiedKnown' : Notified!Handled(m)'
    BY <2>1, <2>5 DEF NotifiedInv, Heard
  <2>7. \A m \in NotifiedMail : place'[m] \in {"held", "gone"} => Accounted(m)'
    BY <2>2, <2>3 DEF NotifiedInv, Heard
  <2>8. Waits' \/ \A m \in announced' : Accounted(m)' \/ m \in notifiedJob'.todo
    BY <1>1, <2>2, <2>4, <2>5 DEF NotifiedInv, Heard
  <2> QED BY <2>6, <2>7, <2>8 DEF Heard
<1> QED BY <1>1, <1>3, <1>4, <1>5, <1>6

LEMMA SyncAlertCommitKeeps == ASSUME NotifiedInv, Notified!AlertCommit PROVE NotifiedInv'
<1> DEFINE o == notifiedJob.on
<1>1. /\ notifiedJob.phase = "alert" /\ notifiedJob' = [notifiedJob EXCEPT !.phase = "tell"]
      /\ notifiedStored' = notifiedStored \cup {o}
      /\ UNCHANGED <<kind, place, notifiedCopies, pushes, announced, notifiedTold, stamped, wanted, flag,
                     notifiedStamps, notifiedKnown, notifiedTries, clicked, notifiedOdd>>
  BY DEF Notified!AlertCommit, Notified!NextTell, Notified!GoTo, Notified!On, Notified!provider,
         Notified!bounds
<1>2. o \in NotifiedMail /\ place[o] # "out"
  BY <1>1, OnIsHere DEF Working
<1>3. /\ MailTyped' /\ SyncTyped' /\ Arrivals' /\ Heard'
      /\ notifiedJob'.phase = "tell" /\ notifiedJob'.on = o
  <2>1. /\ place \in [NotifiedMail -> Places] /\ notifiedCopies \in [NotifiedMail -> Nat]
        /\ notifiedTold \subseteq notifiedStored
    BY DEF NotifiedInv, MailTyped
  <2> QED BY <1>1, <1>2, <2>1, WithinMessage DEF Working
<1>4. Touched'
  BY <1>1, <1>3 DEF NotifiedInv, Touched
<1>5. WrittenOnce'
  BY <1>1, <1>3 DEF NotifiedInv, WrittenOnce
<1>6. Enforced'
  BY <1>1, <1>3 DEF NotifiedInv, Enforced
<1> QED BY <1>3, <1>4, <1>5, <1>6 DEF NotifiedInv

LEMMA SyncTellKeeps == ASSUME NotifiedInv, Notified!Tell PROVE NotifiedInv'
<1> DEFINE o == notifiedJob.on
           p == IF kind[o] = "critical" THEN "hold" ELSE "copy"
<1>1. /\ notifiedJob.phase = "tell" /\ notifiedJob' = [notifiedJob EXCEPT !.phase = p]
      /\ notifiedTold' = notifiedTold \cup {o}
      /\ UNCHANGED <<kind, place, notifiedCopies, pushes, announced, notifiedStored, stamped, wanted, flag,
                     notifiedStamps, notifiedKnown, notifiedTries, clicked, notifiedOdd>>
  BY DEF Notified!Tell, Notified!GoTo, Notified!On, Notified!provider, Notified!bounds
<1>2. o \in NotifiedMail /\ place[o] # "out"
  BY <1>1, OnIsHere DEF Working
<1> HIDE DEF p
<1>3. p \in {"hold", "copy"}
  BY DEF p
<1>4. /\ MailTyped' /\ SyncTyped' /\ Arrivals' /\ Heard'
      /\ notifiedJob'.phase = p /\ notifiedJob'.on = o
  <2>1. /\ place \in [NotifiedMail -> Places] /\ notifiedCopies \in [NotifiedMail -> Nat]
        /\ notifiedTold \subseteq notifiedStored
    BY DEF NotifiedInv, MailTyped
  <2>2. o \in notifiedStored
    BY <1>1 DEF NotifiedInv, Touched
  <2> QED BY <1>1, <1>2, <1>3, <2>1, <2>2, WithinMessage DEF Working
<1>5. Touched'
  BY <1>1, <1>3, <1>4 DEF NotifiedInv, Touched
<1>6. WrittenOnce'
  BY <1>1, <1>3, <1>4 DEF NotifiedInv, WrittenOnce
<1>7. Enforced'
  BY <1>1, <1>3, <1>4 DEF NotifiedInv, Enforced
<1> QED BY <1>4, <1>5, <1>6, <1>7 DEF NotifiedInv

(* The message's original is moved to quarantine, or stays.               *)
LEMMA SyncHoldKeeps == ASSUME NotifiedInv, Notified!Hold PROVE NotifiedInv'
<1> DEFINE o == notifiedJob.on
<1>1. /\ notifiedJob.phase = "hold" /\ notifiedJob' = [notifiedJob EXCEPT !.phase = "mark"]
      /\ place' = [place EXCEPT ![o] = IF place[o] = "inbox" THEN "held" ELSE place[o]]
      /\ UNCHANGED <<kind, notifiedCopies, pushes, announced, notifiedStored, notifiedTold, stamped,
                     wanted, flag, notifiedStamps, notifiedKnown, notifiedTries, clicked, notifiedOdd>>
  BY DEF Notified!Hold, Notified!GoTo, Notified!On, Notified!rows, Notified!bounds
<1>2. o \in NotifiedMail /\ place[o] # "out"
  BY <1>1, OnIsHere DEF Working
<1>3. /\ place \in [NotifiedMail -> Places] /\ notifiedCopies \in [NotifiedMail -> Nat]
      /\ notifiedTold \subseteq notifiedStored
  BY DEF NotifiedInv, MailTyped
<1>4. /\ place' \in [NotifiedMail -> Places] /\ place'[o] \in {"held", "gone"}
      /\ (place'[o] = "gone" <=> place[o] = "gone")
      /\ \A m \in NotifiedMail \ {o} : place'[m] = place[m]
  BY <1>1, <1>2, <1>3 DEF Places
<1>5. /\ MailTyped' /\ SyncTyped' /\ Arrivals' /\ Heard'
      /\ notifiedJob'.phase = "mark" /\ notifiedJob'.on = o
  BY <1>1, <1>2, <1>3, <1>4, WithinMessage DEF Working
<1>6. Touched'
  BY <1>1, <1>2, <1>4, <1>5 DEF NotifiedInv, Touched
<1>7. WrittenOnce'
  BY <1>1, <1>5 DEF NotifiedInv, WrittenOnce
<1>8. Enforced'
  <2>1. \A m \in NotifiedMail : place[m] \in {"held", "gone"} => place'[m] \in {"held", "gone"}
    BY <1>4
  <2> QED BY <1>1, <1>2, <1>4, <1>5, <2>1 DEF NotifiedInv, Enforced
<1> QED BY <1>5, <1>6, <1>7, <1>8 DEF NotifiedInv

(* The provider refuses to move it, or to take the copy.                  *)
LEMMA SyncRefusedKeeps ==
    ASSUME NotifiedInv, Notified!HoldFails \/ Notified!CopyFails \/ Notified!RemoveFails PROVE NotifiedInv'
<1> DEFINE o == notifiedJob.on
<1>1. \E p \in {"copy", "commit"}, x \in {"nomove", "nocopy", "beside"} :
         /\ notifiedJob' = [notifiedJob EXCEPT !.phase = p] /\ notifiedOdd' = notifiedOdd \cup {x}
         /\ \/ notifiedJob.phase = "hold" /\ p = "copy" /\ x = "nomove"
            \/ notifiedJob.phase \in {"copy", "remove"} /\ p = "commit" /\ x # "nomove"
  BY DEF Notified!HoldFails, Notified!CopyFails, Notified!RemoveFails, Notified!GoTo,
         Notified!AfterNoMove, Notified!AfterNoCopy
<1>2. PICK p \in {"copy", "commit"}, x \in {"nomove", "nocopy", "beside"} :
         /\ notifiedJob' = [notifiedJob EXCEPT !.phase = p] /\ notifiedOdd' = notifiedOdd \cup {x}
         /\ \/ notifiedJob.phase = "hold" /\ p = "copy" /\ x = "nomove"
            \/ notifiedJob.phase \in {"copy", "remove"} /\ p = "commit" /\ x # "nomove"
  BY <1>1
<1>3. UNCHANGED <<kind, place, notifiedCopies, pushes, announced, notifiedStored, notifiedTold, stamped,
                  wanted, flag, notifiedStamps, notifiedKnown, notifiedTries, clicked>>
  BY DEF Notified!HoldFails, Notified!CopyFails, Notified!RemoveFails, Notified!provider, Notified!rows
<1>4. o \in NotifiedMail /\ place[o] # "out"
  BY <1>2, OnIsHere DEF Working
<1>5. /\ place \in [NotifiedMail -> Places] /\ notifiedCopies \in [NotifiedMail -> Nat]
      /\ notifiedTold \subseteq notifiedStored
  BY DEF NotifiedInv, MailTyped
<1>6. notifiedJob.phase \in Working /\ p \in Working
  BY <1>2 DEF Working
<1>7. /\ MailTyped' /\ SyncTyped' /\ Arrivals' /\ Heard'
      /\ notifiedJob'.phase = p /\ notifiedJob'.on = o
  BY <1>2, <1>3, <1>4, <1>5, <1>6, WithinMessage
<1>8. Touched'
  BY <1>2, <1>3, <1>7 DEF NotifiedInv, Touched
<1>9. WrittenOnce'
  BY <1>2, <1>3, <1>7 DEF NotifiedInv, WrittenOnce
<1>10. Enforced'
  BY <1>2, <1>3, <1>7 DEF NotifiedInv, Enforced
<1> QED BY <1>7, <1>8, <1>9, <1>10 DEF NotifiedInv

(* The copy goes in.                                                      *)
LEMMA SyncCopyKeeps == ASSUME NotifiedInv, Notified!Copy PROVE NotifiedInv'
<1> DEFINE o == notifiedJob.on
<1>1. /\ notifiedJob.phase = "copy" /\ notifiedJob' = [notifiedJob EXCEPT !.phase = "remove"]
      /\ notifiedCopies' = [notifiedCopies EXCEPT ![o] = notifiedCopies[o] + 1]
      /\ UNCHANGED <<kind, place, pushes, announced, notifiedStored, notifiedTold, stamped,
                     wanted, flag, notifiedStamps, notifiedKnown, notifiedTries, clicked, notifiedOdd>>
  BY DEF Notified!Copy, Notified!GoTo, Notified!On, Notified!rows, Notified!bounds
<1>2. o \in NotifiedMail /\ place[o] # "out"
  BY <1>1, OnIsHere DEF Working
<1>3. /\ place \in [NotifiedMail -> Places] /\ notifiedCopies \in [NotifiedMail -> Nat]
      /\ notifiedTold \subseteq notifiedStored
  BY DEF NotifiedInv, MailTyped
<1>4. /\ notifiedCopies' \in [NotifiedMail -> Nat] /\ notifiedCopies'[o] = notifiedCopies[o] + 1
      /\ \A m \in NotifiedMail \ {o} : notifiedCopies'[m] = notifiedCopies[m]
      /\ notifiedCopies'[o] > 0 /\ (notifiedCopies[o] = 0 => notifiedCopies'[o] = 1)
  BY <1>1, <1>2, <1>3
<1>5. /\ MailTyped' /\ SyncTyped' /\ Arrivals' /\ Heard'
      /\ notifiedJob'.phase = "remove" /\ notifiedJob'.on = o
  BY <1>1, <1>2, <1>3, <1>4, WithinMessage DEF Working
<1>6. Touched'
  BY <1>1, <1>2, <1>4, <1>5 DEF NotifiedInv, Touched
<1>7. WrittenOnce'
  BY <1>1, <1>2, <1>4, <1>5 DEF NotifiedInv, WrittenOnce
<1>8. Enforced'
  BY <1>1, <1>5 DEF NotifiedInv, Enforced
<1> QED BY <1>5, <1>6, <1>7, <1>8 DEF NotifiedInv

(* The original goes out, its copy being in.                              *)
LEMMA SyncRemoveKeeps == ASSUME NotifiedInv, Notified!Remove PROVE NotifiedInv'
<1> DEFINE o == notifiedJob.on
<1>1. /\ notifiedJob.phase = "remove" /\ notifiedJob' = [notifiedJob EXCEPT !.phase = "commit"]
      /\ place' = [place EXCEPT ![o] = "gone"]
      /\ UNCHANGED <<kind, notifiedCopies, pushes, announced, notifiedStored, notifiedTold, stamped,
                     wanted, flag, notifiedStamps, notifiedKnown, notifiedTries, clicked, notifiedOdd>>
  BY DEF Notified!Remove, Notified!GoTo, Notified!On, Notified!rows, Notified!bounds
<1>2. o \in NotifiedMail /\ place[o] # "out"
  BY <1>1, OnIsHere DEF Working
<1>3. /\ place \in [NotifiedMail -> Places] /\ notifiedCopies \in [NotifiedMail -> Nat]
      /\ notifiedTold \subseteq notifiedStored
  BY DEF NotifiedInv, MailTyped
<1>4. /\ place' \in [NotifiedMail -> Places] /\ place'[o] = "gone"
      /\ \A m \in NotifiedMail \ {o} : place'[m] = place[m]
  BY <1>1, <1>2, <1>3 DEF Places
<1>5. /\ MailTyped' /\ SyncTyped' /\ Arrivals' /\ Heard'
      /\ notifiedJob'.phase = "commit" /\ notifiedJob'.on = o
  BY <1>1, <1>2, <1>3, <1>4, WithinMessage DEF Working
<1>6. Touched'
  BY <1>1, <1>2, <1>4, <1>5 DEF NotifiedInv, Touched
<1>7. WrittenOnce'
  BY <1>1, <1>2, <1>5 DEF NotifiedInv, WrittenOnce
<1>8. Enforced'
  <2>1. \A m \in NotifiedMail : place[m] \in {"held", "gone"} => place'[m] \in {"held", "gone"}
    BY <1>4
  <2> QED BY <1>1, <1>2, <1>4, <1>5, <2>1 DEF NotifiedInv, Enforced
<1> QED BY <1>5, <1>6, <1>7, <1>8 DEF NotifiedInv

LEMMA SyncIdle ==
    /\ Notified!Idle \in SyncJob /\ Notified!Idle.phase = "idle" /\ Notified!Idle.from = 0
    /\ Notified!Idle.todo = {} /\ Notified!Idle.on = "none" /\ Notified!Idle.done = {}
  BY DEF Notified!Idle, Notified!NoMail, SyncJob

(* What is kept where only the sync moves.                                *)
LEMMA OnlySyncMoves ==
    ASSUME NotifiedInv, SyncTyped',
           UNCHANGED <<kind, place, notifiedCopies, notifiedStored, notifiedTold, stamped, wanted, flag,
                       notifiedStamps, pushes, announced, notifiedKnown, notifiedTries, clicked>>,
           \A m \in NotifiedMail : m \in notifiedJob'.todo \/ m = notifiedJob'.on => place[m] # "out"
    PROVE  MailTyped' /\ Arrivals'
<1>1. MailTyped'
  BY DEF NotifiedInv, MailTyped
<1>2. Arrivals'
  BY DEF NotifiedInv, Arrivals, NotHere
<1> QED BY <1>1, <1>2

(* Between messages nobody is at work, and what has a copy is on record.  *)
LEMMA Between ==
    ASSUME NotifiedInv, notifiedJob.phase \notin Working
    PROVE  /\ notifiedJob.on = "none"
           /\ "midwrite" \notin notifiedOdd => \A m \in NotifiedMail :
                 notifiedCopies[m] <= 1 /\ (notifiedCopies[m] > 0 => m \in notifiedStored)
           /\ notifiedOdd \subseteq {"nomove"} => notifiedStored \subseteq notifiedKnown
<1>1. notifiedJob.on = "none" /\ notifiedJob.phase \notin {"remove", "commit"}
  BY DEF NotifiedInv, SyncTyped, Working
<1>2. "none" \notin notifiedStored
  BY NotifiedBounds DEF NotifiedInv, MailTyped
<1> QED BY <1>1, <1>2 DEF NotifiedInv, WrittenOnce, Enforced

(* Who holds no message after the step either has nothing more to keep.   *)
LEMMA StillBetween ==
    ASSUME NotifiedInv, notifiedJob.phase \notin Working, notifiedJob'.phase \notin Working,
           notifiedJob'.on = "none",
           UNCHANGED <<kind, place, notifiedCopies, notifiedStored, notifiedTold, notifiedKnown>>,
           notifiedOdd' = notifiedOdd, clicked \subseteq clicked'
    PROVE  Touched' /\ WrittenOnce' /\ Enforced'
<1>1. notifiedJob'.phase \notin {"alert", "tell", "hold", "mark", "copy", "remove", "commit"}
  BY DEF Working
<1>2. Touched'
  BY <1>1 DEF NotifiedInv, Touched
<1>3. WrittenOnce'
  BY <1>1, Between DEF WrittenOnce
<1>4. Enforced'
  BY <1>1, Between DEF NotifiedInv, Enforced
<1> QED BY <1>2, <1>3, <1>4

LEMMA SyncBeginKeeps == ASSUME NotifiedInv, Notified!Begin PROVE NotifiedInv'
<1>1. /\ notifiedJob = Notified!Idle
      /\ notifiedJob' = [phase |-> "listing", from |-> flag, todo |-> {}, on |-> "none", done |-> {}]
      /\ UNCHANGED <<kind, place, notifiedCopies, notifiedStored, notifiedTold, stamped, wanted, flag,
                     notifiedStamps, pushes, announced, notifiedKnown, notifiedTries, clicked,
                     notifiedOdd>>
  BY DEF Notified!Begin, Notified!Idle, Notified!NoMail, Notified!provider, Notified!rows,
         Notified!bounds
<1>2. /\ notifiedJob'.phase = "listing" /\ notifiedJob'.from = flag /\ notifiedJob'.todo = {}
      /\ notifiedJob'.on = "none" /\ notifiedJob'.done = {}
  BY <1>1
<1>3. notifiedJob' \in SyncJob
  BY <1>1 DEF NotifiedInv, MailTyped, SyncJob
<1>4. SyncTyped'
  BY <1>1, <1>2, <1>3 DEF NotifiedInv, MailTyped, SyncTyped, Working
<1>5. MailTyped' /\ Arrivals'
  BY <1>1, <1>2, <1>4, NotifiedBounds, OnlySyncMoves
<1>6. Touched' /\ WrittenOnce' /\ Enforced'
  BY <1>1, <1>2, SyncIdle, StillBetween DEF Working
<1>7. Heard'
  BY <1>1, <1>2, SyncIdle DEF NotifiedInv, Heard, Accounted, Waits, Notified!Handled
<1> QED BY <1>4, <1>5, <1>6, <1>7 DEF NotifiedInv

LEMMA SyncListKeeps == ASSUME NotifiedInv, Notified!List PROVE NotifiedInv'
<1>1. /\ notifiedJob.phase = "listing"
      /\ notifiedJob' = [notifiedJob EXCEPT !.phase = "loop", !.todo = Notified!Listed]
      /\ UNCHANGED <<kind, place, notifiedCopies, notifiedStored, notifiedTold, stamped, wanted, flag,
                     notifiedStamps, pushes, announced, notifiedKnown, notifiedTries, clicked,
                     notifiedOdd>>
  BY DEF Notified!List, Notified!provider, Notified!rows, Notified!bounds
<1>2. /\ Notified!Listed \in SUBSET NotifiedMail
      /\ \A m \in NotifiedMail : m \in Notified!Listed <=> place[m] = "inbox" /\ m \notin notifiedKnown
  BY DEF Notified!Listed
<1> HIDE DEF Notified!Listed
<1>3. /\ notifiedJob \in SyncJob /\ notifiedJob.on = "none" /\ notifiedJob.todo = {}
  <2>1. notifiedJob.phase \notin Working
    BY <1>1 DEF Working
  <2> QED BY <1>1, <2>1, Between DEF NotifiedInv, SyncTyped
<1>4. /\ notifiedJob' \in SyncJob /\ notifiedJob'.phase = "loop" /\ notifiedJob'.todo = Notified!Listed
      /\ notifiedJob'.on = "none" /\ notifiedJob'.from = notifiedJob.from
      /\ notifiedJob'.done = notifiedJob.done
  BY <1>1, <1>2, <1>3 DEF SyncJob
<1>5. SyncTyped'
  <2>1. "none" \notin Notified!Listed /\ Notified!Listed \cap notifiedKnown = {}
    BY <1>2, NotifiedBounds
  <2> QED BY <1>1, <1>4, <2>1 DEF NotifiedInv, SyncTyped, Working
<1>6. MailTyped' /\ Arrivals'
  BY <1>1, <1>2, <1>4, <1>5, NotifiedBounds, OnlySyncMoves
<1>7. Touched' /\ WrittenOnce' /\ Enforced'
  BY <1>1, <1>4, StillBetween DEF Working
<1>8. Heard'
  <2>1. \A m \in NotifiedMail : Accounted(m) => Accounted(m)'
    BY <1>1, <1>3, <1>4 DEF Accounted, Notified!Handled
  <2>2. ASSUME NEW m \in announced PROVE Accounted(m)' \/ m \in notifiedJob'.todo
    <3>1. m \in NotifiedMail /\ place[m] # "out" /\ place[m] \in Places
      BY DEF NotifiedInv, MailTyped, Arrivals, NotHere
    <3>2. CASE place[m] = "inbox" /\ m \notin notifiedKnown
      BY <1>2, <1>4, <3>1, <3>2
    <3>3. CASE m \in notifiedKnown
      BY <2>1, <3>1, <3>3 DEF NotifiedInv, Heard, Accounted
    <3>4. CASE place[m] \in {"held", "gone"}
      BY <2>1, <3>1, <3>4 DEF NotifiedInv, Heard
    <3> QED BY <3>1, <3>2, <3>3, <3>4 DEF Places
  <2> QED BY <1>1, <2>1, <2>2 DEF NotifiedInv, Heard, Notified!Handled
<1> QED BY <1>5, <1>6, <1>7, <1>8 DEF NotifiedInv

LEMMA SyncListFailsKeeps == ASSUME NotifiedInv, Notified!ListFails PROVE NotifiedInv'
<1>1. /\ notifiedJob.phase = "listing" /\ notifiedJob' = Notified!Idle
      /\ UNCHANGED <<kind, place, notifiedCopies, notifiedStored, notifiedTold, stamped, wanted, flag,
                     notifiedStamps, pushes, announced, notifiedKnown, notifiedTries, clicked,
                     notifiedOdd>>
  BY DEF Notified!ListFails, Notified!provider, Notified!rows
<1>2. /\ notifiedJob' \in SyncJob /\ notifiedJob'.phase = "idle" /\ notifiedJob'.from = 0
      /\ notifiedJob'.todo = {} /\ notifiedJob'.on = "none" /\ notifiedJob'.done = {}
  BY <1>1, SyncIdle
<1>3. notifiedJob.on = "none" /\ notifiedJob.todo = {}
  BY <1>1, Between DEF NotifiedInv, SyncTyped, Working
<1>4. SyncTyped'
  BY <1>1, <1>2 DEF NotifiedInv, MailTyped, SyncTyped, Working
<1>5. MailTyped' /\ Arrivals'
  BY <1>1, <1>2, <1>4, NotifiedBounds, OnlySyncMoves
<1>6. Touched' /\ WrittenOnce' /\ Enforced'
  BY <1>1, <1>2, StillBetween DEF Working
<1>7. Heard'
  BY <1>1, <1>2, <1>3 DEF NotifiedInv, Heard, Accounted, Waits, Notified!Handled
<1> QED BY <1>4, <1>5, <1>6, <1>7 DEF NotifiedInv

LEMMA SyncTakeKeeps == ASSUME NotifiedInv, NEW m \in NotifiedMail, Notified!Take(m) PROVE NotifiedInv'
<1> DEFINE p == Notified!First(m)
           rest == notifiedJob.todo \ {m}
<1>1. /\ notifiedJob.phase = "loop" /\ m \in notifiedJob.todo
      /\ notifiedJob' = [notifiedJob EXCEPT !.on = m, !.todo = rest, !.phase = p]
      /\ UNCHANGED <<kind, place, notifiedCopies, notifiedStored, notifiedTold, stamped, wanted, flag,
                     notifiedStamps, pushes, announced, notifiedKnown, notifiedTries, clicked,
                     notifiedOdd>>
  BY DEF Notified!Take, Notified!provider, Notified!rows, Notified!bounds
<1>2. /\ p \in {"commit", "copy", "alert"} /\ (p = "commit" <=> m \in notifiedStored)
      /\ p = "copy" => kind[m] = "clean"
  BY DEF Notified!First
<1>3. rest \subseteq notifiedJob.todo /\ m \notin rest /\ notifiedJob.todo = rest \cup {m}
  BY <1>1
<1> HIDE DEF p, rest
<1>4. /\ notifiedJob' \in SyncJob /\ notifiedJob'.phase = p /\ notifiedJob'.todo = rest
      /\ notifiedJob'.on = m /\ notifiedJob'.from = notifiedJob.from
      /\ notifiedJob'.done = notifiedJob.done
  <2>1. notifiedJob \in SyncJob
    BY DEF NotifiedInv, SyncTyped
  <2>2. rest \in SUBSET NotifiedMail /\ p \in Working
    BY <1>2, <1>3, <2>1 DEF SyncJob, Working
  <2> QED BY <1>1, <2>1, <2>2 DEF SyncJob
<1>5. /\ notifiedJob.on = "none" /\ m # "none" /\ m \notin notifiedKnown
      /\ rest \cap notifiedKnown = {}
      /\ "midwrite" \notin notifiedOdd => \A n \in NotifiedMail :
            notifiedCopies[n] <= 1 /\ (notifiedCopies[n] > 0 => n \in notifiedStored)
      /\ notifiedOdd \subseteq {"nomove"} => notifiedStored \subseteq notifiedKnown
  BY <1>1, <1>3, Between, NotifiedBounds DEF NotifiedInv, SyncTyped, Working
<1>6. SyncTyped'
  BY <1>1, <1>2, <1>3, <1>4, <1>5 DEF NotifiedInv, SyncTyped, Working
<1>7. MailTyped' /\ Arrivals'
  <2>1. \A n \in NotifiedMail : n \in notifiedJob.todo => place[n] # "out"
    BY DEF NotifiedInv, Arrivals, NotHere
  <2> QED BY <1>1, <1>3, <1>4, <1>6, <2>1, OnlySyncMoves
<1>8. Touched'
  BY <1>1, <1>2, <1>4 DEF NotifiedInv, Touched
<1>9. WrittenOnce'
  <2>1. "midwrite" \notin notifiedOdd /\ p # "commit" => notifiedCopies[m] = 0
    BY <1>2, <1>5 DEF NotifiedInv, MailTyped
  <2> QED BY <1>1, <1>2, <1>4, <1>5, <2>1 DEF WrittenOnce
<1>10. Enforced'
  BY <1>1, <1>2, <1>4, <1>5 DEF NotifiedInv, Enforced
<1>11. Heard'
  <2>1. \A n \in NotifiedMail : Accounted(n) => Accounted(n)'
    BY <1>1, <1>4, <1>5, NotifiedBounds DEF Accounted, Notified!Handled
  <2>2. Accounted(m)'
    BY <1>4 DEF Accounted
  <2>3. announced \subseteq NotifiedMail
    BY DEF NotifiedInv, MailTyped
  <2>4. Waits => Waits'
    BY <1>1, <1>2, <1>4 DEF Waits
  <2>5. Waits' \/ \A n \in announced : Accounted(n)' \/ n \in notifiedJob'.todo
    BY <1>3, <1>4, <2>1, <2>2, <2>3, <2>4 DEF NotifiedInv, Heard
  <2> QED BY <1>1, <2>1, <2>5 DEF NotifiedInv, Heard, Notified!Handled
<1> QED BY <1>6, <1>7, <1>8, <1>9, <1>10, <1>11 DEF NotifiedInv

LEMMA SyncRequestedKeeps == ASSUME NotifiedInv, Notified!Requested PROVE NotifiedInv'
<1> DEFINE asked == wanted \ stamped
<1>1. /\ notifiedJob.phase = "loop" /\ notifiedJob.todo = {}
      /\ notifiedJob' = [notifiedJob EXCEPT !.phase = "clicks", !.todo = asked]
      /\ UNCHANGED <<kind, place, notifiedCopies, notifiedStored, notifiedTold, stamped, wanted, flag,
                     notifiedStamps, pushes, announced, notifiedKnown, notifiedTries, clicked,
                     notifiedOdd>>
  BY DEF Notified!Requested, Notified!provider, Notified!rows, Notified!bounds
<1>2. asked \subseteq wanted /\ wanted \subseteq notifiedStored /\ notifiedStored \subseteq NotifiedMail
  BY DEF NotifiedInv, MailTyped
<1> HIDE DEF asked
<1>3. /\ notifiedJob' \in SyncJob /\ notifiedJob'.phase = "clicks" /\ notifiedJob'.todo = asked
      /\ notifiedJob'.on = notifiedJob.on /\ notifiedJob'.from = notifiedJob.from
      /\ notifiedJob'.done = notifiedJob.done
  <2>1. notifiedJob \in SyncJob
    BY DEF NotifiedInv, SyncTyped
  <2>2. asked \in SUBSET NotifiedMail
    BY <1>2
  <2> QED BY <1>1, <2>1, <2>2 DEF SyncJob
<1>4. notifiedJob.on = "none"
  BY <1>1, Between DEF Working
<1>5. SyncTyped'
  BY <1>1, <1>2, <1>3, <1>4 DEF NotifiedInv, SyncTyped, Working
<1>6. MailTyped' /\ Arrivals'
  <2>1. \A n \in NotifiedMail : n \in notifiedStored => place[n] # "out"
    BY DEF NotifiedInv, Arrivals, NotHere
  <2> QED BY <1>1, <1>2, <1>3, <1>4, <1>5, <2>1, NotifiedBounds, OnlySyncMoves
<1>7. Touched' /\ WrittenOnce' /\ Enforced'
  BY <1>1, <1>3, <1>4, StillBetween DEF Working
<1>8. Heard'
  <2>1. \A n : Accounted(n) <=> Accounted(n)'
    BY <1>1, <1>3 DEF Accounted, Notified!Handled
  <2>2. Waits => Waits'
    BY <1>1, <1>3 DEF Waits
  <2> QED BY <1>1, <2>1, <2>2 DEF NotifiedInv, Heard, Notified!Handled
<1> QED BY <1>5, <1>6, <1>7, <1>8 DEF NotifiedInv

(* A message moved on request: somebody who saw it asked for that.        *)
LEMMA SyncRunClickKeeps ==
    ASSUME NotifiedInv, NEW m \in NotifiedMail, Notified!RunClick(m) PROVE NotifiedInv'
<1>1. /\ notifiedJob.phase = "clicks" /\ m \in notifiedJob.todo
      /\ UNCHANGED <<kind, notifiedCopies, notifiedStored, notifiedTold, stamped, wanted, flag,
                     notifiedStamps, pushes, announced, notifiedKnown, notifiedTries, clicked,
                     notifiedOdd>>
  BY DEF Notified!RunClick, Notified!rows, Notified!bounds
<1>2. /\ place \in [NotifiedMail -> Places] /\ m \in notifiedStored /\ m \in wanted /\ m \in clicked
      /\ notifiedJob.on = "none" /\ notifiedJob \in SyncJob /\ place[m] # "out"
  <2>1. notifiedJob.on = "none"
    BY <1>1, Between DEF Working
  <2> QED BY <1>1, <2>1 DEF NotifiedInv, MailTyped, SyncTyped, Arrivals, NotHere
<1>3. /\ place' \in [NotifiedMail -> Places]
      /\ place'[m] = place[m] \/ (place[m] = "inbox" /\ place'[m] = "held")
      /\ \A n \in NotifiedMail \ {m} : place'[n] = place[n]
  BY <1>2 DEF Notified!RunClick, Places
<1>4. /\ notifiedJob' \in SyncJob /\ notifiedJob'.phase = "clicks"
      /\ notifiedJob'.todo = notifiedJob.todo \ {m} /\ notifiedJob'.on = "none"
      /\ notifiedJob'.from = notifiedJob.from
      /\ notifiedJob'.done \subseteq notifiedJob.done \cup {m}
  <2> DEFINE rest == notifiedJob.todo \ {m}
             more == notifiedJob.done \cup {m}
  <2>1. rest \in SUBSET NotifiedMail /\ more \in SUBSET NotifiedMail
    BY <1>2 DEF SyncJob
  <2>2. \/ notifiedJob' = [notifiedJob EXCEPT !.todo = rest, !.done = more]
        \/ notifiedJob' = [notifiedJob EXCEPT !.todo = rest]
    BY DEF Notified!RunClick
  <2>3. notifiedJob.done \subseteq more
    OBVIOUS
  <2> HIDE DEF rest, more
  <2>4. /\ notifiedJob' \in SyncJob /\ notifiedJob'.phase = "clicks"
        /\ notifiedJob'.todo = rest /\ notifiedJob'.on = "none"
        /\ notifiedJob'.from = notifiedJob.from
        /\ notifiedJob'.done = more \/ notifiedJob'.done = notifiedJob.done
    BY <1>1, <1>2, <2>1, <2>2 DEF SyncJob
  <2> QED BY <2>3, <2>4 DEF rest, more
<1>5. SyncTyped'
  BY <1>1, <1>2, <1>4 DEF NotifiedInv, SyncTyped, Working
<1>6. MailTyped'
  BY <1>1, <1>3 DEF NotifiedInv, MailTyped
<1>7. Arrivals'
  <2>1. \A n \in NotifiedMail : place'[n] = "out" => place[n] = "out" /\ NotHere(n)
    BY <1>3 DEF NotifiedInv, Arrivals
  <2>2. \A n \in NotifiedMail : NotHere(n) => NotHere(n)'
    BY <1>1, <1>2, <1>4 DEF NotHere
  <2>3. \A n \in NotifiedMail : kind[n] = "none" => place'[n] = "out"
    BY <1>2, <1>3 DEF NotifiedInv, Arrivals
  <2> QED BY <1>1, <2>1, <2>2, <2>3 DEF Arrivals
<1>8. Touched'
  BY <1>1, <1>2, <1>3, <1>4 DEF NotifiedInv, Touched
<1>9. WrittenOnce'
  BY <1>1, <1>4, Between DEF WrittenOnce, Working
<1>10. Enforced'
  <2>1. \A n \in NotifiedMail : place[n] \in {"held", "gone"} => place'[n] \in {"held", "gone"}
    BY <1>3
  <2> QED BY <1>1, <1>2, <1>4, <2>1 DEF NotifiedInv, Enforced
<1>11. Heard'
  <2>1. \A n \in NotifiedMail : Accounted(n) => Accounted(n)'
    BY <1>1, <1>2, <1>4 DEF Accounted, Notified!Handled
  <2>2. Accounted(m)'
    BY <1>1, <1>2 DEF Accounted, Notified!Handled
  <2>3. announced \subseteq NotifiedMail
    BY DEF NotifiedInv, MailTyped
  <2>4. Waits => Waits'
    BY <1>1, <1>4 DEF Waits
  <2>5. Waits' \/ \A n \in announced : Accounted(n)' \/ n \in notifiedJob'.todo
    BY <1>4, <2>1, <2>2, <2>3, <2>4 DEF NotifiedInv, Heard
  <2>6. \A n \in NotifiedMail : place'[n] \in {"held", "gone"} => Accounted(n)'
    BY <1>3, <2>1, <2>2 DEF NotifiedInv, Heard
  <2> QED BY <1>1, <2>5, <2>6 DEF NotifiedInv, Heard, Notified!Handled
<1> QED BY <1>5, <1>6, <1>7, <1>8, <1>9, <1>10, <1>11 DEF NotifiedInv

LEMMA SyncFinishKeeps == ASSUME NotifiedInv, Notified!Finish PROVE NotifiedInv'
<1>1. /\ notifiedJob.phase = "clicks" /\ notifiedJob.todo = {} /\ notifiedJob' = Notified!Idle
      /\ stamped' = stamped \cup notifiedJob.done /\ wanted' = wanted \ notifiedJob.done
      /\ flag' = IF flag = notifiedJob.from THEN 0 ELSE flag
      /\ UNCHANGED <<kind, place, notifiedCopies, notifiedStored, notifiedTold,
                     notifiedStamps, pushes, announced, notifiedKnown, notifiedTries, clicked,
                     notifiedOdd>>
  BY DEF Notified!Finish, Notified!Cleared, Notified!provider, Notified!bounds
<1>2. /\ notifiedJob' \in SyncJob /\ notifiedJob'.phase = "idle" /\ notifiedJob'.from = 0
      /\ notifiedJob'.todo = {} /\ notifiedJob'.on = "none" /\ notifiedJob'.done = {}
  BY <1>1, SyncIdle
<1>3. notifiedJob.on = "none" /\ notifiedJob.done \subseteq wanted
  BY <1>1, Between DEF NotifiedInv, SyncTyped, Working
<1>4. MailTyped'
  BY <1>1, <1>3 DEF NotifiedInv, MailTyped
<1>5. SyncTyped'
  BY <1>1, <1>2 DEF NotifiedInv, MailTyped, SyncTyped, Working
<1>6. Arrivals'
  BY <1>1, <1>2, NotifiedBounds DEF NotifiedInv, Arrivals, NotHere
<1>7. Touched' /\ WrittenOnce' /\ Enforced'
  BY <1>1, <1>2, StillBetween DEF Working
<1>8. Heard'
  <2>1. \A n : Accounted(n) <=> Accounted(n)'
    BY <1>1, <1>2, <1>3 DEF Accounted, Notified!Handled
  <2>2. Waits => Waits'
    BY <1>1, <1>2 DEF Waits
  <2> QED BY <1>1, <1>2, <2>1, <2>2 DEF NotifiedInv, Heard, Notified!Handled
<1> QED BY <1>4, <1>5, <1>6, <1>7, <1>8 DEF NotifiedInv

(* The process dies: what has a copy and is not on record is remembered.  *)
LEMMA SyncCrashKeeps == ASSUME NotifiedInv, Notified!Crash PROVE NotifiedInv'
<1>1. /\ notifiedJob' = Notified!Idle /\ notifiedKnown' = {}
      /\ notifiedTries' = [m \in NotifiedMail |-> 0]
      /\ notifiedOdd' = notifiedOdd \cup {"crash"}
             \cup (IF notifiedJob.on # "none" /\ notifiedCopies[notifiedJob.on] > 0 THEN {"midwrite"} ELSE {})
      /\ UNCHANGED <<kind, place, notifiedCopies, notifiedStored, notifiedTold, stamped, wanted, flag,
                     notifiedStamps, pushes, announced, clicked>>
  BY DEF Notified!Crash, Notified!On, Notified!NoMail, Notified!provider, Notified!rows
<1>2. /\ notifiedJob' \in SyncJob /\ notifiedJob'.phase = "idle" /\ notifiedJob'.from = 0
      /\ notifiedJob'.todo = {} /\ notifiedJob'.on = "none" /\ notifiedJob'.done = {}
  BY <1>1, SyncIdle
<1>3. MailTyped'
  BY <1>1 DEF NotifiedInv, MailTyped
<1>4. SyncTyped'
  BY <1>1, <1>2 DEF NotifiedInv, MailTyped, SyncTyped, Working
<1>5. Arrivals'
  BY <1>1, <1>2, NotifiedBounds DEF NotifiedInv, Arrivals, NotHere
<1>6. Touched'
  BY <1>1, <1>2 DEF NotifiedInv, Touched
<1>7. WrittenOnce'
  <2>1. SUFFICES ASSUME "midwrite" \notin notifiedOdd',
                        NEW m \in NotifiedMail
                 PROVE  notifiedCopies[m] <= 1 /\ (notifiedCopies[m] > 0 => m \in notifiedStored)
    BY <1>1, <1>2 DEF WrittenOnce
  <2>2. "midwrite" \notin notifiedOdd /\ (m = notifiedJob.on => ~(notifiedCopies[m] > 0))
    BY <1>1, <2>1, NotifiedBounds
  <2> QED BY <2>2 DEF NotifiedInv, WrittenOnce
<1>8. "crash" \in notifiedOdd'
  BY <1>1
<1>9. Enforced'
  BY <1>8 DEF Enforced
<1>10. Heard'
  BY <1>1, <1>8 DEF Heard, Accounted
<1> QED BY <1>3, <1>4, <1>5, <1>6, <1>7, <1>9, <1>10 DEF NotifiedInv

(* The message's transaction commits.                                     *)
LEMMA SyncDoneKeeps == ASSUME NotifiedInv, Notified!MessageDone PROVE NotifiedInv'
<1> DEFINE o == notifiedJob.on
<1>1. /\ notifiedJob.phase \in {"mark", "commit"}
      /\ notifiedStored' = notifiedStored \cup {o} /\ notifiedKnown' = notifiedKnown \cup {o}
      /\ stamped' = IF notifiedJob.phase = "mark" THEN stamped \cup {o} ELSE stamped
      /\ notifiedJob' = [notifiedJob EXCEPT !.phase = "loop", !.on = "none"]
      /\ UNCHANGED <<kind, place, notifiedCopies, notifiedTold, wanted, flag,
                     notifiedStamps, pushes, announced, notifiedTries, clicked, notifiedOdd>>
  BY DEF Notified!MessageDone, Notified!On, Notified!NoMail, Notified!provider, Notified!bounds
<1>2. o \in NotifiedMail /\ place[o] # "out"
  BY <1>1, OnIsHere DEF Working
<1>3. /\ notifiedJob' \in SyncJob /\ notifiedJob'.phase = "loop" /\ notifiedJob'.from = notifiedJob.from
      /\ notifiedJob'.todo = notifiedJob.todo /\ notifiedJob'.on = "none"
      /\ notifiedJob'.done = notifiedJob.done
  BY <1>1 DEF NotifiedInv, SyncTyped, SyncJob
<1>4. MailTyped'
  BY <1>1, <1>2 DEF NotifiedInv, MailTyped
<1>5. SyncTyped'
  <2>1. notifiedJob.todo \cap notifiedKnown = {} /\ o \notin notifiedJob.todo
    BY <1>1 DEF NotifiedInv, SyncTyped
  <2>2. "none" \notin notifiedJob.todo
    BY NotifiedBounds DEF NotifiedInv, SyncTyped, SyncJob
  <2> QED BY <1>1, <1>3, <2>1, <2>2 DEF NotifiedInv, SyncTyped, Working
<1>6. Arrivals'
  BY <1>1, <1>2, <1>3, NotifiedBounds DEF NotifiedInv, Arrivals, NotHere
<1>7. Touched'
  BY <1>1, <1>3 DEF NotifiedInv, Touched
<1>8. WrittenOnce'
  BY <1>1, <1>3 DEF NotifiedInv, WrittenOnce
<1>9. Enforced'
  BY <1>1, <1>2, <1>3 DEF NotifiedInv, Enforced
<1>10. Heard'
  <2>1. \A n \in NotifiedMail : Accounted(n) => Accounted(n)'
    BY <1>1, <1>3 DEF Accounted, Notified!Handled
  <2>2. Waits => Waits'
    BY <1>1, <1>3 DEF Waits
  <2>3. announced \subseteq NotifiedMail
    BY DEF NotifiedInv, MailTyped
  <2>4. \A n \in notifiedKnown' : Notified!Handled(n)'
    BY <1>1 DEF NotifiedInv, Heard, Notified!Handled
  <2> QED BY <1>1, <1>3, <2>1, <2>2, <2>3, <2>4 DEF NotifiedInv, Heard
<1> QED BY <1>4, <1>5, <1>6, <1>7, <1>8, <1>9, <1>10 DEF NotifiedInv

(* The attempt fails: it will be made again, or was the last.             *)
LEMMA SyncMessageFailsKeeps == ASSUME NotifiedInv, Notified!MessageFails PROVE NotifiedInv'
<1> DEFINE o == notifiedJob.on
           ends == Notified!GivesUp(o)
<1>1. /\ notifiedJob.phase \in {"alert", "tell", "copy", "mark", "commit"}
      /\ notifiedKnown' = IF ends THEN notifiedKnown \cup {o} ELSE notifiedKnown
      /\ notifiedTries' = [notifiedTries EXCEPT ![o] = IF ends THEN 0 ELSE notifiedTries[o] + 1]
      /\ notifiedOdd' = notifiedOdd \cup (IF o \in notifiedStored THEN {"late"} ELSE {})
             \cup (IF ends THEN {"given up"} ELSE {})
             \cup (IF notifiedCopies[o] > 0 THEN {"midwrite"} ELSE {})
      /\ notifiedJob' = [notifiedJob EXCEPT !.phase = "loop", !.on = "none"]
      /\ UNCHANGED <<kind, place, notifiedCopies, notifiedStored, notifiedTold, stamped, wanted, flag,
                     notifiedStamps, pushes, announced, clicked>>
  BY DEF Notified!MessageFails, Notified!On, Notified!NoMail, Notified!provider, Notified!rows
<1>2. o \in NotifiedMail /\ place[o] # "out"
  BY <1>1, OnIsHere DEF Working
<1>0. PICK t \in Nat : notifiedTries' = [notifiedTries EXCEPT ![o] = t] /\ (~ends => t > 0)
  <2>1. notifiedTries[o] + 1 \in Nat /\ notifiedTries[o] + 1 > 0
    BY <1>2 DEF NotifiedInv, MailTyped
  <2>2. CASE ends
    BY <1>1, <2>2
  <2>3. CASE ~ends
    BY <1>1, <2>1, <2>3
  <2> QED BY <2>2, <2>3
<1> HIDE DEF ends
<1>3. /\ notifiedJob' \in SyncJob /\ notifiedJob'.phase = "loop" /\ notifiedJob'.from = notifiedJob.from
      /\ notifiedJob'.todo = notifiedJob.todo /\ notifiedJob'.on = "none"
      /\ notifiedJob'.done = notifiedJob.done
  BY <1>1 DEF NotifiedInv, SyncTyped, SyncJob
<1>4. notifiedKnown \subseteq notifiedKnown' /\ notifiedKnown' \subseteq notifiedKnown \cup {o}
      /\ notifiedOdd \subseteq notifiedOdd'
      /\ (o \in notifiedStored => "late" \in notifiedOdd') /\ (ends => "given up" \in notifiedOdd')
      /\ (notifiedCopies[o] > 0 => "midwrite" \in notifiedOdd')
  BY <1>1
<1>5. MailTyped'
  <2>1. notifiedTries \in [NotifiedMail -> Nat]
    BY DEF NotifiedInv, MailTyped
  <2>2. notifiedTries' \in [NotifiedMail -> Nat]
    BY <1>0, <1>2, <2>1
  <2>3. notifiedKnown' \subseteq NotifiedMail
    BY <1>2, <1>4 DEF NotifiedInv, MailTyped
  <2> QED BY <1>1, <2>2, <2>3 DEF NotifiedInv, MailTyped
<1>6. SyncTyped'
  <2>1. notifiedJob.todo \cap notifiedKnown' = {}
    BY <1>1, <1>4 DEF NotifiedInv, SyncTyped
  <2>2. "none" \notin notifiedJob.todo
    BY NotifiedBounds DEF NotifiedInv, SyncTyped, SyncJob
  <2> QED BY <1>1, <1>3, <2>1, <2>2 DEF NotifiedInv, SyncTyped, Working
<1>7. Arrivals'
  BY <1>1, <1>2, <1>3, <1>4, NotifiedBounds DEF NotifiedInv, Arrivals, NotHere
<1>8. Touched'
  BY <1>1, <1>3 DEF NotifiedInv, Touched
<1>9. WrittenOnce'
  <2>1. SUFFICES ASSUME "midwrite" \notin notifiedOdd', NEW m \in NotifiedMail
                 PROVE  notifiedCopies[m] <= 1 /\ (notifiedCopies[m] > 0 => m \in notifiedStored)
    BY <1>1, <1>3 DEF WrittenOnce
  <2>2. "midwrite" \notin notifiedOdd /\ (m = o => ~(notifiedCopies[m] > 0))
    BY <1>4, <2>1
  <2> QED BY <2>2 DEF NotifiedInv, WrittenOnce
<1>10. Enforced'
  <2>1. SUFFICES ASSUME notifiedOdd' \subseteq {"nomove"}
                 PROVE  /\ notifiedStored' \subseteq notifiedKnown' \cup {"none"}
                        /\ \A m \in NotifiedMail : kind'[m] = "critical" /\ m \in notifiedKnown' =>
                              place'[m] \in {"held", "gone"}
    BY <1>3 DEF Enforced
  <2>2. notifiedOdd \subseteq {"nomove"} /\ o \notin notifiedStored /\ ~ends
    BY <1>1, <1>4, <2>1
  <2>3. notifiedKnown' = notifiedKnown
    BY <1>1, <2>2
  <2> QED BY <1>1, <2>2, <2>3 DEF NotifiedInv, Enforced
<1>11. Heard'
  <2>1. \A n \in NotifiedMail : Notified!Handled(n) => Notified!Handled(n)'
    BY <1>1, <1>4 DEF Notified!Handled
  <2>2. /\ ends => "given up" \in notifiedOdd' /\ o \in notifiedKnown'
        /\ ~ends => notifiedTries'[o] > 0 /\ notifiedKnown' = notifiedKnown
        /\ \A n \in NotifiedMail \ {o} : notifiedTries'[n] = notifiedTries[n]
    <3>1. notifiedTries \in [NotifiedMail -> Nat]
      BY DEF NotifiedInv, MailTyped
    <3>2. ends => "given up" \in notifiedOdd' /\ o \in notifiedKnown'
      BY <1>1, <1>4
    <3>3. ~ends => notifiedTries'[o] > 0 /\ notifiedKnown' = notifiedKnown
      BY <1>0, <1>1, <1>2, <3>1
    <3>4. \A n \in NotifiedMail \ {o} : notifiedTries'[n] = notifiedTries[n]
      BY <1>0, <1>2, <3>1
    <3> QED BY <3>2, <3>3, <3>4
  <2>3. ASSUME NEW n \in NotifiedMail, Accounted(n) PROVE Accounted(n)'
    <3>1. CASE n = o
      BY <2>2, <3>1 DEF Accounted, Notified!Handled
    <3>2. CASE n # o
      BY <1>4, <2>1, <2>2, <2>3, <3>2 DEF Accounted
    <3> QED BY <3>1, <3>2
  <2>4. \A n \in notifiedKnown' : Notified!Handled(n)'
    <3>1. notifiedKnown \subseteq NotifiedMail
      BY DEF NotifiedInv, MailTyped
    <3>2. \A n \in notifiedKnown : Notified!Handled(n)'
      BY <2>1, <3>1 DEF NotifiedInv, Heard
    <3>3. CASE ends
      BY <1>4, <2>2, <3>2, <3>3 DEF Notified!Handled
    <3> QED BY <2>2, <3>2, <3>3
  <2>5. Waits => Waits'
    BY <1>1, <1>3 DEF Waits
  <2>6. announced \subseteq NotifiedMail
    BY DEF NotifiedInv, MailTyped
  <2> QED BY <1>1, <1>3, <2>3, <2>4, <2>5, <2>6 DEF NotifiedInv, Heard
<1> QED BY <1>5, <1>6, <1>7, <1>8, <1>9, <1>10, <1>11 DEF NotifiedInv

(* Who stamps the flag, or asks for a message, leaves the sync alone.     *)
LEMMA SyncLeftAlone ==
    ASSUME NotifiedInv, notifiedJob' = notifiedJob,
           UNCHANGED <<place, kind, notifiedCopies, notifiedStored, notifiedTold, notifiedKnown,
                       notifiedTries, notifiedOdd, stamped>>,
           wanted \subseteq wanted', clicked \subseteq clicked',
           flag' = flag \/ (flag' = notifiedStamps' /\ notifiedStamps' = notifiedStamps + 1),
           notifiedStamps' >= notifiedStamps, notifiedStamps' \in Nat
    PROVE  /\ SyncTyped' /\ Touched' /\ WrittenOnce' /\ Enforced'
           /\ (flag' = flag /\ announced' = announced => Heard')
           /\ (flag' # flag => Heard')
<1>1. flag' = flag \/ (flag' # 0 /\ flag' # notifiedJob.from)
  BY DEF NotifiedInv, MailTyped, SyncTyped, SyncJob
<1>2. SyncTyped'
  <2>1. notifiedJob.from <= notifiedStamps'
    BY DEF NotifiedInv, MailTyped, SyncTyped, SyncJob
  <2>2. notifiedJob.phase = "clicks" => notifiedJob.todo \subseteq wanted'
    BY DEF NotifiedInv, SyncTyped
  <2> QED BY <1>1, <2>1, <2>2 DEF NotifiedInv, SyncTyped
<1>3. Touched'
  BY DEF NotifiedInv, Touched
<1>4. WrittenOnce' /\ Enforced'
  BY DEF NotifiedInv, WrittenOnce, Enforced
<1>5. (flag' = flag /\ announced' = announced => Heard')
  BY DEF NotifiedInv, Heard, Accounted, Waits, Notified!Handled
<1>6. flag' # flag => Heard'
  BY <1>1 DEF NotifiedInv, Heard, Accounted, Waits, Notified!Handled
<1> QED BY <1>2, <1>3, <1>4, <1>5, <1>6

LEMMA SyncPushKeeps == ASSUME NotifiedInv, NEW m \in NotifiedMail, Notified!Push(m) PROVE NotifiedInv'
<1>1. /\ m \in pushes /\ notifiedStamps < MaxStamps
      /\ pushes' = pushes \ {m} /\ announced' = announced \cup {m}
      /\ notifiedStamps' = notifiedStamps + 1 /\ flag' = notifiedStamps'
      /\ UNCHANGED <<kind, place, notifiedCopies, notifiedStored, notifiedTold, stamped, wanted,
                     notifiedKnown, notifiedTries, notifiedJob, clicked, notifiedOdd>>
  BY DEF Notified!Push, Notified!rows, Notified!bounds
<1>2. /\ notifiedStamps \in Nat /\ flag \in Nat /\ flag <= notifiedStamps
  BY DEF NotifiedInv, MailTyped
<1>3. MailTyped'
  BY <1>1, NotifiedBounds DEF NotifiedInv, MailTyped
<1>4. Arrivals'
  BY <1>1 DEF NotifiedInv, Arrivals, NotHere
<1>5. /\ flag' # flag /\ notifiedStamps' \in Nat /\ notifiedStamps' >= notifiedStamps
  BY <1>1, <1>2
<1> QED BY <1>1, <1>3, <1>4, <1>5, SyncLeftAlone DEF NotifiedInv

LEMMA SyncPushLostKeeps ==
    ASSUME NotifiedInv, NEW m \in NotifiedMail, Notified!PushLost(m) PROVE NotifiedInv'
<1>1. /\ pushes' = pushes \ {m}
      /\ UNCHANGED <<kind, place, notifiedCopies, notifiedStored, notifiedTold, stamped, wanted,
                     flag, notifiedStamps, announced, notifiedKnown, notifiedTries, notifiedJob,
                     clicked, notifiedOdd>>
  BY DEF Notified!PushLost, Notified!rows
<1>2. notifiedStamps' \in Nat /\ notifiedStamps' >= notifiedStamps
  BY <1>1 DEF NotifiedInv, MailTyped
<1>3. MailTyped'
  BY <1>1 DEF NotifiedInv, MailTyped
<1>4. Arrivals'
  BY <1>1 DEF NotifiedInv, Arrivals, NotHere
<1> QED BY <1>1, <1>2, <1>3, <1>4, SyncLeftAlone DEF NotifiedInv

LEMMA SyncClickKeeps == ASSUME NotifiedInv, NEW m \in NotifiedMail, Notified!Click(m) PROVE NotifiedInv'
<1>1. /\ m \in notifiedStored \ (stamped \cup wanted) /\ clicked' = clicked \cup {m}
      /\ wanted' = wanted \cup {m} /\ (flag = 0 => notifiedStamps < MaxStamps)
      /\ IF flag = 0 THEN notifiedStamps' = notifiedStamps + 1 /\ flag' = notifiedStamps'
                     ELSE UNCHANGED <<notifiedStamps, flag>>
      /\ UNCHANGED <<kind, place, notifiedCopies, notifiedStored, notifiedTold, stamped, pushes,
                     announced, notifiedKnown, notifiedTries, notifiedJob, notifiedOdd>>
  BY DEF Notified!Click, Notified!provider
<1>2. /\ notifiedStamps \in Nat /\ flag \in Nat /\ flag <= notifiedStamps
      /\ notifiedStamps <= MaxStamps
  BY DEF NotifiedInv, MailTyped
<1>3. /\ notifiedStamps' \in Nat /\ notifiedStamps' >= notifiedStamps /\ notifiedStamps' <= MaxStamps
      /\ flag' \in Nat /\ flag' <= notifiedStamps'
      /\ flag' = flag \/ (flag' = notifiedStamps' /\ notifiedStamps' = notifiedStamps + 1)
  BY <1>1, <1>2, NotifiedBounds
<1>4. MailTyped'
  BY <1>1, <1>3 DEF NotifiedInv, MailTyped
<1>5. Arrivals'
  BY <1>1 DEF NotifiedInv, Arrivals, NotHere
<1> QED BY <1>1, <1>3, <1>4, <1>5, SyncLeftAlone DEF NotifiedInv

LEMMA SyncArriveKeeps == ASSUME NotifiedInv, NEW m \in NotifiedMail, Notified!Arrive(m) PROVE NotifiedInv'
<1>1. PICK k \in {"clean", "high", "critical"} :
         /\ place[m] = "out" /\ kind' = [kind EXCEPT ![m] = k]
         /\ place' = [place EXCEPT ![m] = "inbox"] /\ pushes' = pushes \cup {m}
         /\ UNCHANGED <<notifiedCopies, notifiedStored, notifiedTold, stamped, wanted, flag,
                        notifiedStamps, announced, notifiedKnown, notifiedTries, notifiedJob,
                        clicked, notifiedOdd>>
  BY DEF Notified!Arrive, Notified!rows, Notified!bounds
<1>2. NotHere(m)
  BY <1>1 DEF NotifiedInv, Arrivals
<1>3. /\ kind' \in [NotifiedMail -> Kinds] /\ place' \in [NotifiedMail -> Places]
      /\ kind'[m] = k /\ place'[m] = "inbox" /\ k # "none"
      /\ \A n \in NotifiedMail \ {m} : kind'[n] = kind[n] /\ place'[n] = place[n]
  BY <1>1 DEF NotifiedInv, MailTyped, Kinds, Places
<1>4. MailTyped'
  BY <1>1, <1>3 DEF NotifiedInv, MailTyped
<1>5. SyncTyped'
  BY <1>1 DEF NotifiedInv, SyncTyped
<1>6. Arrivals'
  <2>1. ASSUME NEW n \in NotifiedMail \ {m}
        PROVE (kind'[n] = "none" => place'[n] = "out") /\ (place'[n] = "out" => NotHere(n)')
    BY <1>1, <1>3 DEF NotifiedInv, Arrivals, NotHere
  <2> QED BY <1>3, <2>1 DEF Arrivals
<1>7. notifiedJob.phase \in Working => notifiedJob.on \in NotifiedMail \ {m}
  BY <1>2, OnIsHere DEF NotHere
<1>8. Touched'
  <2>1. notifiedJob.phase \in {"hold", "mark", "copy", "remove"} =>
            kind'[notifiedJob.on] = kind[notifiedJob.on]
    BY <1>3, <1>7 DEF Working
  <2>2. \A n \in NotifiedMail :
            /\ place'[n] = "gone" => notifiedCopies[n] > 0
            /\ (place'[n] \in {"held", "gone"} \/ notifiedCopies[n] > 0) /\ kind'[n] # "clean" =>
                  n \in notifiedTold \cup clicked
    <3>1. place'[m] = "inbox" /\ notifiedCopies[m] = 0
      BY <1>2, <1>3 DEF NotHere
    <3> QED BY <1>3, <3>1 DEF NotifiedInv, Touched
  <2> QED BY <1>1, <2>1, <2>2 DEF NotifiedInv, Touched
<1>9. WrittenOnce'
  BY <1>1 DEF NotifiedInv, WrittenOnce
<1>10. Enforced'
  <2>1. m \notin notifiedKnown
    BY <1>2 DEF NotHere
  <2>2. notifiedJob.phase \in {"mark", "commit"} =>
            /\ kind'[notifiedJob.on] = kind[notifiedJob.on]
            /\ place'[notifiedJob.on] = place[notifiedJob.on]
    BY <1>3, <1>7 DEF Working
  <2> QED BY <1>1, <1>3, <2>1, <2>2 DEF NotifiedInv, Enforced
<1>11. Heard'
  BY <1>1, <1>3 DEF NotifiedInv, Heard, Accounted, Waits, Notified!Handled
<1> QED BY <1>4, <1>5, <1>6, <1>8, <1>9, <1>10, <1>11 DEF NotifiedInv

LEMMA NotifiedStart == Notified!Init => NotifiedInv
<1> SUFFICES ASSUME Notified!Init PROVE NotifiedInv
  OBVIOUS
<1>1. /\ notifiedJob = Notified!Idle
      /\ kind = [m \in NotifiedMail |-> "none"] /\ place = [m \in NotifiedMail |-> "out"]
      /\ notifiedCopies = [m \in NotifiedMail |-> 0] /\ notifiedTries = [m \in NotifiedMail |-> 0]
      /\ notifiedStored = {} /\ notifiedTold = {} /\ stamped = {} /\ wanted = {} /\ pushes = {}
      /\ announced = {} /\ notifiedKnown = {} /\ clicked = {} /\ notifiedOdd = {}
      /\ flag = 0 /\ notifiedStamps = 0
  BY DEF Notified!Init, Notified!NoMail
<1>2. MailTyped
  BY <1>1, NotifiedBounds DEF MailTyped, Kinds, Places
<1>3. SyncTyped
  BY <1>1, SyncIdle DEF SyncTyped, Working
<1>4. Arrivals
  BY <1>1, SyncIdle, NotifiedBounds DEF Arrivals, NotHere
<1>5. Touched
  BY <1>1, SyncIdle DEF Touched
<1>6. WrittenOnce
  BY <1>1, SyncIdle DEF WrittenOnce
<1>7. Enforced
  BY <1>1, SyncIdle DEF Enforced
<1>8. Heard
  BY <1>1, SyncIdle DEF Heard
<1> QED BY <1>2, <1>3, <1>4, <1>5, <1>6, <1>7, <1>8 DEF NotifiedInv

(* Every step keeps the invariant.                                        *)
LEMMA NotifiedStep == NotifiedInv /\ [Notified!Next]_(Notified!vars) => NotifiedInv'
<1> SUFFICES ASSUME NotifiedInv, [Notified!Next]_(Notified!vars) PROVE NotifiedInv'
  OBVIOUS
<1>1. CASE UNCHANGED Notified!vars
  <2>1. UNCHANGED <<kind, place, notifiedCopies, notifiedStored, notifiedTold, stamped, wanted, flag,
                    notifiedStamps, pushes, announced, notifiedKnown, notifiedTries, notifiedJob,
                    clicked, notifiedOdd>>
    BY <1>1 DEF Notified!vars
  <2>2. MailTyped' /\ SyncTyped' /\ Arrivals'
    BY <2>1 DEF NotifiedInv, MailTyped, SyncTyped, Arrivals, NotHere
  <2>3. Touched' /\ WrittenOnce' /\ Enforced'
    BY <2>1 DEF NotifiedInv, Touched, WrittenOnce, Enforced
  <2>4. Heard'
    BY <2>1 DEF NotifiedInv, Heard, Accounted, Waits, Notified!Handled
  <2> QED BY <2>2, <2>3, <2>4 DEF NotifiedInv
<1>2. CASE Notified!Step
  BY <1>2, SyncBeginKeeps, SyncListKeeps, SyncAlertCommitKeeps, SyncTellKeeps, SyncHoldKeeps,
     SyncCopyKeeps, SyncRemoveKeeps, SyncDoneKeeps, SyncRequestedKeeps, SyncFinishKeeps,
     SyncTakeKeeps, SyncRunClickKeeps DEF Notified!Step, Notified!Drain
<1>3. CASE \/ Notified!Poll \/ Notified!ListFails \/ Notified!HoldFails \/ Notified!CopyFails
           \/ Notified!RemoveFails \/ Notified!MessageFails \/ Notified!Crash
  BY <1>3, SyncBeginKeeps, SyncListFailsKeeps, SyncRefusedKeeps, SyncMessageFailsKeeps,
     SyncCrashKeeps DEF Notified!Poll
<1>4. CASE \E m \in NotifiedMail : \/ Notified!Arrive(m) \/ Notified!Push(m) \/ Notified!PushLost(m)
                                   \/ Notified!Click(m)
  BY <1>4, SyncArriveKeeps, SyncPushKeeps, SyncPushLostKeeps, SyncClickKeeps
<1> QED BY <1>1, <1>2, <1>3, <1>4 DEF Notified!Next

(* The invariant says what the run checks.                                *)
LEMMA NotifiedInvImplies ==
    NotifiedInv =>
        /\ Notified!TypeOK /\ Notified!AnnouncedNotForgotten /\ Notified!NothingLost
        /\ Notified!ToldBeforeTouched /\ Notified!CriticalEnforced /\ Notified!OneCopy
<1> SUFFICES ASSUME NotifiedInv
             PROVE  /\ Notified!TypeOK /\ Notified!AnnouncedNotForgotten /\ Notified!NothingLost
                    /\ Notified!ToldBeforeTouched /\ Notified!CriticalEnforced /\ Notified!OneCopy
  OBVIOUS
<1>1. Notified!TypeOK
  BY DEF NotifiedInv, MailTyped, SyncTyped, SyncJob, Kinds, Places, Notified!TypeOK, Notified!NoMail
<1>2. Notified!AnnouncedNotForgotten
  BY DEF NotifiedInv, Heard, Waits, Accounted, Notified!AnnouncedNotForgotten
<1>3. Notified!NothingLost /\ Notified!ToldBeforeTouched
  BY DEF NotifiedInv, Touched, Notified!NothingLost, Notified!ToldBeforeTouched
<1>4. Notified!CriticalEnforced
  BY DEF NotifiedInv, Enforced, Notified!CriticalEnforced
<1>5. Notified!OneCopy
  BY DEF NotifiedInv, WrittenOnce, Notified!OneCopy
<1> QED BY <1>1, <1>2, <1>3, <1>4, <1>5

-----------------------------------------------------------------------------
(* Consent: the permission to read a mailbox, and its subscription         *)

Consents == 1 .. Len(consentConsents)

ConsentShape ==
    /\ consentConsents \in Seq(Nat) /\ links \in Nat /\ used \subseteq 1 .. links
    /\ honoured \subseteq Consents /\ consentCred \in Consents \cup {0}
    /\ calling \subseteq honoured /\ consentCred \notin calling
    /\ mails \in Nat /\ revokes \in Nat
    /\ consentWork \in [Consent!Loop -> SUBSET [cred : Consents, reconnect : BOOLEAN]]
    /\ \A j \in Consent!Loop : \A w \in consentWork[j] : w.cred \notin calling
    /\ reconnect \in BOOLEAN

(* A link whose consent was given is used.                                *)
LinksAreUsed ==
    /\ \A n \in Consents : consentConsents[n] \in used
    /\ \A m, n \in Consents : consentConsents[m] = consentConsents[n] => m = n

(* The permission the mailbox was read with is gone, and nobody was told. *)
Owed == consentCred # 0 /\ consentCred \notin honoured /\ ~reconnect

(* While nothing overlapped, the one refresh under way knows the row as it*)
(* is, and every mail stands for a permission that was withdrawn.         *)
Undisturbed ==
    consentOdd = {} =>
        /\ \A j \in Consent!Loop : \A w \in consentWork[j] :
              w.cred = consentCred /\ w.reconnect = reconnect
        /\ \A i, j \in Consent!Loop : consentWork[i] # {} /\ consentWork[j] # {} => i = j
        /\ mails <= revokes /\ (Owed => mails + 1 <= revokes)

(* The mailbox goes without notifications only while it could be read and *)
(* the record of its subscription runs down.                              *)
Deafness ==
    /\ consentLeft \in 0 .. Life /\ (consentSub => named) /\ deaf \in Nat
    /\ consentFaults \in Nat
    /\ deaf > 0 => ~consentSub /\ Consent!Readable /\ named
    /\ consentFaults = 0 =>
          /\ deaf + consentLeft <= Life /\ deaf <= CheckEvery
          /\ deaf > 0 /\ passed => consentLeft > Life - CheckEvery

ConsentInv == ConsentShape /\ LinksAreUsed /\ Undisturbed /\ Deafness

LEMMA ConsentStart == Consent!Init => ConsentInv
<1> SUFFICES ASSUME Consent!Init PROVE ConsentInv
  OBVIOUS
<1>1. Len(consentConsents) = 0 /\ consentConsents \in Seq(Nat) /\ Consents = {}
  BY DEF Consent!Init, Consents
<1>2. ConsentShape
  <2>1. consentWork \in [Consent!Loop -> SUBSET [cred : Consents, reconnect : BOOLEAN]]
    BY DEF Consent!Init
  <2>2. \A j \in Consent!Loop : consentWork[j] = {}
    BY DEF Consent!Init
  <2>3. /\ links = 0 /\ used = {} /\ honoured = {} /\ consentCred = 0 /\ calling = {}
        /\ mails = 0 /\ revokes = 0 /\ reconnect = FALSE
    BY DEF Consent!Init
  <2> QED BY <1>1, <2>1, <2>2, <2>3 DEF ConsentShape
<1>3. LinksAreUsed
  BY <1>1 DEF LinksAreUsed
<1>4. Undisturbed
  BY DEF Consent!Init, Undisturbed, Owed
<1>5. Deafness
  BY ConsentBounds DEF Consent!Init, Deafness
<1> QED BY <1>2, <1>3, <1>4, <1>5 DEF ConsentInv

(* What only concerns the token leaves the subscription alone, as long as *)
(* the mailbox can still be read.                                         *)
LEMMA DeafnessStays ==
    ASSUME Deafness, UNCHANGED <<consentSub, named, consentLeft, passed, deaf>>,
           consentFaults' = consentFaults \/ consentFaults' = consentFaults + 1,
           Consent!Readable => Consent!Readable'
    PROVE  Deafness'
  BY DEF Deafness

(* What only concerns the subscription leaves the token alone.            *)
LEMMA TokenStays ==
    ASSUME ConsentShape, LinksAreUsed, Undisturbed, UNCHANGED Consent!token
    PROVE  ConsentShape' /\ LinksAreUsed' /\ Undisturbed'
<1>1. UNCHANGED <<honoured, consentCred, fresh, reconnect, mails, links, used, consentConsents,
                  calling, consentWork, revokes, consentOdd>>
  BY DEF Consent!token
<1>2. UNCHANGED <<Consents, Owed>>
  BY <1>1 DEF Consents, Owed
<1> QED BY <1>1, <1>2 DEF ConsentShape, LinksAreUsed, Undisturbed

(* The callback records the use of its link before it gives a consent.    *)
LEMMA ConsentCallbackKeeps ==
    ASSUME ConsentInv, NEW l \in 1 .. links, Consent!Callback(l) PROVE ConsentInv'
<1> DEFINE n == Len(consentConsents)
<1>1. /\ l \notin used /\ used' = used \cup {l} /\ consentConsents' = Append(consentConsents, l)
      /\ honoured' = honoured \cup {Len(consentConsents')}
      /\ calling' = calling \cup {Len(consentConsents')}
      /\ UNCHANGED <<consentCred, fresh, reconnect, mails, links, consentWork, revokes, consentOdd,
                     Consent!push, consentFaults>>
  BY DEF Consent!Callback, Consent!AlreadyUsed
<1>2. /\ consentConsents' \in Seq(Nat) /\ n \in Nat /\ Len(consentConsents') = n + 1
      /\ Consents' = Consents \cup {n + 1} /\ n + 1 \notin Consents
      /\ \A k \in Consents : consentConsents'[k] = consentConsents[k]
      /\ consentConsents'[n + 1] = l
  BY <1>1 DEF ConsentInv, ConsentShape, Consents
<1> HIDE DEF n
<1>3. ConsentShape'
  <2>1. /\ honoured' \subseteq Consents' /\ consentCred' \in Consents' \cup {0}
        /\ calling' \subseteq honoured' /\ consentCred' \notin calling'
    BY <1>1, <1>2 DEF ConsentInv, ConsentShape
  <2>2. consentWork' \in [Consent!Loop -> SUBSET [cred : Consents', reconnect : BOOLEAN]]
    BY <1>1, <1>2 DEF ConsentInv, ConsentShape
  <2>3. \A j \in Consent!Loop : \A w \in consentWork[j] : w.cred \in Consents /\ w.cred \notin calling
    BY DEF ConsentInv, ConsentShape
  <2>4. \A j \in Consent!Loop : \A w \in consentWork'[j] : w.cred \notin calling'
    BY <1>1, <1>2, <2>3
  <2> QED BY <1>1, <1>2, <2>1, <2>2, <2>4 DEF ConsentInv, ConsentShape
<1>4. LinksAreUsed'
  <2>1. \A k \in Consents : consentConsents'[k] \in used /\ consentConsents'[k] # l
    BY <1>1, <1>2 DEF ConsentInv, LinksAreUsed
  <2>2. \A i, k \in Consents : consentConsents'[i] = consentConsents'[k] => i = k
    BY <1>2 DEF ConsentInv, LinksAreUsed
  <2>3. \A k \in Consents' : consentConsents'[k] \in used'
    BY <1>1, <1>2, <2>1
  <2>4. ASSUME NEW i \in Consents', NEW k \in Consents', consentConsents'[i] = consentConsents'[k]
        PROVE  i = k
    <3>1. CASE i = n + 1
      BY <1>2, <2>1, <2>4, <3>1
    <3>2. CASE i \in Consents
      BY <1>2, <2>1, <2>2, <2>4, <3>2
    <3> QED BY <1>2, <3>1, <3>2
  <2> QED BY <2>3, <2>4 DEF LinksAreUsed
<1>5. Undisturbed'
  <2>1. Owed' => Owed
    <3>1. consentCred # n + 1
      BY <1>2 DEF ConsentInv, ConsentShape
    <3> QED BY <1>1, <1>2, <3>1 DEF Owed
  <2> QED BY <1>1, <2>1 DEF ConsentInv, Undisturbed
<1>6. Deafness'
  BY <1>1, DeafnessStays DEF ConsentInv, Consent!Readable, Consent!push
<1> QED BY <1>3, <1>4, <1>5, <1>6 DEF ConsentInv

(* The tokens of a consent are written: the mailbox can be read.          *)
LEMMA ConsentConnectKeeps ==
    ASSUME ConsentInv, NEW c \in calling, Consent!Connect(c) PROVE ConsentInv'
<1>1. /\ calling' = calling \ {c} /\ consentCred' = c /\ reconnect' = FALSE
      /\ consentOdd' = IF \E j \in Consent!Loop : consentWork[j] # {}
                       THEN consentOdd \cup {"reconnect"} ELSE consentOdd
      /\ UNCHANGED <<honoured, mails, links, used, consentConsents, consentWork, revokes,
                     Consent!push, consentFaults, Consents>>
  BY DEF Consent!Connect, Consents
<1>2. c \in honoured /\ c \in Consents
  BY DEF ConsentInv, ConsentShape
<1>3. ConsentShape'
  BY <1>1, <1>2 DEF ConsentInv, ConsentShape
<1>4. LinksAreUsed'
  BY <1>1 DEF ConsentInv, LinksAreUsed
<1>5. Undisturbed'
  <2>1. ~Owed'
    BY <1>1, <1>2 DEF Owed
  <2>2. CASE \E j \in Consent!Loop : consentWork[j] # {}
    BY <1>1, <2>2 DEF Undisturbed
  <2>3. CASE \A j \in Consent!Loop : consentWork[j] = {}
    BY <1>1, <2>1, <2>3 DEF ConsentInv, Undisturbed
  <2> QED BY <2>2, <2>3
<1>6. Deafness'
  BY <1>1, <1>2, DeafnessStays DEF ConsentInv, Consent!Readable, Consent!push
<1> QED BY <1>3, <1>4, <1>5, <1>6 DEF ConsentInv

(* The permission is withdrawn: one more mail may be sent.                *)
LEMMA ConsentWithdrawKeeps == ASSUME ConsentInv, Consent!Withdraw PROVE ConsentInv'
<1>1. /\ consentCred \in honoured /\ revokes' = revokes + 1 /\ honoured' = honoured \ {consentCred}
      /\ deaf' = 0
      /\ UNCHANGED <<consentCred, fresh, reconnect, mails, links, used, consentConsents, calling,
                     consentWork, consentOdd, consentSub, named, consentLeft, passed,
                     consentFaults, Consents>>
  BY DEF Consent!Withdraw, Consents
<1>2. ConsentShape'
  BY <1>1 DEF ConsentInv, ConsentShape
<1>3. LinksAreUsed'
  BY <1>1 DEF ConsentInv, LinksAreUsed
<1>4. Undisturbed'
  BY <1>1 DEF ConsentInv, ConsentShape, Undisturbed
<1>5. Deafness'
  BY <1>1, ConsentBounds DEF ConsentInv, Deafness
<1> QED BY <1>2, <1>3, <1>4, <1>5 DEF ConsentInv

(* A refresh reads the row.                                               *)
LEMMA ConsentStartRefreshKeeps ==
    ASSUME ConsentInv, NEW j \in Consent!Loop, Consent!StartRefresh(j) PROVE ConsentInv'
<1> DEFINE w == [cred |-> consentCred, reconnect |-> reconnect]
<1>1. /\ consentCred # 0 /\ consentWork[j] = {}
      /\ consentWork' = [consentWork EXCEPT ![j] = {w}]
      /\ consentOdd' = IF \E i \in Consent!Loop : consentWork[i] # {} THEN consentOdd \cup {"beside"}
                       ELSE consentOdd
      /\ UNCHANGED <<honoured, consentCred, reconnect, mails, links, used, consentConsents, calling,
                     revokes, Consent!push, consentFaults, Consents>>
  BY DEF Consent!StartRefresh, Consents
<1>2. /\ w \in [cred : Consents, reconnect : BOOLEAN] /\ w.cred = consentCred
      /\ w.reconnect = reconnect
  BY <1>1 DEF ConsentInv, ConsentShape
<1> HIDE DEF w
<1>3. /\ DOMAIN consentWork' = Consent!Loop /\ consentWork'[j] = {w}
      /\ \A i \in Consent!Loop \ {j} : consentWork'[i] = consentWork[i]
  BY <1>1 DEF ConsentInv, ConsentShape
<1>4. ConsentShape'
  <2>1. consentWork' \in [Consent!Loop -> SUBSET [cred : Consents, reconnect : BOOLEAN]]
    BY <1>1, <1>2 DEF ConsentInv, ConsentShape
  <2>2. \A i \in Consent!Loop : \A v \in consentWork'[i] : v.cred \notin calling
    BY <1>2, <1>3 DEF ConsentInv, ConsentShape
  <2> QED BY <1>1, <2>1, <2>2 DEF ConsentInv, ConsentShape
<1>5. LinksAreUsed'
  BY <1>1 DEF ConsentInv, LinksAreUsed
<1>6. Undisturbed'
  <2>1. Owed' => Owed
    BY <1>1 DEF Owed
  <2>2. CASE \E i \in Consent!Loop : consentWork[i] # {}
    BY <1>1, <2>2 DEF Undisturbed
  <2>3. CASE \A i \in Consent!Loop : consentWork[i] = {}
    BY <1>1, <1>2, <1>3, <2>1, <2>3 DEF ConsentInv, Undisturbed
  <2> QED BY <2>2, <2>3
<1>7. Deafness'
  BY <1>1, DeafnessStays DEF ConsentInv, Consent!Readable, Consent!push
<1> QED BY <1>4, <1>5, <1>6, <1>7 DEF ConsentInv

(* The work of a job that ends is gone, the other's stays.                *)
LEMMA WorkEnds ==
    ASSUME ConsentShape, NEW j \in Consent!Loop, consentWork' = [consentWork EXCEPT ![j] = {}],
           UNCHANGED <<Consents, calling>>
    PROVE  /\ consentWork' \in [Consent!Loop -> SUBSET [cred : Consents', reconnect : BOOLEAN]]
           /\ \A i \in Consent!Loop : \A v \in consentWork'[i] : v.cred \notin calling'
           /\ consentWork'[j] = {}
           /\ \A i \in Consent!Loop \ {j} : consentWork'[i] = consentWork[i]
  BY DEF ConsentShape

(* A refresh writes what it got over the row.                             *)
LEMMA ConsentRefreshedKeeps ==
    ASSUME ConsentInv, NEW j \in Consent!Loop, Consent!Refreshed(j) PROVE ConsentInv'
<1>1. PICK w \in consentWork[j] :
        /\ w.cred \in honoured
        /\ consentCred' = w.cred /\ reconnect' = Consent!Healed(w)
        /\ consentWork' = [consentWork EXCEPT ![j] = {}]
        /\ UNCHANGED <<honoured, mails, links, used, consentConsents, calling, revokes, consentOdd,
                       Consent!push, consentFaults>>
  BY DEF Consent!Refreshed
<1>2. w.cred \in Consents /\ w.reconnect \in BOOLEAN /\ w.cred \notin calling
  BY DEF ConsentInv, ConsentShape
<1>3. UNCHANGED Consents
  BY <1>1 DEF Consents
<1>4. /\ consentWork' \in [Consent!Loop -> SUBSET [cred : Consents', reconnect : BOOLEAN]]
      /\ \A i \in Consent!Loop : \A v \in consentWork'[i] : v.cred \notin calling'
      /\ consentWork'[j] = {}
      /\ \A i \in Consent!Loop \ {j} : consentWork'[i] = consentWork[i]
  BY <1>1, <1>3, WorkEnds DEF ConsentInv
<1>5. ConsentShape'
  <2>1. reconnect' \in BOOLEAN
    BY <1>1 DEF Consent!Healed, ConsentInv, ConsentShape
  <2> QED BY <1>1, <1>2, <1>3, <1>4, <2>1 DEF ConsentInv, ConsentShape
<1>6. LinksAreUsed'
  BY <1>1, <1>3 DEF ConsentInv, LinksAreUsed
<1>7. Undisturbed'
  <2>1. ~Owed'
    BY <1>1 DEF Owed
  <2>2. ASSUME consentOdd = {} PROVE \A i \in Consent!Loop : consentWork'[i] = {}
    <3>1. \A i \in Consent!Loop : consentWork[i] # {} => i = j
      BY <2>2 DEF ConsentInv, Undisturbed
    <3> QED BY <1>4, <3>1
  <2> QED BY <1>1, <2>1, <2>2 DEF ConsentInv, Undisturbed
<1>8. Deafness'
  BY <1>1, DeafnessStays DEF ConsentInv, Consent!Readable, Consent!push
<1> QED BY <1>5, <1>6, <1>7, <1>8 DEF ConsentInv

(* A refusal is told of when the row was not flagged before.              *)
LEMMA ConsentRefusedKeeps ==
    ASSUME ConsentInv, NEW j \in Consent!Loop, Consent!Refused(j) PROVE ConsentInv'
<1>1. PICK w \in consentWork[j] :
        /\ w.cred \notin honoured
        /\ reconnect' = IF w.reconnect THEN reconnect ELSE Consent!Flagged(w)
        /\ mails' = IF w.reconnect \/ mails > MaxRevokes THEN mails ELSE mails + 1
        /\ consentWork' = [consentWork EXCEPT ![j] = {}]
        /\ UNCHANGED <<honoured, consentCred, links, used, consentConsents, calling, revokes,
                       consentOdd, Consent!push, consentFaults>>
  BY DEF Consent!Refused
<1>2. w.cred \in Consents /\ w.reconnect \in BOOLEAN /\ w.cred \notin calling
  BY DEF ConsentInv, ConsentShape
<1>3. UNCHANGED Consents
  BY <1>1 DEF Consents
<1>4. /\ consentWork' \in [Consent!Loop -> SUBSET [cred : Consents', reconnect : BOOLEAN]]
      /\ \A i \in Consent!Loop : \A v \in consentWork'[i] : v.cred \notin calling'
      /\ consentWork'[j] = {}
      /\ \A i \in Consent!Loop \ {j} : consentWork'[i] = consentWork[i]
  BY <1>1, <1>3, WorkEnds DEF ConsentInv
<1>5. ConsentShape'
  <2>1. mails' = mails \/ mails' = mails + 1
    BY <1>1
  <2>2. reconnect' = reconnect \/ reconnect' = TRUE
    BY <1>1 DEF Consent!Flagged
  <2>3. mails' \in Nat
    BY <2>1 DEF ConsentInv, ConsentShape
  <2>4. reconnect' \in BOOLEAN
    BY <2>2 DEF ConsentInv, ConsentShape
  <2> QED BY <1>1, <1>2, <1>3, <1>4, <2>3, <2>4 DEF ConsentInv, ConsentShape
<1>6. LinksAreUsed'
  BY <1>1, <1>3 DEF ConsentInv, LinksAreUsed
<1>7. ASSUME consentOdd' = {} PROVE Undisturbed'
  <2>1. consentOdd = {} /\ w.cred = consentCred /\ w.reconnect = reconnect
    BY <1>1, <1>7 DEF ConsentInv, Undisturbed
  <2>2. \A i \in Consent!Loop : consentWork'[i] = {}
    <3>1. \A i \in Consent!Loop : consentWork[i] # {} => i = j
      BY <2>1 DEF ConsentInv, Undisturbed
    <3> QED BY <1>4, <3>1
  <2>3. reconnect' = TRUE
    BY <1>1, <1>2, <2>1 DEF Consent!Flagged
  <2>4. mails' <= revokes'
    <3>1. mails \in Nat /\ revokes \in Nat /\ mails <= revokes
      BY <2>1 DEF ConsentInv, ConsentShape, Undisturbed
    <3>2. CASE w.reconnect
      BY <1>1, <3>1, <3>2
    <3>3. CASE ~w.reconnect
      <4>1. Owed
        BY <1>1, <1>2, <2>1, <3>3 DEF Owed, Consents, ConsentInv, ConsentShape
      <4>2. mails + 1 <= revokes
        BY <2>1, <4>1 DEF ConsentInv, Undisturbed
      <4> QED BY <1>1, <3>1, <4>2
    <3> QED BY <3>2, <3>3
  <2> QED BY <2>2, <2>3, <2>4 DEF Undisturbed, Owed
<1>8. Undisturbed'
  BY <1>7 DEF Undisturbed
<1>9. Deafness'
  BY <1>1, DeafnessStays DEF ConsentInv, Consent!Readable, Consent!push
<1> QED BY <1>5, <1>6, <1>8, <1>9 DEF ConsentInv

(* A failed call ends the refresh, and nothing else.                      *)
LEMMA ConsentRefreshFailsKeeps ==
    ASSUME ConsentInv, NEW j \in Consent!Loop, Consent!RefreshFails(j) PROVE ConsentInv'
<1>1. /\ consentWork' = [consentWork EXCEPT ![j] = {}] /\ consentFaults' = consentFaults + 1
      /\ UNCHANGED <<honoured, consentCred, reconnect, mails, links, used, consentConsents, calling,
                     revokes, consentOdd, Consent!push, Consents>>
  BY DEF Consent!RefreshFails, Consents
<1>2. /\ consentWork' \in [Consent!Loop -> SUBSET [cred : Consents', reconnect : BOOLEAN]]
      /\ \A i \in Consent!Loop : \A v \in consentWork'[i] : v.cred \notin calling'
      /\ consentWork'[j] = {}
      /\ \A i \in Consent!Loop \ {j} : consentWork'[i] = consentWork[i]
  BY <1>1, WorkEnds DEF ConsentInv
<1>3. ConsentShape'
  BY <1>1, <1>2 DEF ConsentInv, ConsentShape
<1>4. LinksAreUsed'
  BY <1>1 DEF ConsentInv, LinksAreUsed
<1>5. Undisturbed'
  <2>1. Owed' => Owed
    BY <1>1 DEF Owed
  <2>2. \A i \in Consent!Loop : consentWork'[i] \subseteq consentWork[i]
    BY <1>2
  <2> QED BY <1>1, <2>1, <2>2 DEF ConsentInv, Undisturbed
<1>6. Deafness'
  BY <1>1, DeafnessStays DEF ConsentInv, Consent!Readable, Consent!push
<1> QED BY <1>3, <1>4, <1>5, <1>6 DEF ConsentInv
(* A callback that fails has used its link.                               *)
LEMMA ConsentCallbackFailsKeeps ==
    ASSUME ConsentInv, NEW l \in 1 .. links, Consent!CallbackFails(l) PROVE ConsentInv'
<1>1. /\ used' = used \cup {l} /\ consentFaults' = consentFaults + 1
      /\ UNCHANGED <<honoured, consentCred, reconnect, mails, links, consentConsents, calling,
                     consentWork, revokes, consentOdd, Consent!push, Consents>>
  BY DEF Consent!CallbackFails, Consents
<1>2. ConsentShape'
  BY <1>1 DEF ConsentInv, ConsentShape
<1>3. LinksAreUsed'
  BY <1>1 DEF ConsentInv, LinksAreUsed
<1>4. Undisturbed'
  BY <1>1 DEF ConsentInv, Undisturbed, Owed
<1>5. Deafness'
  BY <1>1, DeafnessStays DEF ConsentInv, Consent!Readable, Consent!push
<1> QED BY <1>2, <1>3, <1>4, <1>5 DEF ConsentInv

LEMMA ConsentAsideKeeps ==
    ASSUME ConsentInv, Consent!Authorize \/ Consent!Age PROVE ConsentInv'
<1>1. /\ links' = links \/ links' = links + 1
      /\ UNCHANGED <<honoured, consentCred, reconnect, mails, used, consentConsents, calling,
                     consentWork, revokes, consentOdd, Consent!push, consentFaults, Consents>>
  BY DEF Consent!Authorize, Consent!Age, Consents
<1>2. ConsentShape'
  BY <1>1 DEF ConsentInv, ConsentShape
<1>3. LinksAreUsed'
  BY <1>1 DEF ConsentInv, LinksAreUsed
<1>4. Undisturbed'
  BY <1>1 DEF ConsentInv, Undisturbed, Owed
<1>5. Deafness'
  BY <1>1, DeafnessStays DEF ConsentInv, Consent!Readable, Consent!push
<1> QED BY <1>2, <1>3, <1>4, <1>5 DEF ConsentInv

(* The job renews what is due, so that it is not due until it ran again.  *)
LEMMA ConsentEnsureKeeps ==
    ASSUME ConsentInv, Consent!EnsurePush \/ Consent!EnsureFails PROVE ConsentInv'
<1>1. UNCHANGED Consent!token
  BY DEF Consent!EnsurePush, Consent!EnsureFails
<1>2. Consent!Readable' = Consent!Readable
  BY <1>1 DEF Consent!token, Consent!Readable
<1>3. Deafness'
  <2>1. CASE Consent!EnsureFails
    BY <1>2, <2>1 DEF Consent!EnsureFails, ConsentInv, Deafness
  <2>2. CASE Consent!EnsurePush /\ Consent!Due /\ Consent!Readable
    BY <1>2, <2>2, ConsentBounds DEF Consent!EnsurePush, ConsentInv, Deafness
  <2>3. CASE Consent!EnsurePush /\ ~(Consent!Due /\ Consent!Readable)
    <3>1. UNCHANGED <<consentSub, named, consentLeft, deaf, consentFaults>>
      BY <2>3 DEF Consent!EnsurePush
    <3>2. deaf > 0 => consentLeft > Life - CheckEvery
      BY <2>3, ConsentBounds DEF ConsentInv, Deafness, Consent!Due
    <3> QED BY <1>2, <3>1, <3>2 DEF ConsentInv, Deafness
  <2> QED BY <2>1, <2>2, <2>3
<1> QED BY <1>1, <1>3, TokenStays DEF ConsentInv

LEMMA ConsentIntervalKeeps == ASSUME ConsentInv, Consent!Interval PROVE ConsentInv'
<1>1. /\ passed /\ passed' = FALSE
      /\ consentLeft' = IF consentLeft = 0 THEN 0 ELSE consentLeft - 1
      /\ consentSub' = (consentSub /\ consentLeft # 0)
      /\ deaf' = IF Consent!Readable /\ named /\ ~consentSub /\ deaf <= Life THEN deaf + 1 ELSE 0
      /\ UNCHANGED Consent!token /\ named' = named /\ consentFaults' = consentFaults
  BY DEF Consent!Interval
<1>2. Consent!Readable' = Consent!Readable
  BY <1>1 DEF Consent!token, Consent!Readable
<1>3. Deafness'
  <2>1. consentLeft' \in 0 .. Life /\ deaf' \in Nat /\ (consentSub' => named')
    <3>1. consentLeft \in 0 .. Life /\ deaf \in Nat /\ (consentSub => named)
      BY DEF ConsentInv, Deafness
    <3>2. consentLeft' \in 0 .. Life
      BY <1>1, <3>1, ConsentBounds
    <3>3. deaf' \in Nat
      BY <1>1, <3>1
    <3> QED BY <1>1, <3>1, <3>2, <3>3
  <2>2. deaf' > 0 => ~consentSub' /\ Consent!Readable' /\ named'
    <3>1. CASE Consent!Readable /\ named /\ ~consentSub
      BY <1>1, <1>2, <3>1
    <3>2. CASE ~(Consent!Readable /\ named /\ ~consentSub)
      BY <1>1, <3>2
    <3> QED BY <3>1, <3>2
  <2>3. ASSUME consentFaults = 0 PROVE deaf' + consentLeft' <= Life /\ deaf' <= CheckEvery
    BY <1>1, <2>3, ConsentBounds DEF ConsentInv, Deafness
  <2> QED BY <1>1, <2>1, <2>2, <2>3 DEF ConsentInv, Deafness
<1> QED BY <1>1, <1>3, TokenStays DEF ConsentInv

LEMMA ConsentDropKeeps == ASSUME ConsentInv, Consent!Drop PROVE ConsentInv'
<1>1. /\ consentSub /\ consentSub' = FALSE /\ (consentLeft' = consentLeft \/ consentLeft' = 0)
      /\ UNCHANGED Consent!token /\ UNCHANGED <<named, passed, deaf, consentFaults>>
  BY DEF Consent!Drop
<1>2. Consent!Readable' = Consent!Readable
  BY <1>1 DEF Consent!token, Consent!Readable
<1>3. deaf = 0
  BY <1>1 DEF ConsentInv, Deafness
<1>4. Deafness'
  BY <1>1, <1>2, <1>3, ConsentBounds DEF ConsentInv, Deafness
<1> QED BY <1>1, <1>4, TokenStays DEF ConsentInv

(* Every step keeps the invariant.                                        *)
LEMMA ConsentStep == ConsentInv /\ [Consent!Next]_(Consent!vars) => ConsentInv'
<1> SUFFICES ASSUME ConsentInv, [Consent!Next]_(Consent!vars) PROVE ConsentInv'
  OBVIOUS
<1>1. CASE UNCHANGED Consent!vars
  <2>1. UNCHANGED Consent!token /\ UNCHANGED Consent!push /\ consentFaults' = consentFaults
    BY <1>1 DEF Consent!vars
  <2>2. Consent!Readable' = Consent!Readable
    BY <2>1 DEF Consent!token, Consent!Readable
  <2> QED BY <2>1, <2>2, TokenStays, DeafnessStays DEF ConsentInv, Consent!push
<1>2. CASE Consent!Next
  BY <1>2, ConsentAsideKeeps, ConsentWithdrawKeeps, ConsentEnsureKeeps, ConsentIntervalKeeps,
     ConsentDropKeeps, ConsentCallbackKeeps, ConsentCallbackFailsKeeps, ConsentConnectKeeps,
     ConsentStartRefreshKeeps, ConsentRefreshedKeeps, ConsentRefusedKeeps, ConsentRefreshFailsKeeps
     DEF Consent!Next, Consent!Finish
<1> QED BY <1>1, <1>2

(* The invariant says what the run checks.                                *)
LEMMA ConsentInvImplies ==
    ConsentInv => /\ Consent!TypeOK /\ Consent!LinkUsedOnce /\ Consent!LossToldOnce
                  /\ Consent!DeafIsNoticed
<1> SUFFICES ASSUME ConsentInv
             PROVE  /\ Consent!TypeOK /\ Consent!LinkUsedOnce /\ Consent!LossToldOnce
                    /\ Consent!DeafIsNoticed
  OBVIOUS
<1>1. Consent!TypeOK
  BY DEF ConsentInv, ConsentShape, Deafness, Consents, Consent!TypeOK
<1>2. Consent!LinkUsedOnce
  BY DEF ConsentInv, LinksAreUsed, Consents, Consent!LinkUsedOnce
<1>3. Consent!LossToldOnce /\ Consent!DeafIsNoticed
  BY DEF ConsentInv, Undisturbed, Deafness, Consent!LossToldOnce, Consent!DeafIsNoticed
<1> QED BY <1>1, <1>2, <1>3

-----------------------------------------------------------------------------
(* Sensor: the devices of a mailbox, and the looks of its polls            *)

Session == [dev : Device, net : Net, seen : Nat]
Beat == [dev : Device, net : Net, at : Nat, seen : SUBSET Session]

(* A code enrols once; a device has one session and one heartbeat, which  *)
(* knows every session of its device; who was removed and is still there  *)
(* had a heartbeat under way.                                             *)
DevicesInv ==
    /\ sensorNow \in Nat
    /\ paired \subseteq Code \X Device /\ (\A p \in paired : p[1] \notin codes)
    /\ \A p, q \in paired : p[1] = q[1] => p = q
    /\ open \subseteq Session /\ (\A s, t \in open : s.dev = t.dev => s = t)
    /\ beating \subseteq Beat /\ (\A b, c \in beating : b.dev = c.dev => b = c)
    /\ \A b \in beating : /\ \A s \in b.seen : s.dev = b.dev
                          /\ \A s \in open : s.dev = b.dev => s \in b.seen
                          /\ b.dev \in revoked => b.dev \in sensorLate
    /\ \A s \in open : s.dev \in revoked => s.dev \in sensorLate

LookRecord == [was : SUBSET SUBSET SensorMail, unread : SUBSET SensorMail, left : SUBSET SensorMail,
               alerts : SUBSET SensorMail, on : BOOLEAN]

LookTyped ==
    /\ sensorMail \in [SensorMail -> {"unread", "read", "gone"}]
    /\ while \in [SensorMail -> BOOLEAN] /\ armed \in BOOLEAN
    /\ sensorTold \in [SensorMail -> Nat]
    /\ snap \subseteq SUBSET SensorMail /\ (\A u, v \in snap : u = v)
    /\ alerts \subseteq SensorMail /\ excused \subseteq SensorMail
    /\ look \in LookRecord /\ (~look.on => look = Watch!Idle)

(* What a look found was read, and it forgets nothing it was given.       *)
LookSound ==
    /\ \A m \in look.left \cup look.alerts \cup alerts : sensorMail[m] = "read"
    /\ look.on => snap = look.was \/ snap = {}
    /\ \A m \in UNION look.was :
          sensorMail[m] = "gone" \/ m \in look.left \cup look.alerts \cup excused \cup look.unread

(* Unless the switch was thrown during a look, what is remembered is of   *)
(* the time since it was switched on, and what was read of it too.        *)
SinceArmed ==
    "switched" \notin sensorOdd =>
        /\ (snap # {} => armed) /\ (look.on => armed)
        /\ \A m \in (UNION snap) \cup look.unread : sensorMail[m] = "read" => while[m]
        /\ \A m \in look.left \cup look.alerts \cup alerts : while[m]

(* When nothing overlapped or failed, whoever was told of is behind the   *)
(* set that is remembered.                                                *)
ToldBehind ==
    sensorOdd = {} =>
        /\ look.on => snap = look.was
        /\ look.left \cap look.unread = {}
        /\ \A m \in SensorMail : sensorTold[m] # 0 =>
              /\ sensorTold[m] = 1 /\ sensorMail[m] # "unread"
              /\ m \notin look.left /\ m \notin look.unread
              /\ look.on \/ m \notin UNION snap

WatchInv == DevicesInv /\ LookTyped /\ LookSound /\ SinceArmed /\ ToldBehind

LEMMA LookIdle ==
    /\ Watch!Idle \in LookRecord /\ Watch!Idle.was = {} /\ Watch!Idle.unread = {}
    /\ Watch!Idle.left = {} /\ Watch!Idle.alerts = {} /\ Watch!Idle.on = FALSE
  BY DEF Watch!Idle, LookRecord

LEMMA WatchStart == Watch!Init => WatchInv
<1> SUFFICES ASSUME Watch!Init PROVE WatchInv
  OBVIOUS
<1>1. look = Watch!Idle
  BY DEF Watch!Init
<1>2. DevicesInv
  BY DEF Watch!Init, DevicesInv
<1>3. LookTyped
  BY <1>1, LookIdle DEF Watch!Init, LookTyped
<1>4. LookSound
  BY <1>1, LookIdle DEF Watch!Init, LookSound
<1>5. SinceArmed
  BY <1>1, LookIdle DEF Watch!Init, SinceArmed
<1>6. ToldBehind
  BY <1>1, LookIdle DEF Watch!Init, ToldBehind
<1> QED BY <1>2, <1>3, <1>4, <1>5, <1>6 DEF WatchInv

(* What concerns the devices leaves the looks alone, and the other way    *)
(* round.                                                                 *)
LEMMA LooksStay ==
    ASSUME WatchInv, UNCHANGED <<sensorMail, while, armed, sensorTold, snap, alerts, excused, look,
                                 sensorOdd>>
    PROVE  LookTyped' /\ LookSound' /\ SinceArmed' /\ ToldBehind'
  BY DEF WatchInv, LookTyped, LookSound, SinceArmed, ToldBehind

LEMMA DevicesStay ==
    ASSUME WatchInv, UNCHANGED <<sensorNow, codes, paired, revoked, open, beating, sensorLate>>
    PROVE  DevicesInv'
  BY DEF WatchInv, DevicesInv

-----------------------------------------------------------------------------
LEMMA WatchTickKeeps == ASSUME WatchInv, Watch!Tick PROVE WatchInv'
<1>1. /\ sensorNow' = sensorNow + 1
      /\ UNCHANGED <<codes, paired, revoked, open, beating, sensorLate, sensorMail, while, armed,
                     sensorTold, snap, alerts, excused, look, sensorOdd>>
  BY DEF Watch!Tick, Watch!devices, Watch!inbox, Watch!watch
<1>2. DevicesInv'
  BY <1>1 DEF WatchInv, DevicesInv
<1> QED BY <1>1, <1>2, LooksStay DEF WatchInv

LEMMA WatchPairKeeps == ASSUME WatchInv, NEW c \in Code, Watch!CreatePairing(c) PROVE WatchInv'
<1>1. /\ (\A p \in paired : p[1] # c) /\ codes' = codes \cup {c}
      /\ UNCHANGED <<sensorNow, paired, revoked, open, beating, sensorLate, sensorMail, while, armed,
                     sensorTold, snap, alerts, excused, look, sensorOdd>>
  BY DEF Watch!CreatePairing, Watch!inbox, Watch!watch
<1>2. DevicesInv'
  BY <1>1 DEF WatchInv, DevicesInv
<1> QED BY <1>1, <1>2, LooksStay DEF WatchInv

LEMMA WatchEnrollKeeps ==
    ASSUME WatchInv, NEW c \in Code, NEW d \in Device, Watch!Enroll(c, d) PROVE WatchInv'
<1>1. /\ c \in codes /\ codes' = codes \ {c} /\ paired' = paired \cup {<<c, d>>}
      /\ UNCHANGED <<sensorNow, revoked, open, beating, sensorLate, sensorMail, while, armed,
                     sensorTold, snap, alerts, excused, look, sensorOdd>>
  BY DEF Watch!Enroll, Watch!Claimed, Watch!inbox, Watch!watch
<1>2. DevicesInv'
  <2>1. paired' \subseteq Code \X Device /\ (\A p \in paired' : p[1] \notin codes')
    BY <1>1 DEF WatchInv, DevicesInv
  <2>2. \A p \in paired : p[1] # c
    BY <1>1 DEF WatchInv, DevicesInv
  <2>3. \A p, q \in paired' : p[1] = q[1] => p = q
    BY <1>1, <2>2 DEF WatchInv, DevicesInv
  <2> QED BY <1>1, <2>1, <2>3 DEF WatchInv, DevicesInv
<1> QED BY <1>1, <1>2, LooksStay DEF WatchInv

(* A removed device loses its sessions, but for a heartbeat under way.    *)
LEMMA WatchRevokeKeeps == ASSUME WatchInv, NEW d \in Device, Watch!RevokeDevice(d) PROVE WatchInv'
<1>1. /\ revoked' = revoked \cup {d} /\ open' = {s \in open : s.dev # d}
      /\ sensorLate' = IF \E b \in beating : b.dev = d THEN sensorLate \cup {d} ELSE sensorLate
      /\ UNCHANGED <<sensorNow, codes, paired, beating, sensorMail, while, armed,
                     sensorTold, snap, alerts, excused, look, sensorOdd>>
  BY DEF Watch!RevokeDevice, Watch!Remaining, Watch!inbox, Watch!watch
<1>2. DevicesInv'
  <2>1. \A b \in beating : b.dev \in revoked' => b.dev \in sensorLate'
    BY <1>1 DEF WatchInv, DevicesInv
  <2>2. open' \subseteq open /\ \A s \in open' : s.dev # d
    BY <1>1
  <2>3. sensorLate \subseteq sensorLate'
    BY <1>1
  <2>4. \A s \in open' : s.dev \in revoked' => s.dev \in sensorLate'
    BY <1>1, <2>2, <2>3 DEF WatchInv, DevicesInv
  <2> QED BY <1>1, <2>1, <2>2, <2>4 DEF WatchInv, DevicesInv
<1> QED BY <1>1, <1>2, LooksStay DEF WatchInv

LEMMA EnrolledAre == ASSUME WatchInv, NEW d \in Watch!Enrolled PROVE d \in Device /\ d \notin revoked
  BY DEF WatchInv, DevicesInv, Watch!Enrolled

LEMMA WatchBeatStartKeeps ==
    ASSUME WatchInv, NEW d \in Device, NEW n \in Net, Watch!BeatStart(d, n) PROVE WatchInv'
<1> DEFINE known == {s \in open : s.dev = d}
           beat == [dev |-> d, net |-> n, at |-> sensorNow, seen |-> known]
<1>1. /\ d \notin revoked /\ (\A b \in beating : b.dev # d)
      /\ beating' = beating \cup {beat}
      /\ UNCHANGED <<sensorNow, codes, paired, revoked, open, sensorLate, sensorMail, while, armed,
                     sensorTold, snap, alerts, excused, look, sensorOdd>>
  BY EnrolledAre DEF Watch!BeatStart, Watch!inbox, Watch!watch
<1>2. /\ known \in SUBSET Session /\ (\A s \in known : s.dev = d)
      /\ \A s \in open : s.dev = d => s \in known
  BY DEF WatchInv, DevicesInv
<1> HIDE DEF known
<1>3. beat \in Beat /\ beat.dev = d /\ beat.seen = known
  BY <1>2 DEF WatchInv, DevicesInv, Beat
<1> HIDE DEF beat
<1>4. DevicesInv'
  <2>1. beating' \subseteq Beat /\ (\A b, c \in beating' : b.dev = c.dev => b = c)
    BY <1>1, <1>3 DEF WatchInv, DevicesInv
  <2>2. \A b \in beating' : /\ \A s \in b.seen : s.dev = b.dev
                            /\ \A s \in open : s.dev = b.dev => s \in b.seen
                            /\ b.dev \in revoked => b.dev \in sensorLate
    BY <1>1, <1>2, <1>3 DEF WatchInv, DevicesInv
  <2> QED BY <1>1, <2>1, <2>2 DEF WatchInv, DevicesInv
<1> QED BY <1>1, <1>4, LooksStay DEF WatchInv

(* A heartbeat goes on with its device's session, or replaces it.         *)
LEMMA WatchBeatEndKeeps == ASSUME WatchInv, NEW b \in beating, Watch!BeatEnd(b) PROVE WatchInv'
<1> DEFINE mine == {s \in b.seen : Watch!Continues(b, s)}
           mark(s) == [s EXCEPT !.seen = b.at]
           more == IF mine = {} THEN {[dev |-> b.dev, net |-> b.net, seen |-> b.at]}
                   ELSE {mark(s) : s \in mine \cap open}
<1>1. /\ beating' = beating \ {b} /\ open' = (open \ b.seen) \cup more
      /\ UNCHANGED <<sensorNow, codes, paired, revoked, sensorLate, sensorMail, while, armed,
                     sensorTold, snap, alerts, excused, look, sensorOdd>>
  BY DEF Watch!BeatEnd, Watch!inbox, Watch!watch
<1>2. /\ b \in Beat /\ (\A s \in b.seen : s.dev = b.dev)
      /\ (\A s \in open : s.dev = b.dev => s \in b.seen)
      /\ b.dev \in revoked => b.dev \in sensorLate
  BY DEF WatchInv, DevicesInv
<1>3. b.dev \in Device /\ b.net \in Net /\ b.at \in Nat /\ b.seen \subseteq Session
  BY <1>2 DEF Beat
<1>4. more \subseteq Session /\ (\A s \in more : s.dev = b.dev) /\ (\A s, t \in more : s = t)
  <2>1. CASE mine = {}
    BY <1>3, <2>1 DEF Session
  <2>2. CASE mine # {}
    <3>1. \A s \in mine \cap open : s \in Session /\ s.dev = b.dev
      BY <1>2, <1>3
    <3>2. \A s \in mine \cap open : mark(s) \in Session /\ mark(s).dev = b.dev
      BY <1>3, <3>1 DEF Session
    <3>3. \A s, t \in mine \cap open : s = t
      BY <3>1 DEF WatchInv, DevicesInv
    <3> HIDE DEF mark
    <3> QED BY <2>2, <3>2, <3>3
  <2> QED BY <2>1, <2>2
<1> HIDE DEF more
<1>5. DevicesInv'
  <2>1. open' \subseteq Session
    BY <1>1, <1>4 DEF WatchInv, DevicesInv
  <2>2. \A s \in open' : (s \in open /\ s.dev # b.dev) \/ s \in more
    BY <1>1, <1>2
  <2>3. \A s, t \in open' : s.dev = t.dev => s = t
    BY <1>4, <2>2 DEF WatchInv, DevicesInv
  <2>4. \A c \in beating' : c \in beating /\ c.dev # b.dev
    BY <1>1 DEF WatchInv, DevicesInv
  <2>5. \A c \in beating' : \A s \in open' : s.dev = c.dev => s \in c.seen
    BY <1>4, <2>2, <2>4 DEF WatchInv, DevicesInv
  <2>6. \A s \in open' : s.dev \in revoked => s.dev \in sensorLate
    BY <1>2, <1>4, <2>2 DEF WatchInv, DevicesInv
  <2> QED BY <1>1, <2>1, <2>3, <2>4, <2>5, <2>6 DEF WatchInv, DevicesInv
<1> QED BY <1>1, <1>5, LooksStay DEF WatchInv

-----------------------------------------------------------------------------
(* A message of the mailbox is read by somebody.                          *)
LEMMA WatchReadKeeps ==
    ASSUME WatchInv, NEW m \in SensorMail, sensorMail[m] = "unread",
           sensorMail' = [sensorMail EXCEPT ![m] = "read"], while' = [while EXCEPT ![m] = armed],
           UNCHANGED <<sensorNow, codes, paired, revoked, open, beating, sensorLate, armed,
                       sensorTold, snap, alerts, excused, look, sensorOdd>>
    PROVE  WatchInv'
<1>1. DevicesInv'
  BY DevicesStay
<1>2. LookTyped'
  BY DEF WatchInv, LookTyped
<1>3. /\ sensorMail \in [SensorMail -> {"unread", "read", "gone"}] /\ while \in [SensorMail -> BOOLEAN]
      /\ look \in LookRecord /\ snap \subseteq SUBSET SensorMail /\ alerts \subseteq SensorMail
      /\ ~look.on => look = Watch!Idle
  BY DEF WatchInv, LookTyped
<1>4. /\ look.was \subseteq SUBSET SensorMail /\ look.unread \subseteq SensorMail
      /\ look.left \subseteq SensorMail /\ look.alerts \subseteq SensorMail
  BY <1>3 DEF LookRecord
<1>5. sensorMail'[m] = "read" /\ \A k \in SensorMail : k # m => sensorMail'[k] = sensorMail[k]
  BY <1>3
<1>6. while'[m] = armed /\ \A k \in SensorMail : k # m => while'[k] = while[k]
  BY <1>3
<1>7. LookSound'
  <2>1. \A k \in look.left \cup look.alerts \cup alerts : sensorMail'[k] = "read"
    BY <1>3, <1>4, <1>5 DEF WatchInv, LookSound
  <2>2. \A k \in UNION look.was :
           sensorMail'[k] = "gone" \/ k \in look.left \cup look.alerts \cup excused \cup look.unread
    BY <1>3, <1>4, <1>5 DEF WatchInv, LookSound
  <2> QED BY <2>1, <2>2 DEF WatchInv, LookSound
<1>8. SinceArmed'
  <2> SUFFICES ASSUME "switched" \notin sensorOdd
              PROVE  /\ (snap # {} => armed) /\ (look.on => armed)
                     /\ \A k \in (UNION snap) \cup look.unread : sensorMail'[k] = "read" => while'[k]
                     /\ \A k \in look.left \cup look.alerts \cup alerts : while'[k]
    BY DEF SinceArmed
  <2>1. (snap # {} => armed) /\ (look.on => armed)
    BY DEF WatchInv, SinceArmed
  <2>2. ASSUME NEW k \in (UNION snap) \cup look.unread, sensorMail'[k] = "read" PROVE while'[k]
    <3>1. k \in SensorMail
      <4>1. CASE k \in UNION snap
        BY <1>3, <4>1
      <4>2. CASE k \in look.unread
        BY <1>4, <4>2
      <4> QED BY <4>1, <4>2
    <3>2. CASE k = m
      <4>1. snap # {} \/ look.on
        BY <1>3, LookIdle
      <4> QED BY <1>6, <2>1, <3>2, <4>1
    <3>3. CASE k # m
      BY <1>5, <1>6, <2>2, <3>1, <3>3 DEF WatchInv, SinceArmed
    <3> QED BY <3>2, <3>3
  <2>3. ASSUME NEW k \in look.left \cup look.alerts \cup alerts PROVE while'[k]
    <3>1. k \in SensorMail /\ k # m
      BY <1>3, <1>4 DEF WatchInv, LookSound
    <3> QED BY <1>6, <3>1 DEF WatchInv, SinceArmed
  <2> QED BY <2>1, <2>2, <2>3
<1>9. ToldBehind'
  <2>1. \A k \in SensorMail : sensorMail[k] # "unread" => sensorMail'[k] # "unread"
    BY <1>5
  <2> QED BY <2>1 DEF WatchInv, ToldBehind
<1> QED BY <1>1, <1>2, <1>7, <1>8, <1>9 DEF WatchInv

LEMMA OpenMailKeeps ==
    ASSUME WatchInv, NEW d \in Device, NEW m \in SensorMail, Watch!OpenMail(d, m) PROVE WatchInv'
  BY WatchReadKeeps DEF Watch!OpenMail, Watch!ReadMail, Watch!watch

LEMMA OtherReadsKeeps == ASSUME WatchInv, NEW m \in SensorMail, Watch!OtherReads(m) PROVE WatchInv'
  BY WatchReadKeeps DEF Watch!OtherReads, Watch!ReadMail, Watch!watch, Watch!devices

LEMMA RemoveKeeps == ASSUME WatchInv, NEW m \in SensorMail, Watch!Remove(m) PROVE WatchInv'
<1>1. /\ sensorMail[m] = "unread" /\ sensorMail' = [sensorMail EXCEPT ![m] = "gone"]
      /\ UNCHANGED <<sensorNow, codes, paired, revoked, open, beating, sensorLate, while, armed,
                     sensorTold, snap, alerts, excused, look, sensorOdd>>
  BY DEF Watch!Remove, Watch!watch, Watch!devices
<1>2. DevicesInv'
  BY <1>1, DevicesStay
<1>3. LookTyped'
  BY <1>1 DEF WatchInv, LookTyped
<1>4. /\ sensorMail'[m] = "gone"
      /\ \A k : k # m => (k \in SensorMail => sensorMail'[k] = sensorMail[k])
  BY <1>1 DEF WatchInv, LookTyped
<1>5. /\ look.was \subseteq SUBSET SensorMail /\ look.unread \subseteq SensorMail
      /\ look.left \subseteq SensorMail /\ look.alerts \subseteq SensorMail
      /\ alerts \subseteq SensorMail /\ snap \subseteq SUBSET SensorMail
  BY DEF WatchInv, LookTyped, LookRecord
<1>6. LookSound'
  BY <1>1, <1>4, <1>5 DEF WatchInv, LookSound
<1>7. SinceArmed'
  BY <1>1, <1>4, <1>5 DEF WatchInv, SinceArmed
<1>8. ToldBehind'
  <2>1. \A k \in SensorMail : sensorMail[k] # "unread" => sensorMail'[k] # "unread"
    BY <1>4
  <2> QED BY <1>1, <2>1 DEF WatchInv, ToldBehind
<1> QED BY <1>2, <1>3, <1>6, <1>7, <1>8 DEF WatchInv

(* Throwing the switch forgets what is remembered; during a look, what it *)
(* was remembered by too.                                                 *)
LEMMA ArmKeeps == ASSUME WatchInv, NEW on \in BOOLEAN, Watch!Arm(on) PROVE WatchInv'
<1>1. /\ armed' = on /\ snap' = {}
      /\ sensorOdd' = IF look.on THEN sensorOdd \cup {"switched"} ELSE sensorOdd
      /\ UNCHANGED <<sensorNow, codes, paired, revoked, open, beating, sensorLate, sensorMail, while,
                     sensorTold, alerts, excused, look>>
  BY DEF Watch!Arm, Watch!Forgotten, Watch!inbox, Watch!devices
<1>2. DevicesInv'
  BY <1>1, DevicesStay
<1>3. LookTyped'
  BY <1>1 DEF WatchInv, LookTyped
<1>4. LookSound'
  BY <1>1 DEF WatchInv, LookSound
<1>5. look.on \/ look = Watch!Idle
  BY DEF WatchInv, LookTyped
<1>6. CASE look.on
  <2>1. "switched" \in sensorOdd'
    BY <1>1, <1>6
  <2> QED BY <1>2, <1>3, <1>4, <2>1 DEF WatchInv, SinceArmed, ToldBehind
<1>7. CASE look = Watch!Idle
  <2>1. sensorOdd' = sensorOdd
    BY <1>1, <1>7, LookIdle
  <2>2. SinceArmed'
    BY <1>1, <1>7, <2>1, LookIdle DEF WatchInv, SinceArmed
  <2>3. ToldBehind'
    BY <1>1, <1>7, <2>1, LookIdle DEF WatchInv, ToldBehind
  <2> QED BY <1>2, <1>3, <1>4, <2>2, <2>3 DEF WatchInv
<1> QED BY <1>5, <1>6, <1>7

-----------------------------------------------------------------------------
LEMMA WatchLookKeeps == ASSUME WatchInv, Watch!Look PROVE WatchInv'
<1> DEFINE left == UNION {Watch!ReadSince(was) : was \in snap}
           unread == Watch!Unread
           begun == [was |-> snap, unread |-> unread, left |-> left, alerts |-> {}, on |-> TRUE]
<1>1. /\ look = Watch!Idle
      /\ UNCHANGED <<sensorNow, codes, paired, revoked, open, beating, sensorLate, sensorMail, while,
                     armed, sensorTold, alerts, excused, sensorOdd>>
      /\ \/ armed /\ look' = begun /\ snap' = snap
         \/ look' = look /\ snap' = {}
  <2>1. ~look.on
    BY DEF Watch!Look
  <2>2. look = Watch!Idle
    BY <2>1 DEF WatchInv, LookTyped
  <2>3. UNCHANGED <<sensorNow, codes, paired, revoked, open, beating, sensorLate, sensorMail, while,
                    armed, sensorTold, alerts, excused, sensorOdd>>
    BY DEF Watch!Look, Watch!inbox, Watch!devices
  <2>4. \/ armed /\ look' = begun /\ snap' = snap
        \/ look' = look /\ snap' = {}
    BY DEF Watch!Look
  <2> QED BY <2>2, <2>3, <2>4
<1>2. DevicesInv'
  BY <1>1, DevicesStay
<1>3. /\ sensorMail \in [SensorMail -> {"unread", "read", "gone"}] /\ snap \subseteq SUBSET SensorMail
      /\ alerts \subseteq SensorMail
  BY DEF WatchInv, LookTyped
<1>4. /\ left \subseteq UNION snap /\ (\A m \in left : sensorMail[m] = "read")
      /\ \A m \in UNION snap : sensorMail[m] = "read" => m \in left
  <2>1. \A was \in snap : /\ Watch!ReadSince(was) \subseteq was
                          /\ (\A m \in Watch!ReadSince(was) : sensorMail[m] = "read")
                          /\ \A m \in was : sensorMail[m] = "read" => m \in Watch!ReadSince(was)
    BY DEF Watch!ReadSince
  <2> QED BY <2>1
<1>5. unread \subseteq SensorMail /\ \A m \in SensorMail : m \in unread <=> sensorMail[m] = "unread"
  BY DEF Watch!Unread
<1> HIDE DEF left, unread
<1>6. CASE armed /\ look' = begun /\ snap' = snap
  <2>1. /\ begun.was = snap /\ begun.unread = unread /\ begun.left = left /\ begun.alerts = {}
        /\ begun.on = TRUE
    OBVIOUS
  <2>2. begun \in LookRecord
    BY <1>3, <1>4, <1>5 DEF LookRecord
  <2> HIDE DEF begun
  <2>3. LookTyped'
    BY <1>1, <1>6, <2>1, <2>2 DEF WatchInv, LookTyped
  <2>4. LookSound'
    <3>1. \A m \in left \cup {} \cup alerts : sensorMail[m] = "read"
      BY <1>4 DEF WatchInv, LookSound
    <3>2. \A m \in UNION snap : sensorMail[m] = "gone" \/ m \in left \/ m \in unread
      BY <1>3, <1>4, <1>5
    <3> QED BY <1>1, <1>6, <2>1, <3>1, <3>2 DEF LookSound
  <2>5. SinceArmed'
    <3> SUFFICES ASSUME "switched" \notin sensorOdd
                PROVE  /\ \A m \in (UNION snap) \cup unread : sensorMail[m] = "read" => while[m]
                       /\ \A m \in left \cup {} \cup alerts : while[m]
      BY <1>1, <1>6, <2>1 DEF SinceArmed
    <3>1. /\ \A m \in UNION snap : sensorMail[m] = "read" => while[m]
          /\ \A m \in alerts : while[m]
      BY DEF WatchInv, SinceArmed
    <3>2. \A m \in unread : sensorMail[m] # "read"
      BY <1>5
    <3>3. \A m \in left : while[m]
      BY <1>4, <3>1
    <3> QED BY <3>1, <3>2, <3>3
  <2>6. ToldBehind'
    <3> SUFFICES ASSUME sensorOdd = {}
                PROVE  /\ left \cap unread = {}
                       /\ \A m \in SensorMail : sensorTold[m] # 0 =>
                             /\ sensorTold[m] = 1 /\ sensorMail[m] # "unread"
                             /\ m \notin left /\ m \notin unread
      BY <1>1, <1>6, <2>1 DEF ToldBehind
    <3>1. \A m \in SensorMail : sensorTold[m] # 0 =>
             /\ sensorTold[m] = 1 /\ sensorMail[m] # "unread" /\ m \notin UNION snap
      BY <1>1, LookIdle DEF WatchInv, ToldBehind
    <3>2. left \cap unread = {}
      BY <1>3, <1>4, <1>5
    <3> QED BY <1>4, <1>5, <3>1, <3>2
  <2> QED BY <1>2, <2>3, <2>4, <2>5, <2>6 DEF WatchInv
<1>7. CASE look' = look /\ snap' = {}
  <2>1. LookTyped'
    BY <1>1, <1>7 DEF WatchInv, LookTyped
  <2>2. LookSound'
    BY <1>1, <1>7 DEF WatchInv, LookSound
  <2>3. SinceArmed'
    BY <1>1, <1>7, LookIdle DEF WatchInv, SinceArmed
  <2>4. ToldBehind'
    BY <1>1, <1>7, LookIdle DEF WatchInv, ToldBehind
  <2> QED BY <1>2, <2>1, <2>2, <2>3, <2>4 DEF WatchInv
<1> QED BY <1>1, <1>6, <1>7
(* A read is judged once: it is told of, or excused.                      *)
LEMMA JudgeKeeps == ASSUME WatchInv, NEW m \in SensorMail, Watch!Judge(m) PROVE WatchInv'
<1> DEFINE there == Watch!Attested(m) \/ Watch!Present
<1>1. look \in LookRecord /\ m \in look.left /\ look.left \subseteq SensorMail
  BY DEF WatchInv, LookTyped, LookRecord, Watch!Judge
<1>2. look.on
  BY <1>1, LookIdle DEF WatchInv, LookTyped
<1>3. PICK more \in SUBSET SensorMail :
        /\ look' = [look EXCEPT !.left = look.left \ {m}, !.alerts = more]
        /\ \/ /\ more = look.alerts /\ excused' = excused \cup {m} /\ sensorTold' = sensorTold
           \/ /\ more = look.alerts \cup {m} /\ excused' = excused
              /\ sensorTold' = [sensorTold EXCEPT ![m] = sensorTold[m] + 1]
  <2>1. look.alerts \in SUBSET SensorMail /\ look.alerts \cup {m} \in SUBSET SensorMail
    BY <1>1 DEF LookRecord
  <2>2. CASE there
    BY <2>1, <2>2 DEF Watch!Judge
  <2>3. CASE ~there
    BY <2>1, <2>3 DEF Watch!Judge
  <2> QED BY <2>2, <2>3
<1>4. /\ UNCHANGED <<sensorNow, codes, paired, revoked, open, beating, sensorLate, sensorMail, while,
                     armed, snap, alerts, sensorOdd>>
  BY DEF Watch!Judge, Watch!inbox, Watch!devices
<1>5. /\ look' \in LookRecord /\ look'.was = look.was /\ look'.unread = look.unread
      /\ look'.left = look.left \ {m} /\ look'.alerts = more /\ look'.on = look.on
  BY <1>1, <1>3 DEF LookRecord
<1>6. /\ look.alerts \subseteq more /\ more \subseteq look.alerts \cup {m}
      /\ excused \subseteq excused' /\ excused' \subseteq excused \cup {m}
      /\ m \in more \/ m \in excused'
  BY <1>3
<1>7. DevicesInv'
  BY <1>4, DevicesStay
<1>8. LookTyped'
  <2>1. sensorTold' \in [SensorMail -> Nat]
    BY <1>3 DEF WatchInv, LookTyped
  <2>2. excused' \subseteq SensorMail
    BY <1>6 DEF WatchInv, LookTyped
  <2> QED BY <1>2, <1>4, <1>5, <2>1, <2>2 DEF WatchInv, LookTyped
<1>9. LookSound'
  BY <1>1, <1>2, <1>4, <1>5, <1>6 DEF WatchInv, LookSound
<1>10. SinceArmed'
  BY <1>1, <1>2, <1>4, <1>5, <1>6 DEF WatchInv, SinceArmed
<1>11. ToldBehind'
  <2> SUFFICES ASSUME sensorOdd = {}
              PROVE  /\ snap = look.was /\ (look.left \ {m}) \cap look.unread = {}
                     /\ \A k \in SensorMail : sensorTold'[k] # 0 =>
                           /\ sensorTold'[k] = 1 /\ sensorMail[k] # "unread"
                           /\ k \notin look.left \ {m} /\ k \notin look.unread
    BY <1>2, <1>4, <1>5 DEF ToldBehind
  <2>1. /\ snap = look.was /\ look.left \cap look.unread = {}
        /\ \A k \in SensorMail : sensorTold[k] # 0 =>
              /\ sensorTold[k] = 1 /\ sensorMail[k] # "unread"
              /\ k \notin look.left /\ k \notin look.unread
    BY <1>2 DEF WatchInv, ToldBehind
  <2>2. sensorTold[m] = 0 /\ sensorMail[m] = "read" /\ m \notin look.unread
    BY <1>1, <2>1 DEF WatchInv, LookSound
  <2>3. sensorTold'[m] \in {0, 1} /\ \A k \in SensorMail : k # m => sensorTold'[k] = sensorTold[k]
    BY <1>3, <2>2 DEF WatchInv, LookTyped
  <2> QED BY <2>1, <2>2, <2>3
<1> QED BY <1>7, <1>8, <1>9, <1>10, <1>11 DEF WatchInv

LEMMA CommitPollKeeps == ASSUME WatchInv, Watch!CommitPoll PROVE WatchInv'
<1>1. /\ look.on /\ look.left = {} /\ look' = Watch!Idle
      /\ snap' = IF look.was = {look.unread} THEN snap ELSE {look.unread}
      /\ alerts' = alerts \cup look.alerts
      /\ UNCHANGED <<sensorNow, codes, paired, revoked, open, beating, sensorLate, sensorMail, while,
                     armed, sensorTold, excused, sensorOdd>>
  BY DEF Watch!CommitPoll, Watch!Remembered, Watch!inbox, Watch!devices
<1>2. look \in LookRecord /\ look.unread \subseteq SensorMail /\ look.alerts \subseteq SensorMail
  BY DEF WatchInv, LookTyped, LookRecord
<1>3. DevicesInv'
  BY <1>1, DevicesStay
<1>4. snap' = snap \/ snap' = {look.unread}
  BY <1>1
<1>5. LookTyped'
  BY <1>1, <1>2, <1>4, LookIdle DEF WatchInv, LookTyped
<1>6. LookSound'
  BY <1>1, LookIdle DEF WatchInv, LookSound
<1>7. SinceArmed'
  BY <1>1, <1>4, LookIdle DEF WatchInv, SinceArmed
<1>8. ToldBehind'
  <2> SUFFICES ASSUME sensorOdd = {}
              PROVE  \A m \in SensorMail : sensorTold[m] # 0 =>
                        sensorTold[m] = 1 /\ sensorMail[m] # "unread" /\ m \notin UNION snap'
    BY <1>1, LookIdle DEF ToldBehind
  <2>1. snap' = {look.unread}
    BY <1>1 DEF WatchInv, ToldBehind
  <2>2. UNION snap' = look.unread
    BY <2>1
  <2> QED BY <2>2 DEF WatchInv, ToldBehind
<1> QED BY <1>3, <1>5, <1>6, <1>7, <1>8 DEF WatchInv

LEMMA PollFailsKeeps == ASSUME WatchInv, Watch!PollFails PROVE WatchInv'
<1>1. /\ look.on /\ look' = Watch!Idle /\ snap' = snap /\ sensorOdd' = sensorOdd \cup {"failed"}
      /\ UNCHANGED <<sensorNow, codes, paired, revoked, open, beating, sensorLate, sensorMail, while,
                     armed, sensorTold, alerts, excused>>
  BY DEF Watch!PollFails, Watch!FailedKeeps, Watch!inbox, Watch!devices
<1>2. DevicesInv'
  BY <1>1, DevicesStay
<1>3. LookTyped'
  BY <1>1, LookIdle DEF WatchInv, LookTyped
<1>4. LookSound'
  BY <1>1, LookIdle DEF WatchInv, LookSound
<1>5. SinceArmed'
  BY <1>1, LookIdle DEF WatchInv, SinceArmed
<1>6. ToldBehind'
  BY <1>1 DEF ToldBehind
<1> QED BY <1>2, <1>3, <1>4, <1>5, <1>6 DEF WatchInv

-----------------------------------------------------------------------------
LEMMA WatchStep == WatchInv /\ [Watch!Next]_(Watch!vars) => WatchInv'
<1> SUFFICES ASSUME WatchInv, [Watch!Next]_(Watch!vars) PROVE WatchInv'
  OBVIOUS
<1>1. CASE UNCHANGED Watch!vars
  <2>1. UNCHANGED <<sensorNow, codes, paired, revoked, open, beating, sensorLate, sensorMail, while,
                    armed, sensorTold, snap, alerts, excused, look, sensorOdd>>
    BY <1>1 DEF Watch!vars, Watch!devices, Watch!inbox, Watch!watch
  <2> QED BY <2>1, DevicesStay, LooksStay DEF WatchInv
<1>2. CASE Watch!Tick \/ Watch!Look \/ Watch!CommitPoll \/ Watch!PollFails
  BY <1>2, WatchTickKeeps, WatchLookKeeps, CommitPollKeeps, PollFailsKeeps
<1>3. ASSUME NEW c \in Code, Watch!CreatePairing(c) PROVE WatchInv'
  BY <1>3, WatchPairKeeps
<1>4. ASSUME NEW c \in Code, NEW d \in Device, Watch!Enroll(c, d) PROVE WatchInv'
  BY <1>4, WatchEnrollKeeps
<1>5. ASSUME NEW d \in Device, Watch!RevokeDevice(d) PROVE WatchInv'
  BY <1>5, WatchRevokeKeeps
<1>6. ASSUME NEW d \in Device, NEW n \in Net, Watch!BeatStart(d, n) PROVE WatchInv'
  BY <1>6, WatchBeatStartKeeps
<1>7. ASSUME NEW b \in beating, Watch!BeatEnd(b) PROVE WatchInv'
  BY <1>7, WatchBeatEndKeeps
<1>8. ASSUME NEW m \in SensorMail, Watch!OtherReads(m) \/ Watch!Remove(m) \/ Watch!Judge(m)
      PROVE WatchInv'
  BY <1>8, OtherReadsKeeps, RemoveKeeps, JudgeKeeps
<1>9. ASSUME NEW m \in SensorMail, NEW d \in Device, Watch!OpenMail(d, m) PROVE WatchInv'
  BY <1>9, OpenMailKeeps
<1>10. ASSUME NEW on \in BOOLEAN, Watch!Arm(on) PROVE WatchInv'
  BY <1>10, ArmKeeps
<1> QED BY <1>1, <1>2, <1>3, <1>4, <1>5, <1>6, <1>7, <1>8, <1>9, <1>10 DEF Watch!Next

LEMMA WatchInvImplies ==
    WatchInv =>
      Watch!TypeOK /\ Watch!RemovedIsAbsent /\ Watch!AlertsAreReads /\ Watch!ToldOnce
<1> SUFFICES ASSUME WatchInv
             PROVE  Watch!TypeOK /\ Watch!RemovedIsAbsent /\ Watch!AlertsAreReads /\ Watch!ToldOnce
  OBVIOUS
<1>1. Watch!TypeOK
  <2>1. \A S : Watch!Cardinality(S) = Cardinality(S)
    BY DEF Watch!Cardinality, Cardinality
  <2>2. snap \subseteq SUBSET SensorMail /\ \A u, v \in snap : u = v
    BY DEF WatchInv, LookTyped
  <2>3. ASSUME NEW u \in snap PROVE Cardinality(snap) = 1
    <3>1. snap = {u}
      BY <2>2
    <3> QED BY <3>1, FS_Singleton
  <2>4. Cardinality(snap) <= 1
    <3>1. Cardinality(snap) = 0 \/ Cardinality(snap) = 1
      BY <2>3, FS_EmptySet
    <3> QED BY <3>1
  <2> QED BY <2>1, <2>4 DEF Watch!TypeOK, WatchInv, DevicesInv, LookTyped
<1>2. Watch!RemovedIsAbsent
  BY DEF Watch!RemovedIsAbsent, WatchInv, DevicesInv
<1>3. Watch!AlertsAreReads
  BY DEF Watch!AlertsAreReads, WatchInv, LookSound, SinceArmed
<1>4. Watch!ToldOnce
  <2> SUFFICES ASSUME sensorOdd = {}, NEW m \in SensorMail PROVE sensorTold[m] <= 1
    BY DEF Watch!ToldOnce
  <2>1. sensorTold[m] \in Nat /\ (sensorTold[m] # 0 => sensorTold[m] = 1)
    BY DEF WatchInv, LookTyped, ToldBehind
  <2> QED BY <2>1
<1> QED BY <1>1, <1>2, <1>3, <1>4

(* What leaves the remembered set while the switch is on was judged.      *)
LEMMA MissesNothing == WatchInv /\ [Watch!Next]_(Watch!vars) => Watch!NothingMissedStep
<1> SUFFICES ASSUME WatchInv, [Watch!Next]_(Watch!vars),
                    NEW m \in SensorMail, armed, armed', Watch!Enrolled # {},
                    m \in UNION snap, sensorMail[m] = "read", m \notin UNION snap'
             PROVE  m \in alerts' \cup excused'
  BY DEF Watch!NothingMissedStep
<1>1. snap' # snap
  OBVIOUS
<1>2. CASE Watch!CommitPoll
  <2>1. /\ look.on /\ look.left = {} /\ alerts' = alerts \cup look.alerts /\ excused' = excused
        /\ snap' = IF look.was = {look.unread} THEN snap ELSE {look.unread}
    BY <1>2 DEF Watch!CommitPoll, Watch!Remembered
  <2>2. snap' = {look.unread}
    BY <1>1, <2>1
  <2>3. snap = look.was
    BY <2>1 DEF WatchInv, LookSound
  <2>4. m \in look.left \cup look.alerts \cup excused \cup look.unread
    BY <2>3 DEF WatchInv, LookSound
  <2>5. m \notin look.unread
    BY <2>2
  <2> QED BY <2>1, <2>4, <2>5
<1>3. ~Watch!CommitPoll => snap' = snap
  <2>1. ASSUME Watch!Look PROVE snap' = snap
    BY <2>1 DEF Watch!Look
  <2>2. ASSUME Watch!PollFails PROVE snap' = snap
    BY <2>2 DEF Watch!PollFails, Watch!FailedKeeps
  <2>3. ASSUME NEW on \in BOOLEAN, Watch!Arm(on) PROVE FALSE
    BY <2>3 DEF Watch!Arm
  <2>4. ASSUME UNCHANGED Watch!vars \/ Watch!Tick PROVE snap' = snap
    BY <2>4 DEF Watch!vars, Watch!watch, Watch!Tick
  <2>5. ASSUME NEW c \in Code, Watch!CreatePairing(c) \/ \E d \in Device : Watch!Enroll(c, d)
        PROVE  snap' = snap
    BY <2>5 DEF Watch!CreatePairing, Watch!Enroll, Watch!watch
  <2>6. ASSUME NEW d \in Device, Watch!RevokeDevice(d) \/ \E n \in Net : Watch!BeatStart(d, n)
        PROVE  snap' = snap
    BY <2>6 DEF Watch!RevokeDevice, Watch!BeatStart, Watch!watch
  <2>7. ASSUME NEW b \in beating, Watch!BeatEnd(b) PROVE snap' = snap
    BY <2>7 DEF Watch!BeatEnd, Watch!watch
  <2>8. ASSUME NEW k \in SensorMail,
               \/ Watch!OtherReads(k) \/ Watch!Remove(k) \/ Watch!Judge(k)
               \/ \E d \in Device : Watch!OpenMail(d, k)
        PROVE  snap' = snap
    BY <2>8 DEF Watch!OtherReads, Watch!Remove, Watch!Judge, Watch!OpenMail, Watch!watch
  <2> QED BY <2>1, <2>2, <2>3, <2>4, <2>5, <2>6, <2>7, <2>8 DEF Watch!Next
<1> QED BY <1>1, <1>2, <1>3

(* Only what is heard from now excuses a read.                            *)
LEMMA ExcusedByPresence == [Watch!Next]_(Watch!vars) => Watch!AbsenceIsSeenStep
<1> SUFFICES ASSUME [Watch!Next]_(Watch!vars), NEW m \in excused' \ excused
             PROVE  \/ \E s \in open : sensorNow - s.seen <= Stale
                    \/ \E v \in vouched : sensorNow - v.at <= Window
  BY DEF Watch!AbsenceIsSeenStep
<1>1. ASSUME NEW k \in SensorMail, Watch!Judge(k)
      PROVE  \/ \E s \in open : sensorNow - s.seen <= Stale
             \/ \E v \in vouched : sensorNow - v.at <= Window
  <2>1. Watch!Attested(k) \/ Watch!Present
    BY <1>1 DEF Watch!Judge
  <2> QED BY <2>1 DEF Watch!Attested, Watch!Present, Watch!Live
<1>2. excused' # excused
  OBVIOUS
<1>3. \E k \in SensorMail : Watch!Judge(k)
  <2>1. UNCHANGED Watch!vars \/ Watch!Tick => excused' = excused
    BY DEF Watch!vars, Watch!watch, Watch!Tick
  <2>2. Watch!Look \/ Watch!PollFails \/ Watch!CommitPoll => excused' = excused
    BY DEF Watch!Look, Watch!PollFails, Watch!CommitPoll
  <2>3. \A on \in BOOLEAN : Watch!Arm(on) => excused' = excused
    BY DEF Watch!Arm
  <2>4. \A c \in Code : Watch!CreatePairing(c) => excused' = excused
    BY DEF Watch!CreatePairing, Watch!watch
  <2>5. \A c \in Code, d \in Device : Watch!Enroll(c, d) => excused' = excused
    BY DEF Watch!Enroll, Watch!watch
  <2>6. \A d \in Device : Watch!RevokeDevice(d) => excused' = excused
    BY DEF Watch!RevokeDevice, Watch!watch
  <2>7. \A d \in Device, n \in Net : Watch!BeatStart(d, n) => excused' = excused
    BY DEF Watch!BeatStart, Watch!watch
  <2>8. \A b \in beating : Watch!BeatEnd(b) => excused' = excused
    BY DEF Watch!BeatEnd, Watch!watch
  <2>9. \A k \in SensorMail : Watch!OtherReads(k) \/ Watch!Remove(k) => excused' = excused
    BY DEF Watch!OtherReads, Watch!Remove, Watch!watch
  <2>10. \A k \in SensorMail, d \in Device : Watch!OpenMail(d, k) => excused' = excused
    BY DEF Watch!OpenMail, Watch!watch
  <2> QED BY <1>2, <2>1, <2>2, <2>3, <2>4, <2>5, <2>6, <2>7, <2>8, <2>9, <2>10 DEF Watch!Next
<1> QED BY <1>1, <1>3
-----------------------------------------------------------------------------
(* Together: a step of the project's run is a step of one of the systems,  *)
(* or of none.                                                             *)
LEMMA DecisionsStep ==
    ASSUME [DecisionsNext]_decisionsVars
    PROVE  /\ [Next]_vars /\ (Remembered!Next \/ UNCHANGED linksVars)
           /\ [Notified!Next]_(Notified!vars) /\ [Consent!Next]_(Consent!vars)
           /\ [Watch!Next]_(Watch!vars)
<1>1. UNCHANGED notifiedVars => UNCHANGED Notified!vars
    BY DEF notifiedVars, Notified!vars
<1>2. UNCHANGED consentVars => UNCHANGED Consent!vars
    BY DEF consentVars, Consent!vars, Consent!token, Consent!push
<1>3. UNCHANGED sensorVars => UNCHANGED Watch!vars
    BY DEF sensorVars, Watch!vars, Watch!devices, Watch!inbox, Watch!watch
<1>4. CASE OneEvent /\ UNCHANGED <<linksVars, notifiedVars, consentVars, sensorVars>>
  <2>1. Lone \subseteq Job
      BY AnalysisBounds
  <2>2. Next
      BY <1>4, <2>1 DEF OneEvent, Next
  <2> QED BY <1>1, <1>2, <1>3, <1>4, <2>2
<1>5. CASE SupplierMail /\ UNCHANGED <<linksVars, notifiedVars, consentVars, sensorVars>>
  <2>1. Few \subseteq Event
      BY AnalysisBounds
  <2>2. Next
      BY <1>5, <2>1 DEF SupplierMail, Next
  <2> QED BY <1>1, <1>2, <1>3, <1>5, <2>2
<1>6. CASE (Clicks \/ Attachments) /\ UNCHANGED <<vars, notifiedVars, consentVars, sensorVars>>
  <2>1. Remembered!Next
      BY <1>6 DEF Clicks, Attachments, Remembered!Next
  <2> QED BY <1>1, <1>2, <1>3, <1>6, <2>1
<1>7. CASE Notified!Next /\ UNCHANGED <<vars, linksVars, consentVars, sensorVars>>
    BY <1>2, <1>3, <1>7
<1>8. CASE Consent!Next /\ UNCHANGED <<vars, linksVars, notifiedVars, sensorVars>>
    BY <1>1, <1>3, <1>8
<1>9. CASE (OneDevice \/ SomeDevices) /\ UNCHANGED <<vars, linksVars, notifiedVars, consentVars>>
  <2>1. Watch!Next
      BY <1>9 DEF OneDevice, SomeDevices
  <2> QED BY <1>1, <1>2, <1>9, <2>1
<1>10. CASE UNCHANGED decisionsVars
  <2>1. UNCHANGED <<vars, linksVars, notifiedVars, consentVars, sensorVars>>
      BY <1>10 DEF decisionsVars
  <2> QED BY <1>1, <1>2, <1>3, <2>1
<1> QED BY <1>4, <1>5, <1>6, <1>7, <1>8, <1>9, <1>10 DEF DecisionsNext

LEMMA DecisionsAlways ==
    DecisionsSpec => [](AnalysisInv /\ LinksInv /\ NotifiedInv /\ ConsentInv /\ WatchInv)
<1> DEFINE Inv == AnalysisInv /\ LinksInv /\ NotifiedInv /\ ConsentInv /\ WatchInv
<1>1. DecisionsInit => Inv
    BY AnalysisStart, LinksStart, NotifiedStart, ConsentStart, WatchStart DEF DecisionsInit
<1>2. Inv /\ [DecisionsNext]_decisionsVars => Inv'
    BY DecisionsStep, AnalysisStep, LinksStep, NotifiedStep, ConsentStep, WatchStep
<1> QED BY <1>1, <1>2, PTL DEF DecisionsSpec

(* Whatever a mail or a sign-in says, however many are analysed at once:   *)
(* a changed account and a first strike are Critical with a call, a move   *)
(* abroad is reported, and one more finding never calms an alert.          *)
THEOREM FraudReported == DecisionsSpec => []FraudIsReported
<1>1. AnalysisInv => FraudIsReported
    BY AnalysisEnough
<1> QED BY <1>1, DecisionsAlways, PTL

(* In whatever order overlapping analyses finish and fail: a first strike  *)
(* teaches nothing, one mail at most teaches the baseline while analyses   *)
(* take turns, and what the judge is paid for stays within the cap and the *)
(* answers lost with a transaction.                                        *)
THEOREM LearningSound == DecisionsSpec => []LearningIsSound
<1>1. AnalysisInv => LearningIsSound
    BY AnalysisEnough
<1> QED BY <1>1, DecisionsAlways, PTL

(* Whatever is remembered, and for however long: a link known as fraud or  *)
(* long listed does not open unless its lookup went unanswered, and a file *)
(* found malicious is served as such.                                      *)
THEOREM CaughtBlocked == DecisionsSpec => []CaughtIsBlocked
<1>1. LinksInv => CaughtIsBlocked
    BY LinksEnough
<1> QED BY <1>1, DecisionsAlways, PTL

(* No answer of the judge lowers a tier or takes a call back, and what the *)
(* rules found Critical, or next to nothing, is not asked about.           *)
THEOREM JudgeRaises == DecisionsSpec => JudgeOnlyRaises
<1>1. AnalysisInv /\ [DecisionsNext]_decisionsVars => [JudgeOnlyRaisesStep]_vars
    BY DecisionsStep, RaisesStep
<1> QED BY <1>1, DecisionsAlways, PTL DEF DecisionsSpec, JudgeOnlyRaises

(* However notifications, retries, crashes and clicks fall: a notified     *)
(* mailbox forgets no announced message and touches none it has not told   *)
(* of, a CRITICAL one is out of the inbox when it is done with and is kept *)
(* once; a consent link works once, the loss of a mailbox is told once,    *)
(* and a subscription that went deaf is noticed within a check.            *)
THEOREM NotifiedKept == DecisionsSpec => []NotifiedMailIsKept
<1>1. NotifiedInv /\ ConsentInv => NotifiedMailIsKept
    BY NotifiedInvImplies, ConsentInvImplies DEF NotifiedMailIsKept
<1> QED BY <1>1, DecisionsAlways, PTL

(* However many devices are paired, removed and heard from, and whenever a *)
(* poll fails: what the sensor reports was read, while it was switched on; *)
(* nothing is told twice unless a poll failed or the switch was thrown     *)
(* during a look; and a removed device is nobody's presence, unless a      *)
(* heartbeat of it was under way.                                          *)
THEOREM SensorTruthful == DecisionsSpec => []SensorIsTruthful
<1>1. WatchInv => SensorIsTruthful
    BY WatchInvImplies DEF SensorIsTruthful
<1> QED BY <1>1, DecisionsAlways, PTL

(* A read of a remembered message is reported, excused, or still waits,    *)
(* whatever polls fail in between; and only a session or a report that is  *)
(* fresh enough excuses one.                                               *)
THEOREM AbsenceWatched == DecisionsSpec => AbsenceIsWatched
<1>1. WatchInv /\ [DecisionsNext]_decisionsVars
        => [Watch!NothingMissedStep /\ Watch!AbsenceIsSeenStep]_decisionsVars
    BY DecisionsStep, MissesNothing, ExcusedByPresence
<1> QED BY <1>1, DecisionsAlways, PTL DEF DecisionsSpec, AbsenceIsWatched
=============================================================================

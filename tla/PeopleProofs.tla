---------------------------- MODULE PeopleProofs ----------------------------
(***************************************************************************)
(* Proofs about what people do, for any addresses, accounts, replicas,     *)
(* plans and bounds. Each part has its inductive invariant; the composed   *)
(* system keeps them all, because a step of one part is a step or a        *)
(* stutter of every other (the last section).                              *)
(*                                                                         *)
(* Workspace: the seats are not oversold because a request that found a    *)
(* seat free holds the row lock until it has taken it (Counted); a login   *)
(* is protected and a source read as its class asks because a request      *)
(* whose mailbox changed is marked (Fresh).                                *)
(***************************************************************************)
EXTENDS MCPeople, FunctionTheorems, FiniteSetTheorems, SequenceTheorems, TLAPS


-----------------------------------------------------------------------------
(* The mailboxes and logins of a workspace                                 *)

Row == [addr : Addr, class : Class, via : {"none", "idle", "poll"}]

Job == [pc : {"idle", "count", "insert", "grant", "probe"},
        kind : {"none", "add", "bulk", "create", "approve", "connect"},
        addr : SUBSET Addr, class : Class \cup {"none"},
        role : {"none", "member", "admin"}, cap : Nat, stale : BOOLEAN]

Shape ==
    /\ tenant \in Plans
    /\ boxes \in Seq(Row)
    /\ users \in [Addr -> [role : {"none", "member", "admin"},
                           status : {"none", "pending", "active"}]]
    /\ jobs \in [Req -> Job]
    /\ lock \in Req \cup {Nobody}

OneBox == \A i, j \in 1..Len(boxes) : boxes[i].addr = boxes[j].addr => i = j

(* What a request is, between its checks and its commit.                   *)
Sound(j) ==
    /\ j.pc = "count" => j.kind # "bulk"
    /\ j.pc \in {"count", "insert"} =>
          /\ j.class \in Class
          /\ j.kind # "bulk" => \E a \in Addr : j.addr = {a}
          /\ j.role = "member" => j.class = "protected"
    /\ j.pc = "probe" => j.class \in Class

(* A request whose mailbox was not touched meanwhile saw what is there.    *)
Fresh(j) ==
    ~j.stale =>
        /\ j.pc = "grant" /\ j.role = "member" => j.addr \subseteq Protected
        /\ j.pc = "probe" =>
              /\ j.addr \subseteq Boxed
              /\ \A i \in 1..Len(boxes) : boxes[i].addr \in j.addr => boxes[i].class = j.class

(* Nobody pasted a list and the capacity did not shrink.                   *)
Tame == odd \cap {"bulk", "shrunk"} = {}

(* A request that found a seat free holds the lock, and it is still free.  *)
Counted(r) ==
    /\ jobs[r].pc = "insert" /\ jobs[r].kind # "bulk" =>
          /\ lock = r
          /\ Tame => Len(boxes) + 1 <= MailboxCapacity(tenant)
    /\ jobs[r].pc = "count" /\ Tame => jobs[r].cap <= MailboxCapacity(tenant)

IInv ==
    /\ Shape
    /\ OneBox
    /\ \A r \in Req : Sound(jobs[r]) /\ Fresh(jobs[r]) /\ Counted(r)
    /\ SeatsFit
    /\ SourceMatchesClass

-----------------------------------------------------------------------------
(* What the rows are after each change of them                             *)

(* Rows of new addresses are appended: nothing is taken from anybody.      *)
LEMMA RowsAdded ==
    ASSUME Shape, OneBox, NEW new \in Seq(Row), boxes' = boxes \o new,
           \A i \in 1..Len(new) : new[i].addr \notin Boxed /\ new[i].via = "none",
           \A i, j \in 1..Len(new) : new[i].addr = new[j].addr => i = j
    PROVE  /\ boxes' \in Seq(Row)
           /\ Len(boxes') = Len(boxes) + Len(new)
           /\ \A i \in 1..Len(boxes) : i \in 1..Len(boxes') /\ boxes'[i] = boxes[i]
           /\ \A i \in 1..Len(new) : Len(boxes) + i \in 1..Len(boxes')
                                     /\ boxes'[Len(boxes) + i] = new[i]
           /\ \A i \in 1..Len(boxes') : i \in 1..Len(boxes)
                                        \/ \E k \in 1..Len(new) : i = Len(boxes) + k
           /\ OneBox'
<1>1. boxes \in Seq(Row) /\ Len(boxes) \in Nat /\ Len(new) \in Nat
  BY LenProperties DEF Shape
<1>2. /\ boxes' \in Seq(Row)
      /\ Len(boxes') = Len(boxes) + Len(new)
      /\ \A i \in 1..Len(boxes) + Len(new) :
            boxes'[i] = IF i <= Len(boxes) THEN boxes[i] ELSE new[i - Len(boxes)]
  BY <1>1, ConcatProperties
<1>3. /\ \A i \in 1..Len(boxes) : i \in 1..Len(boxes') /\ boxes'[i] = boxes[i]
      /\ \A i \in 1..Len(new) : Len(boxes) + i \in 1..Len(boxes')
                                /\ boxes'[Len(boxes) + i] = new[i]
      /\ \A i \in 1..Len(boxes') : i \in 1..Len(boxes)
                                   \/ \E k \in 1..Len(new) : i = Len(boxes) + k
  <2>1. \A i \in 1..Len(boxes) : i \in 1..Len(boxes') /\ boxes'[i] = boxes[i]
    BY <1>1, <1>2
  <2>2. \A i \in 1..Len(new) : Len(boxes) + i \in 1..Len(boxes')
                               /\ boxes'[Len(boxes) + i] = new[i]
    BY <1>1, <1>2
  <2>3. ASSUME NEW i \in 1..Len(boxes'), i \notin 1..Len(boxes)
        PROVE  \E k \in 1..Len(new) : i = Len(boxes) + k
    <3>1. i - Len(boxes) \in 1..Len(new) /\ i = Len(boxes) + (i - Len(boxes))
      BY <2>3, <1>1, <1>2
    <3>2. QED BY <3>1
  <2>4. QED BY <2>1, <2>2, <2>3
<1>4. OneBox'
  <2>1. SUFFICES ASSUME NEW i \in 1..Len(boxes'), NEW j \in 1..Len(boxes'),
                        boxes'[i].addr = boxes'[j].addr
                 PROVE  i = j
    BY DEF OneBox
  <2>2. ASSUME NEW k \in 1..Len(boxes), NEW l \in 1..Len(new) PROVE boxes[k].addr # new[l].addr
    BY DEF Boxed
  <2>3. CASE i \in 1..Len(boxes) /\ j \in 1..Len(boxes)
    BY <2>1, <2>3, <1>3 DEF OneBox
  <2>4. CASE i \in 1..Len(boxes) /\ j \notin 1..Len(boxes)
    <3>1. PICK l \in 1..Len(new) : j = Len(boxes) + l
      BY <2>4, <1>3
    <3>2. boxes'[i] = boxes[i] /\ boxes'[j] = new[l]
      BY <3>1, <2>4, <1>3
    <3>3. QED BY <3>2, <2>1, <2>2, <2>4
  <2>5. CASE i \notin 1..Len(boxes) /\ j \in 1..Len(boxes)
    <3>1. PICK k \in 1..Len(new) : i = Len(boxes) + k
      BY <2>5, <1>3
    <3>2. boxes'[j] = boxes[j] /\ boxes'[i] = new[k]
      BY <3>1, <2>5, <1>3
    <3>3. QED BY <3>2, <2>1, <2>2, <2>5
  <2>6. CASE i \notin 1..Len(boxes) /\ j \notin 1..Len(boxes)
    <3>1. PICK k \in 1..Len(new) : i = Len(boxes) + k
      BY <2>6, <1>3
    <3>2. PICK l \in 1..Len(new) : j = Len(boxes) + l
      BY <2>6, <1>3
    <3>3. boxes'[i] = new[k] /\ boxes'[j] = new[l]
      BY <3>1, <3>2, <1>3
    <3>4. k = l
      BY <2>1, <3>3
    <3>5. QED BY <3>1, <3>2, <3>4
  <2>7. QED BY <2>3, <2>4, <2>5, <2>6
<1>5. QED BY <1>2, <1>3, <1>4

(* A row is changed in its class or its connection only.                   *)
LEMMA RowChanged ==
    ASSUME Shape, OneBox, NEW i \in 1..Len(boxes), NEW box \in Row,
           box.addr = boxes[i].addr, boxes' = [boxes EXCEPT ![i] = box]
    PROVE  /\ boxes' \in Seq(Row)
           /\ Len(boxes') = Len(boxes)
           /\ boxes'[i] = box
           /\ \A k \in 1..Len(boxes) : k # i => boxes'[k] = boxes[k]
           /\ \A k \in 1..Len(boxes) : boxes'[k].addr = boxes[k].addr
           /\ OneBox'
           /\ Boxed' = Boxed
<1>1. boxes \in Seq(Row)
  BY DEF Shape
<1>2. /\ boxes' \in Seq(Row)
      /\ Len(boxes') = Len(boxes)
      /\ \A k \in 1..Len(boxes) : boxes'[k] = IF k = i THEN box ELSE boxes[k]
  BY <1>1, ExceptSeq
<1>3. \A k \in 1..Len(boxes) : boxes'[k].addr = boxes[k].addr
  BY <1>2
<1>4. OneBox'
  BY <1>2, <1>3 DEF OneBox
<1>5. Boxed' = Boxed
  BY <1>2, <1>3 DEF Boxed
<1>6. QED BY <1>2, <1>3, <1>4, <1>5

(* A row is taken out.                                                     *)
LEMMA RowRemoved ==
    ASSUME Shape, OneBox, NEW i \in 1..Len(boxes),
           boxes' = SubSeq(boxes, 1, i - 1) \o SubSeq(boxes, i + 1, Len(boxes))
    PROVE  /\ boxes' \in Seq(Row)
           /\ Len(boxes') = Len(boxes) - 1
           /\ \A k \in 1..Len(boxes') : \E l \in 1..Len(boxes) : l # i /\ boxes'[k] = boxes[l]
           /\ \A l \in 1..Len(boxes) : l # i => \E k \in 1..Len(boxes') : boxes'[k] = boxes[l]
           /\ OneBox'
           /\ boxes[i].addr \notin Boxed'
<1> DEFINE n == Len(boxes)
           s == SubSeq(boxes, 1, i - 1)
           t == SubSeq(boxes, i + 1, n)
<1>1. boxes \in Seq(Row) /\ n \in Nat /\ i \in Int /\ i >= 1 /\ i <= n
  BY LenProperties DEF Shape
<1>2. \A k \in 1..n : boxes[k] \in Row
  BY <1>1, ElementOfSeq
<1>3. /\ s \in Seq(Row) /\ Len(s) = i - 1
      /\ \A k \in 1..i - 1 : s[k] = boxes[k]
  <2>1. \A k \in 1..i - 1 : boxes[k] \in Row
    BY <1>1, <1>2
  <2>2. /\ SubSeq(boxes, 1, i - 1) \in Seq(Row)
        /\ Len(SubSeq(boxes, 1, i - 1)) = IF 1 <= i - 1 THEN i - 1 - 1 + 1 ELSE 0
        /\ \A k \in 1..i - 1 - 1 + 1 : SubSeq(boxes, 1, i - 1)[k] = boxes[1 + k - 1]
    BY <1>1, <2>1, SubSeqProperties
  <2>3. QED BY <1>1, <2>2
<1>4. /\ t \in Seq(Row) /\ Len(t) = n - i
      /\ \A k \in 1..n - i : t[k] = boxes[i + k]
  <2>1. \A k \in i + 1..n : boxes[k] \in Row
    BY <1>1, <1>2
  <2>2. /\ SubSeq(boxes, i + 1, n) \in Seq(Row)
        /\ Len(SubSeq(boxes, i + 1, n)) = IF i + 1 <= n THEN n - (i + 1) + 1 ELSE 0
        /\ \A k \in 1..n - (i + 1) + 1 : SubSeq(boxes, i + 1, n)[k] = boxes[i + 1 + k - 1]
    BY <1>1, <2>1, SubSeqProperties
  <2>3. QED BY <1>1, <2>2
<1>5. boxes' = s \o t
  OBVIOUS
<1> HIDE DEF s, t
<1>6. /\ boxes' \in Seq(Row) /\ Len(boxes') = i - 1 + (n - i)
      /\ \A k \in 1..i - 1 + (n - i) : boxes'[k] = IF k <= i - 1 THEN s[k] ELSE t[k - (i - 1)]
  <2>1. /\ s \o t \in Seq(Row) /\ Len(s \o t) = Len(s) + Len(t)
        /\ \A k \in 1..Len(s) + Len(t) :
              (s \o t)[k] = IF k <= Len(s) THEN s[k] ELSE t[k - Len(s)]
    BY <1>3, <1>4, ConcatProperties
  <2>2. Len(s) = i - 1 /\ Len(t) = n - i
    BY <1>3, <1>4
  <2>3. QED BY <2>1, <2>2, <1>5
<1>7. Len(boxes') = n - 1
  <2>1. Len(boxes') = i - 1 + (n - i) /\ i - 1 + (n - i) = n - 1
    BY <1>1, <1>6
  <2>2. QED BY <2>1
<1>8. \A k \in 1..n - 1 : boxes'[k] = IF k < i THEN boxes[k] ELSE boxes[k + 1]
  <2>1. ASSUME NEW k \in 1..n - 1, k < i PROVE boxes'[k] = boxes[k]
    <3>1. k \in 1..i - 1 + (n - i) /\ k <= i - 1 /\ k \in 1..i - 1
      BY <1>1, <2>1
    <3>2. QED BY <3>1, <1>3, <1>6
  <2>2. ASSUME NEW k \in 1..n - 1, ~(k < i) PROVE boxes'[k] = boxes[k + 1]
    <3>1. /\ k \in 1..i - 1 + (n - i) /\ ~(k <= i - 1)
          /\ k - (i - 1) \in 1..n - i /\ i + (k - (i - 1)) = k + 1
      BY <1>1, <2>2
    <3>2. QED BY <3>1, <1>4, <1>6
  <2>3. QED BY <2>1, <2>2
<1> HIDE DEF n
<1>9. ASSUME NEW k \in 1..n - 1
      PROVE  \E l \in 1..n : l # i /\ boxes'[k] = boxes[l] /\ l = IF k < i THEN k ELSE k + 1
  <2>1. CASE k < i
    <3>1. boxes'[k] = boxes[k]
      BY <1>8, <2>1
    <3>2. k \in 1..n /\ k # i
      BY <1>1, <2>1
    <3>3. QED BY <2>1, <3>1, <3>2
  <2>2. CASE ~(k < i)
    <3>1. boxes'[k] = boxes[k + 1]
      BY <1>8, <2>2
    <3>2. k + 1 \in 1..n /\ k + 1 # i
      BY <1>1, <2>2
    <3>3. QED BY <2>2, <3>1, <3>2
  <2>3. QED BY <2>1, <2>2
<1>10. ASSUME NEW l \in 1..n, l # i PROVE \E k \in 1..n - 1 : boxes'[k] = boxes[l]
  <2>1. CASE l < i
    <3>1. l \in 1..n - 1
      BY <1>1, <2>1
    <3>2. QED BY <2>1, <3>1, <1>8
  <2>2. CASE ~(l < i)
    <3>1. l - 1 \in 1..n - 1 /\ ~(l - 1 < i) /\ l - 1 + 1 = l
      BY <1>1, <1>10, <2>2
    <3>2. boxes'[l - 1] = boxes[l - 1 + 1]
      BY <3>1, <1>8
    <3>3. QED BY <3>1, <3>2
  <2>3. QED BY <2>1, <2>2
<1>11. OneBox'
  <2>1. SUFFICES ASSUME NEW k \in 1..n - 1, NEW m \in 1..n - 1, boxes'[k].addr = boxes'[m].addr
                 PROVE  k = m
    BY <1>7 DEF OneBox
  <2>2. PICK l \in 1..n : boxes'[k] = boxes[l] /\ l = IF k < i THEN k ELSE k + 1
    BY <1>9
  <2>3. PICK o \in 1..n : boxes'[m] = boxes[o] /\ o = IF m < i THEN m ELSE m + 1
    BY <1>9
  <2>4. l = o
    BY <2>1, <2>2, <2>3 DEF OneBox, n
  <2>5. QED BY <1>1, <2>2, <2>3, <2>4
<1>12. boxes[i].addr \notin Boxed'
  <2>1. SUFFICES ASSUME NEW k \in 1..n - 1, boxes'[k].addr = boxes[i].addr PROVE FALSE
    BY <1>7 DEF Boxed
  <2>2. PICK l \in 1..n : l # i /\ boxes'[k] = boxes[l]
    BY <1>9
  <2>3. QED BY <2>1, <2>2 DEF OneBox, n
<1>13. QED BY <1>6, <1>7, <1>9, <1>10, <1>11, <1>12 DEF n

-----------------------------------------------------------------------------
(* What stays of a request's view of the rows after each change            *)

(* Rows of new addresses leave every request's view as it is.              *)
LEMMA AddedKeepsFresh ==
    ASSUME Shape, OneBox, NEW new \in Seq(Row), boxes' = boxes \o new,
           \A i \in 1..Len(new) : new[i].addr \notin Boxed /\ new[i].via = "none",
           \A i, j \in 1..Len(new) : new[i].addr = new[j].addr => i = j,
           NEW job, Fresh(job)
    PROVE  Fresh(job)'
<1>1. /\ \A i \in 1..Len(boxes) : i \in 1..Len(boxes') /\ boxes'[i] = boxes[i]
      /\ \A i \in 1..Len(new) : Len(boxes) + i \in 1..Len(boxes')
                                /\ boxes'[Len(boxes) + i] = new[i]
      /\ \A i \in 1..Len(boxes') : i \in 1..Len(boxes)
                                   \/ \E k \in 1..Len(new) : i = Len(boxes) + k
  BY RowsAdded
<1>2. Protected \subseteq Protected' /\ Boxed \subseteq Boxed'
  <2>1. ASSUME NEW b \in Protected PROVE b \in Protected'
    <3>1. PICK i \in 1..Len(boxes) : boxes[i].class = "protected" /\ boxes[i].addr = b
      BY DEF Protected
    <3>2. i \in 1..Len(boxes') /\ boxes'[i].class = "protected" /\ boxes'[i].addr = b
      BY <1>1, <3>1
    <3>3. QED BY <3>2 DEF Protected
  <2>2. ASSUME NEW b \in Boxed PROVE b \in Boxed'
    <3>1. PICK i \in 1..Len(boxes) : boxes[i].addr = b
      BY DEF Boxed
    <3>2. i \in 1..Len(boxes') /\ boxes'[i].addr = b
      BY <1>1, <3>1
    <3>3. QED BY <3>2 DEF Boxed
  <2>3. QED BY <2>1, <2>2
<1>3. ASSUME job.addr \subseteq Boxed, NEW i \in 1..Len(boxes'), boxes'[i].addr \in job.addr
      PROVE  i \in 1..Len(boxes)
  <2>1. SUFFICES ASSUME NEW k \in 1..Len(new), i = Len(boxes) + k PROVE FALSE
    BY <1>1
  <2>2. new[k].addr \in Boxed
    BY <1>1, <1>3, <2>1
  <2>3. QED BY <2>2
<1>4. ASSUME ~job.stale, job.pc = "probe"
      PROVE  /\ job.addr \subseteq Boxed'
             /\ \A i \in 1..Len(boxes') : boxes'[i].addr \in job.addr => boxes'[i].class = job.class
  <2>1. /\ job.addr \subseteq Boxed
        /\ \A i \in 1..Len(boxes) : boxes[i].addr \in job.addr => boxes[i].class = job.class
    BY <1>4 DEF Fresh
  <2>2. QED BY <2>1, <1>1, <1>2, <1>3
<1>5. QED BY <1>2, <1>4 DEF Fresh

(* A change of a row that keeps its class, or is of another address than   *)
(* the request's, leaves its view as it is.                                *)
LEMMA ChangedKeepsFresh ==
    ASSUME Shape, OneBox, NEW i \in 1..Len(boxes), NEW box \in Row,
           box.addr = boxes[i].addr, boxes' = [boxes EXCEPT ![i] = box],
           NEW job, Fresh(job),
           job.stale \/ box.class = boxes[i].class \/ boxes[i].addr \notin job.addr
    PROVE  Fresh(job)'
<1>1. /\ Len(boxes') = Len(boxes)
      /\ boxes'[i] = box
      /\ \A k \in 1..Len(boxes) : k # i => boxes'[k] = boxes[k]
      /\ \A k \in 1..Len(boxes) : boxes'[k].addr = boxes[k].addr
      /\ Boxed' = Boxed
  BY RowChanged
<1>2. CASE job.stale
  BY <1>2 DEF Fresh
<1>3. CASE ~job.stale
  <2>1. \A k \in 1..Len(boxes) : boxes[k].addr \in job.addr => boxes'[k].class = boxes[k].class
    BY <1>1, <1>3
  <2>2. job.addr \subseteq Protected => job.addr \subseteq Protected'
    BY <1>1, <2>1 DEF Protected
  <2>3. QED BY <1>1, <2>1, <2>2 DEF Fresh
<1>4. QED BY <1>2, <1>3

(* The removal of a row of another address leaves the view as it is.       *)
LEMMA RemovedKeepsFresh ==
    ASSUME Shape, OneBox, NEW i \in 1..Len(boxes),
           boxes' = SubSeq(boxes, 1, i - 1) \o SubSeq(boxes, i + 1, Len(boxes)),
           NEW job, Fresh(job), job.stale \/ boxes[i].addr \notin job.addr
    PROVE  Fresh(job)'
<1>1. /\ \A k \in 1..Len(boxes') : \E l \in 1..Len(boxes) : l # i /\ boxes'[k] = boxes[l]
      /\ \A l \in 1..Len(boxes) : l # i => \E k \in 1..Len(boxes') : boxes'[k] = boxes[l]
  BY RowRemoved
<1>2. CASE job.stale
  BY <1>2 DEF Fresh
<1>3. CASE boxes[i].addr \notin job.addr
  <2>1. ASSUME NEW b \in job.addr, b \in Protected PROVE b \in Protected'
    <3>1. PICK l \in 1..Len(boxes) : boxes[l].class = "protected" /\ boxes[l].addr = b
      BY <2>1 DEF Protected
    <3>2. PICK k \in 1..Len(boxes') : boxes'[k] = boxes[l]
      BY <1>1, <1>3, <3>1
    <3>3. QED BY <3>1, <3>2 DEF Protected
  <2>2. ASSUME NEW b \in job.addr, b \in Boxed PROVE b \in Boxed'
    <3>1. PICK l \in 1..Len(boxes) : boxes[l].addr = b
      BY <2>2 DEF Boxed
    <3>2. PICK k \in 1..Len(boxes') : boxes'[k] = boxes[l]
      BY <1>1, <1>3, <3>1
    <3>3. QED BY <3>1, <3>2 DEF Boxed
  <2>3. ASSUME NEW k \in 1..Len(boxes'), boxes'[k].addr \in job.addr,
               \A l \in 1..Len(boxes) : boxes[l].addr \in job.addr => boxes[l].class = job.class
        PROVE  boxes'[k].class = job.class
    BY <1>1, <2>3
  <2>4. QED BY <2>1, <2>2, <2>3 DEF Fresh
<1>4. QED BY <1>2, <1>3

-----------------------------------------------------------------------------
(* Nothing but the requests changes: the rows' invariants stay.            *)
LEMMA RowsStay ==
    ASSUME IInv, UNCHANGED <<tenant, boxes>>, odd \subseteq odd'
    PROVE  /\ OneBox' /\ SeatsFit' /\ SourceMatchesClass'
           /\ \A job : Fresh(job) => Fresh(job)'
<1>1. OneBox' /\ SourceMatchesClass'
  BY DEF IInv, OneBox, SourceMatchesClass
<1>2. SeatsFit'
  BY DEF IInv, SeatsFit
<1>3. Protected' = Protected /\ Boxed' = Boxed
  BY DEF Protected, Boxed
<1>4. ASSUME NEW job, Fresh(job) PROVE Fresh(job)'
  BY <1>3, <1>4 DEF Fresh
<1>5. QED BY <1>1, <1>2, <1>4

(* A request begins.                                                       *)
LEMMA BeginKeeps ==
    ASSUME IInv, NEW r \in Req, NEW job \in Job, Begins(r, job),
           Sound(job), Fresh(job), job.pc = "insert" => job.kind = "bulk",
           job.pc = "count" => job.cap = MailboxCapacity(tenant)
    PROVE  IInv'
<1>1. /\ jobs' = [jobs EXCEPT ![r] = job]
      /\ UNCHANGED <<tenant, boxes, users, lock, odd>>
      /\ jobs \in [Req -> Job] /\ jobs[r] = Idle
  BY DEF Begins, IInv, Shape
<1>2. Shape'
  BY <1>1 DEF IInv, Shape
<1>3. /\ OneBox' /\ SeatsFit' /\ SourceMatchesClass'
      /\ \A j : Fresh(j) => Fresh(j)'
  BY <1>1, RowsStay
<1>4. ASSUME NEW q \in Req PROVE (Sound(jobs[q]) /\ Fresh(jobs[q]) /\ Counted(q))'
  <2>1. MailboxCapacity(tenant) \in Nat
    BY Workplace DEF IInv, Shape
  <2>2. CASE q = r
    <3>1. jobs'[q] = job
      BY <1>1, <2>2
    <3>2. Sound(jobs[q])'
      BY <3>1 DEF Sound
    <3>3. Fresh(job)'
      BY <1>3
    <3>4. Fresh(jobs[q])'
      BY <3>1, <3>3 DEF Fresh
    <3>5. Counted(q)'
      BY <3>1, <2>1, <1>1 DEF Counted
    <3>6. QED BY <3>2, <3>4, <3>5
  <2>3. CASE q # r
    <3>1. PICK j : j = jobs[q]
      OBVIOUS
    <3>2. jobs'[q] = j
      BY <1>1, <2>3, <3>1
    <3>3. Fresh(j)'
      BY <1>3, <3>1 DEF IInv
    <3>4. Fresh(jobs[q])'
      BY <3>2, <3>3 DEF Fresh
    <3>5. Sound(jobs[q])'
      BY <3>1, <3>2 DEF Sound, IInv
    <3>6. Counted(q)'
      BY <1>1, <3>1, <3>2 DEF Counted, Tame, IInv
    <3>7. QED BY <3>4, <3>5, <3>6
  <2>4. QED BY <2>2, <2>3
<1>5. QED BY <1>2, <1>3, <1>4 DEF IInv

(* A request ends; the others are where they were, and no seat one of them *)
(* holds the lock for was taken.                                           *)
LEMMA EndKeepsOthers ==
    ASSUME IInv, NEW r \in Req, Ends(r), odd \subseteq odd',
           \/ UNCHANGED boxes
           \/ Len(boxes') = Len(boxes)
           \/ jobs[r].pc = "insert" /\ (jobs[r].kind = "bulk" => "bulk" \in odd'),
           NEW q \in Req
    PROVE  /\ jobs' \in [Req -> Job] /\ lock' \in Req \cup {Nobody}
           /\ Sound(jobs[q])' /\ Counted(q)'
           /\ q = r => jobs'[q] = Idle
           /\ q # r => jobs'[q] = jobs[q]
<1>1. /\ jobs' = [jobs EXCEPT ![r] = Idle]
      /\ lock' = IF lock = r THEN Nobody ELSE lock
      /\ tenant' = tenant
      /\ jobs \in [Req -> Job] /\ lock \in Req \cup {Nobody}
  BY DEF Ends, IInv, Shape
<1>2. Idle \in Job
  BY DEF Idle, Job, Class
<1>3. jobs' \in [Req -> Job] /\ lock' \in Req \cup {Nobody}
  BY <1>1, <1>2
<1>4. (q = r => jobs'[q] = Idle) /\ (q # r => jobs'[q] = jobs[q])
  BY <1>1
<1>5. Sound(jobs[q])'
  BY <1>4 DEF Sound, Idle, IInv
<1>6. Counted(q)'
  <2>1. CASE q = r
    BY <2>1, <1>4 DEF Counted, Idle
  <2>2. CASE q # r
    <3>1. Tame' => Tame
      BY DEF Tame
    <3>2. jobs'[q] = jobs[q] /\ Counted(q) /\ Counted(r)
      BY <2>2, <1>4 DEF IInv
    <3>3. ASSUME jobs[q].pc = "insert", jobs[q].kind # "bulk"
          PROVE  /\ lock' = q
                 /\ Tame' => Len(boxes') + 1 <= MailboxCapacity(tenant)
      <4>1. lock = q /\ (Tame => Len(boxes) + 1 <= MailboxCapacity(tenant))
        BY <3>2, <3>3 DEF Counted
      <4>2. lock' = q
        BY <4>1, <2>2, <1>1
      <4>3. Len(boxes') = Len(boxes) \/ ~Tame'
        BY <4>1, <2>2, <3>2 DEF Counted, Tame
      <4>4. QED BY <4>1, <4>2, <4>3, <3>1
    <3>4. QED BY <3>1, <3>2, <3>3, <1>1 DEF Counted
  <2>3. QED BY <2>1, <2>2
<1>7. QED BY <1>3, <1>4, <1>5, <1>6

-----------------------------------------------------------------------------
(* The actions                                                             *)

(* An entitled workspace may add a mailbox: the checks before the count.   *)
LEMMA AddKeeps ==
    ASSUME IInv, NEW r \in Req, NEW a \in Addr, NEW class \in Class, Add(r, a, class)
    PROVE  IInv'
<1>1. PICK job : job = [Idle EXCEPT !.pc = "count", !.kind = "add", !.addr = {a},
                                    !.class = class, !.cap = MailboxCapacity(tenant)]
  OBVIOUS
<1>2. MailboxCapacity(tenant) \in Nat
  BY Workplace DEF IInv, Shape
<1>3. job \in Job /\ Sound(job) /\ Fresh(job)
  BY <1>1, <1>2 DEF Idle, Job, Sound, Fresh
<1>4. Begins(r, job) /\ job.pc = "count" /\ job.cap = MailboxCapacity(tenant)
  BY <1>1 DEF Add, Idle
<1>5. QED BY <1>3, <1>4, BeginKeeps

(* A pasted list.                                                          *)
LEMMA AddBulkKeeps ==
    ASSUME IInv, NEW r \in Req, NEW pasted \in SUBSET Addr, AddBulk(r, pasted)
    PROVE  IInv'
<1>1. PICK taken \in SUBSET (pasted \ Boxed) :
          Begins(r, [Idle EXCEPT !.pc = "insert", !.kind = "bulk", !.addr = taken,
                                 !.class = "monitored"])
  BY DEF AddBulk
<1>2. PICK job : job = [Idle EXCEPT !.pc = "insert", !.kind = "bulk", !.addr = taken,
                                    !.class = "monitored"]
  OBVIOUS
<1>3. job \in Job /\ Sound(job) /\ Fresh(job) /\ job.kind = "bulk" /\ job.pc = "insert"
  BY <1>2 DEF Idle, Job, Class, Sound, Fresh
<1>4. QED BY <1>1, <1>2, <1>3, BeginKeeps

(* A login for a colleague.                                                *)
LEMMA CreateKeeps ==
    ASSUME IInv, NEW r \in Req, NEW a \in Addr, NEW as \in {"member", "admin"},
           Create(r, a, as)
    PROVE  IInv'
<1>1. PICK job : job = [Idle EXCEPT !.pc = "grant", !.kind = "create", !.addr = {a},
                                    !.role = as]
  OBVIOUS
<1>2. job \in Job /\ Sound(job) /\ job.pc = "grant" /\ job.addr = {a} /\ job.role = as
  BY <1>1 DEF Idle, Job, Sound
<1>3. Fresh(job)
  BY <1>2 DEF Create, Fresh
<1>4. Begins(r, job)
  BY <1>1 DEF Create
<1>5. QED BY <1>2, <1>3, <1>4, BeginKeeps

(* The approval of a colleague, with or without a mailbox to add.          *)
LEMMA ApproveKeeps ==
    ASSUME IInv, NEW r \in Req, NEW a \in Addr, Approve(r, a)
    PROVE  IInv'
<1>1. users[a].role \in {"none", "member", "admin"}
  BY DEF IInv, Shape
<1>2. MailboxCapacity(tenant) \in Nat
  BY Workplace DEF IInv, Shape
<1>3. CASE HasProtectedMailbox(a)
  <2>1. PICK job : job = [Idle EXCEPT !.pc = "grant", !.kind = "approve", !.addr = {a},
                                      !.role = users[a].role]
    OBVIOUS
  <2>2. job \in Job /\ Sound(job) /\ job.pc = "grant" /\ job.addr = {a}
    BY <1>1, <2>1 DEF Idle, Job, Sound
  <2>3. Fresh(job)
    BY <2>2, <1>3 DEF HasProtectedMailbox, Fresh
  <2>4. Begins(r, job)
    BY <2>1, <1>3 DEF Approve
  <2>5. QED BY <2>2, <2>3, <2>4, BeginKeeps
<1>4. CASE ~HasProtectedMailbox(a)
  <2>1. PICK job : job = [Idle EXCEPT !.pc = "count", !.kind = "approve", !.addr = {a},
                                      !.class = "protected", !.role = users[a].role,
                                      !.cap = MailboxCapacity(tenant)]
    OBVIOUS
  <2>2. job \in Job /\ Sound(job) /\ Fresh(job)
    BY <1>1, <1>2, <2>1 DEF Idle, Job, Class, Sound, Fresh
  <2>3. Begins(r, job) /\ job.pc = "count" /\ job.cap = MailboxCapacity(tenant)
    BY <2>1, <1>4 DEF Approve, Idle
  <2>4. QED BY <2>2, <2>3, BeginKeeps
<1>5. QED BY <1>3, <1>4

(* A connection begins with the class its mailbox has.                     *)
LEMMA ConnectKeeps ==
    ASSUME IInv, NEW r \in Req, NEW a \in Addr, Connect(r, a)
    PROVE  IInv'
<1>1. PICK i \in 1..Len(boxes) :
          /\ boxes[i].addr = a
          /\ Begins(r, [Idle EXCEPT !.pc = "probe", !.kind = "connect", !.addr = {a},
                                    !.class = boxes[i].class])
  BY DEF Connect
<1>2. PICK job : job = [Idle EXCEPT !.pc = "probe", !.kind = "connect", !.addr = {a},
                                    !.class = boxes[i].class]
  OBVIOUS
<1>3. boxes[i].class \in Class
  <2>1. boxes \in Seq(Row)
    BY DEF IInv, Shape
  <2>2. boxes[i] \in Row
    BY <2>1, ElementOfSeq
  <2>3. QED BY <2>2 DEF Row
<1>4. /\ job \in Job /\ Sound(job) /\ job.pc = "probe" /\ job.addr = {a}
      /\ job.class = boxes[i].class
  BY <1>2, <1>3 DEF Idle, Job, Sound
<1>5. Fresh(job)
  <2>1. a \in Boxed
    BY <1>1 DEF Boxed
  <2>2. \A k \in 1..Len(boxes) : boxes[k].addr = a => k = i
    BY <1>1 DEF IInv, OneBox
  <2>3. QED BY <2>1, <2>2, <1>4 DEF Fresh
<1>6. QED BY <1>1, <1>2, <1>4, <1>5, BeginKeeps

(* The count: no seat, or a seat and the lock.                             *)
LEMMA CountSeatsKeeps ==
    ASSUME IInv, NEW r \in Req, CountSeats(r)
    PROVE  IInv'
<1>1. /\ jobs[r].pc = "count" /\ lock = Nobody /\ jobs[r].kind # "bulk"
      /\ UNCHANGED <<tenant, boxes, users, odd>>
      /\ jobs \in [Req -> Job] /\ Sound(jobs[r]) /\ Fresh(jobs[r]) /\ Counted(r)
  BY DEF CountSeats, MayCount, IInv, Shape, Sound
<1>2. /\ OneBox' /\ SeatsFit' /\ SourceMatchesClass'
      /\ \A j : Fresh(j) => Fresh(j)'
  BY <1>1, RowsStay
<1>3. ASSUME NEW q \in Req, q # r, jobs'[q] = jobs[q]
      PROVE  (Sound(jobs[q]) /\ Fresh(jobs[q]) /\ Counted(q))'
  <2>1. PICK j : j = jobs[q]
    OBVIOUS
  <2>2. Fresh(j)'
    BY <1>2, <2>1 DEF IInv
  <2>3. Fresh(jobs[q])'
    BY <1>3, <2>1, <2>2 DEF Fresh
  <2>4. Sound(jobs[q])'
    BY <1>3 DEF Sound, IInv
  <2>5. Counted(q) /\ ~(jobs[q].pc = "insert" /\ jobs[q].kind # "bulk")
    BY <1>1, Workplace DEF IInv, Counted
  <2>6. Counted(q)'
    BY <1>1, <1>3, <2>5 DEF Counted, Tame
  <2>7. QED BY <2>3, <2>4, <2>6
<1>4. CASE Len(boxes) + 1 > jobs[r].cap
  <2>1. jobs' = [jobs EXCEPT ![r] = Idle] /\ lock' = lock
    BY <1>4 DEF CountSeats
  <2>2. Idle \in Job
    BY DEF Idle, Job, Class
  <2>3. Shape'
    BY <1>1, <2>1, <2>2 DEF IInv, Shape
  <2>4. (Sound(jobs[r]) /\ Fresh(jobs[r]) /\ Counted(r))'
    BY <1>1, <2>1 DEF Sound, Fresh, Counted, Idle
  <2>5. \A q \in Req : (Sound(jobs[q]) /\ Fresh(jobs[q]) /\ Counted(q))'
    BY <1>1, <1>3, <2>1, <2>4
  <2>6. QED BY <1>2, <2>3, <2>5 DEF IInv
<1>5. CASE ~(Len(boxes) + 1 > jobs[r].cap)
  <2>1. jobs' = [jobs EXCEPT ![r].pc = "insert"] /\ lock' = r
    BY <1>5 DEF CountSeats
  <2>2. PICK job : job = [jobs[r] EXCEPT !.pc = "insert"]
    OBVIOUS
  <2>3. /\ job \in Job /\ job.pc = "insert" /\ job.kind = jobs[r].kind
        /\ job.class = jobs[r].class /\ job.addr = jobs[r].addr /\ job.role = jobs[r].role
    BY <1>1, <2>2 DEF Job
  <2>4. jobs'[r] = job
    BY <1>1, <2>1, <2>2
  <2>5. Shape'
    BY <1>1, <2>1, <2>2, <2>3 DEF IInv, Shape
  <2>6. Sound(jobs[r])' /\ Fresh(jobs[r])'
    BY <1>1, <2>3, <2>4 DEF Sound, Fresh
  <2>7. Tame => Len(boxes) + 1 <= MailboxCapacity(tenant)
    <3>1. /\ Len(boxes) \in Nat /\ jobs[r].cap \in Nat
          /\ MailboxCapacity(tenant) \in Nat
      BY <1>1, LenProperties, Workplace DEF IInv, Shape, Job
    <3>2. Tame => jobs[r].cap <= MailboxCapacity(tenant)
      BY <1>1 DEF Counted
    <3>3. QED BY <1>5, <3>1, <3>2
  <2>8. Counted(r)'
    BY <1>1, <2>1, <2>3, <2>4, <2>7 DEF Counted, Tame
  <2>9. \A q \in Req : (Sound(jobs[q]) /\ Fresh(jobs[q]) /\ Counted(q))'
    BY <1>1, <1>3, <2>1, <2>6, <2>8
  <2>10. QED BY <1>2, <2>5, <2>9 DEF IInv
<1>6. QED BY <1>4, <1>5

(* The new rows of an insert: one for each address, of the request's class. *)
LEMMA NewBoxesRows ==
    ASSUME Shape, NEW r \in Req, jobs[r].class \in Class
    PROVE  /\ NewBoxes(r) \in Seq(Row)
           /\ Len(NewBoxes(r)) = Cardinality(jobs[r].addr)
           /\ \A i \in 1..Len(NewBoxes(r)) : /\ NewBoxes(r)[i].addr \in jobs[r].addr
                                             /\ NewBoxes(r)[i].class = jobs[r].class
                                             /\ NewBoxes(r)[i].via = "none"
           /\ \A a \in jobs[r].addr : \E i \in 1..Len(NewBoxes(r)) : NewBoxes(r)[i].addr = a
           /\ \A i, j \in 1..Len(NewBoxes(r)) :
                 NewBoxes(r)[i].addr = NewBoxes(r)[j].addr => i = j
<1> DEFINE S == jobs[r].addr
           n == Cardinality(S)
           P(s) == \A a \in S : \E i \in DOMAIN s : s[i] = a
<1>1. S \in SUBSET Addr
  BY DEF Shape, Job
<1>2. IsFiniteSet(S) /\ n \in Nat /\ ExistsBijection(1..n, S)
  BY <1>1, FS_Subset, FS_CardinalityType, Workplace
<1>3. \E s \in [1..n -> S] : P(s)
  <2>1. PICK f : f \in Bijection(1..n, S)
    BY <1>2 DEF ExistsBijection
  <2>2. f \in [1..n -> S] /\ \A a \in S : \E i \in 1..n : f[i] = a
    BY <2>1 DEF Bijection, Injection, Surjection
  <2>3. P(f)
    BY <2>2
  <2>4. QED BY <2>2, <2>3
<1>4. PICK s : s = CHOOSE z \in [1..n -> S] : P(z)
  OBVIOUS
<1>5. s \in [1..n -> S] /\ P(s)
  BY <1>3, <1>4
<1>6. NewBoxes(r) = [i \in 1..n |-> [addr |-> s[i], class |-> jobs[r].class, via |-> "none"]]
  BY <1>4, <1>5 DEF NewBoxes
<1>7. \A i, j \in 1..n : s[i] = s[j] => i = j
  <2>1. IsFiniteSet(1..n) /\ Cardinality(1..n) = n
    BY <1>2, FS_Interval
  <2>2. s \in Surjection(1..n, S)
    BY <1>5, Fun_IsSurj
  <2>3. s \in Injection(1..n, S)
    BY <2>1, <2>2, FS_SurjSameCardinalityImpliesInj
  <2>4. QED BY <2>3 DEF Injection, IsInjective
<1>8. \A i \in 1..n : [addr |-> s[i], class |-> jobs[r].class, via |-> "none"] \in Row
  BY <1>1, <1>5 DEF Row
<1>9. NewBoxes(r) \in Seq(Row) /\ Len(NewBoxes(r)) = n
  BY <1>2, <1>6, <1>8
<1>10. QED BY <1>2, <1>5, <1>6, <1>7, <1>9

(* The insert takes the seats that were counted.                           *)
LEMMA InsertBoxesKeeps ==
    ASSUME IInv, NEW r \in Req, InsertBoxes(r)
    PROVE  IInv' /\ LoginIsProtectedStep
<1>1. /\ jobs[r].pc = "insert" /\ Ends(r) /\ Shape /\ OneBox
      /\ Sound(jobs[r]) /\ Counted(r) /\ jobs[r].class \in Class /\ jobs[r] \in Job
  BY DEF InsertBoxes, IInv, Sound, Shape
<1>2. tenant' = tenant
  BY <1>1 DEF Ends
<1>3. ASSUME NEW q \in Req, q # r, jobs'[q] = jobs[q], \A j : Fresh(j) => Fresh(j)'
      PROVE  Fresh(jobs[q])'
  <2>1. PICK j : j = jobs[q]
    OBVIOUS
  <2>2. Fresh(j)'
    BY <1>3, <2>1 DEF IInv
  <2>3. QED BY <1>3, <2>1, <2>2 DEF Fresh
<1>4. ASSUME jobs'[r] = Idle PROVE Fresh(jobs[r])'
  BY <1>4 DEF Fresh, Idle
<1>5. CASE AddressesUnique(jobs[r].addr) /\ LoginWritable(r)
  <2>1. /\ boxes' = boxes \o NewBoxes(r)
        /\ users' = Grants(r)
        /\ odd' = odd \cup (IF jobs[r].kind = "bulk" THEN {"bulk"} ELSE {})
    BY <1>5 DEF InsertBoxes
  <2>2. PICK new : new = NewBoxes(r)
    OBVIOUS
  <2>3. /\ new \in Seq(Row) /\ boxes' = boxes \o new
        /\ Len(new) = Cardinality(jobs[r].addr)
        /\ \A i \in 1..Len(new) : /\ new[i].addr \in jobs[r].addr
                                  /\ new[i].class = jobs[r].class /\ new[i].via = "none"
        /\ \A a \in jobs[r].addr : \E i \in 1..Len(new) : new[i].addr = a
        /\ \A i, j \in 1..Len(new) : new[i].addr = new[j].addr => i = j
    <3>1. /\ NewBoxes(r) \in Seq(Row)
          /\ Len(NewBoxes(r)) = Cardinality(jobs[r].addr)
          /\ \A i \in 1..Len(NewBoxes(r)) : /\ NewBoxes(r)[i].addr \in jobs[r].addr
                                            /\ NewBoxes(r)[i].class = jobs[r].class
                                            /\ NewBoxes(r)[i].via = "none"
          /\ \A a \in jobs[r].addr : \E i \in 1..Len(NewBoxes(r)) : NewBoxes(r)[i].addr = a
          /\ \A i, j \in 1..Len(NewBoxes(r)) :
                NewBoxes(r)[i].addr = NewBoxes(r)[j].addr => i = j
      BY <1>1, NewBoxesRows
    <3>2. QED BY <3>1, <2>1, <2>2
  <2>4. \A i \in 1..Len(new) : new[i].addr \notin Boxed /\ new[i].via = "none"
    BY <1>5, <2>3 DEF AddressesUnique
  <2>5. /\ boxes' \in Seq(Row)
        /\ Len(boxes') = Len(boxes) + Len(new)
        /\ \A i \in 1..Len(boxes) : i \in 1..Len(boxes') /\ boxes'[i] = boxes[i]
        /\ \A i \in 1..Len(new) : Len(boxes) + i \in 1..Len(boxes')
                                  /\ boxes'[Len(boxes) + i] = new[i]
        /\ \A i \in 1..Len(boxes') : i \in 1..Len(boxes)
                                     \/ \E k \in 1..Len(new) : i = Len(boxes) + k
        /\ OneBox'
    BY <1>1, <2>3, <2>4, RowsAdded
  <2>6. \A j : Fresh(j) => Fresh(j)'
    BY <1>1, <2>3, <2>4, AddedKeepsFresh
  <2>7. odd \subseteq odd' /\ (jobs[r].kind = "bulk" => "bulk" \in odd')
    BY <2>1
  <2>8. \A q \in Req : /\ jobs' \in [Req -> Job] /\ lock' \in Req \cup {Nobody}
                       /\ Sound(jobs[q])' /\ Counted(q)'
                       /\ q = r => jobs'[q] = Idle
                       /\ q # r => jobs'[q] = jobs[q]
    BY <1>1, <2>7, EndKeepsOthers
  <2>9. users' \in [Addr -> [role : {"none", "member", "admin"},
                             status : {"none", "pending", "active"}]]
    BY <1>1, <2>1 DEF Grants, Shape, Job
  <2>10. SeatsFit'
    <3>1. SUFFICES ASSUME Tame' PROVE Len(boxes') <= MailboxCapacity(tenant)'
      BY DEF SeatsFit, Tame
    <3>2. Tame /\ jobs[r].kind # "bulk"
      BY <3>1, <2>7 DEF Tame
    <3>3. PICK a \in Addr : jobs[r].addr = {a}
      BY <3>2, <1>1 DEF Sound
    <3>4. Len(new) = 1
      BY <3>3, <2>3, FS_Singleton
    <3>5. Len(boxes) + 1 <= MailboxCapacity(tenant)
      BY <3>2, <1>1 DEF Counted
    <3>6. QED BY <3>4, <3>5, <2>5, <1>2
  <2>11. SourceMatchesClass'
    <3>1. SUFFICES ASSUME "reclassed" \notin odd', NEW i \in 1..Len(boxes')
                   PROVE  boxes'[i].via \in {"none", Strategy(boxes'[i].class)}
      BY DEF SourceMatchesClass, Strategy
    <3>2. CASE i \in 1..Len(boxes)
      BY <2>5, <2>7, <3>1, <3>2 DEF IInv, SourceMatchesClass
    <3>3. CASE i \notin 1..Len(boxes)
      <4>1. PICK k \in 1..Len(new) : i = Len(boxes) + k
        BY <2>5, <3>3
      <4>2. boxes'[i].via = "none"
        BY <4>1, <2>3, <2>5
      <4>3. QED BY <4>2
    <3>4. QED BY <3>2, <3>3
  <2>12. Shape'
    BY <1>1, <1>2, <2>5, <2>8, <2>9 DEF Shape
  <2>13. IInv'
    BY <1>3, <1>4, <2>5, <2>6, <2>8, <2>10, <2>11, <2>12 DEF IInv
  <2>14. LoginIsProtectedStep
    <3>1. SUFFICES ASSUME NEW a \in Addr, a \notin Active, a \in Active',
                          users'[a].role = "member"
                   PROVE  a \in Protected'
      BY DEF LoginIsProtectedStep
    <3>2. a \in jobs[r].addr /\ jobs[r].role = "member"
      BY <3>1, <2>1 DEF Grants, Active
    <3>3. jobs[r].class = "protected"
      BY <3>2, <1>1 DEF Sound
    <3>4. PICK i \in 1..Len(new) : new[i].addr = a
      BY <3>2, <2>3
    <3>5. /\ Len(boxes) + i \in 1..Len(boxes') /\ boxes'[Len(boxes) + i].addr = a
          /\ boxes'[Len(boxes) + i].class = "protected"
      BY <3>3, <3>4, <2>3, <2>5
    <3>6. QED BY <3>5 DEF Protected
  <2>15. QED BY <2>13, <2>14
<1>6. CASE ~(AddressesUnique(jobs[r].addr) /\ LoginWritable(r))
  <2>1. /\ odd' = odd \cup {"refused"}
        /\ UNCHANGED <<boxes, users>>
    BY <1>6 DEF InsertBoxes
  <2>2. \A q \in Req : /\ jobs' \in [Req -> Job] /\ lock' \in Req \cup {Nobody}
                       /\ Sound(jobs[q])' /\ Counted(q)'
                       /\ q = r => jobs'[q] = Idle
                       /\ q # r => jobs'[q] = jobs[q]
    BY <1>1, <2>1, EndKeepsOthers
  <2>3. /\ OneBox' /\ SeatsFit' /\ SourceMatchesClass'
        /\ \A j : Fresh(j) => Fresh(j)'
    BY <1>2, <2>1, RowsStay
  <2>4. Shape'
    BY <1>1, <1>2, <2>1, <2>2 DEF Shape
  <2>5. IInv'
    BY <1>3, <1>4, <2>2, <2>3, <2>4 DEF IInv
  <2>6. LoginIsProtectedStep
    BY <2>1 DEF LoginIsProtectedStep, Active
  <2>7. QED BY <2>5, <2>6
<1>7. QED BY <1>5, <1>6

(* A login is granted to a protected mailbox.                              *)
LEMMA GrantLoginKeeps ==
    ASSUME IInv, NEW r \in Req, GrantLogin(r)
    PROVE  IInv' /\ LoginIsProtectedStep
<1>1. /\ jobs[r].pc = "grant" /\ Ends(r) /\ Shape
      /\ Fresh(jobs[r]) /\ jobs[r] \in Job /\ boxes' = boxes /\ odd \subseteq odd'
  BY DEF GrantLogin, IInv, Shape
<1>2. tenant' = tenant
  BY <1>1 DEF Ends
<1>3. \A q \in Req : /\ jobs' \in [Req -> Job] /\ lock' \in Req \cup {Nobody}
                     /\ Sound(jobs[q])' /\ Counted(q)'
                     /\ q = r => jobs'[q] = Idle
                     /\ q # r => jobs'[q] = jobs[q]
  BY <1>1, EndKeepsOthers
<1>4. /\ OneBox' /\ SeatsFit' /\ SourceMatchesClass'
      /\ \A j : Fresh(j) => Fresh(j)'
  BY <1>1, <1>2, RowsStay
<1>5. ASSUME NEW q \in Req PROVE Fresh(jobs[q])'
  <2>1. CASE q = r
    BY <1>3, <2>1 DEF Fresh, Idle
  <2>2. CASE q # r
    <3>1. PICK j : j = jobs[q]
      OBVIOUS
    <3>2. Fresh(j)'
      BY <1>4, <3>1 DEF IInv
    <3>3. QED BY <1>3, <2>2, <3>1, <3>2 DEF Fresh
  <2>3. QED BY <2>1, <2>2
<1>6. users' \in [Addr -> [role : {"none", "member", "admin"},
                          status : {"none", "pending", "active"}]]
  <2>1. CASE LoginWritable(r)
    BY <1>1, <2>1 DEF GrantLogin, Grants, Shape, Job
  <2>2. CASE ~LoginWritable(r)
    BY <1>1, <2>2 DEF GrantLogin, Shape
  <2>3. QED BY <2>1, <2>2
<1>7. Shape'
  BY <1>1, <1>2, <1>3, <1>6 DEF Shape
<1>8. IInv'
  BY <1>3, <1>4, <1>5, <1>7 DEF IInv
<1>9. LoginIsProtectedStep
  <2>1. SUFFICES ASSUME NEW a \in Addr, a \notin Active, a \in Active',
                        users'[a].role = "member", ~("unprotected" \in odd')
                 PROVE  a \in Protected'
    BY DEF LoginIsProtectedStep
  <2>2. Protected' = Protected
    BY <1>1 DEF Protected
  <2>3. CASE LoginWritable(r)
    <3>1. users' = Grants(r) /\ ~jobs[r].stale
      BY <2>1, <2>3 DEF GrantLogin
    <3>2. a \in jobs[r].addr /\ jobs[r].role = "member"
      BY <2>1, <3>1 DEF Grants, Active
    <3>3. QED BY <3>1, <3>2, <2>2, <1>1 DEF Fresh
  <2>4. CASE ~LoginWritable(r)
    BY <2>1, <2>4 DEF GrantLogin, Active
  <2>5. QED BY <2>3, <2>4
<1>10. QED BY <1>8, <1>9

(* The connection is stored as the class that was read asks.               *)
LEMMA StoreConnectionKeeps ==
    ASSUME IInv, NEW r \in Req, StoreConnection(r)
    PROVE  IInv'
<1>1. /\ jobs[r].pc = "probe" /\ Ends(r) /\ Shape /\ OneBox /\ users' = users
      /\ Sound(jobs[r]) /\ Fresh(jobs[r]) /\ jobs[r] \in Job
      /\ jobs[r].class \in Class /\ boxes \in Seq(Row)
  BY DEF StoreConnection, IInv, Shape, Sound
<1>2. tenant' = tenant
  BY <1>1 DEF Ends
<1>3. ASSUME odd \subseteq odd', Len(boxes') = Len(boxes), boxes' \in Seq(Row),
             OneBox', SourceMatchesClass', \A j : Fresh(j) => Fresh(j)'
      PROVE  IInv'
  <2>1. \A q \in Req : /\ jobs' \in [Req -> Job] /\ lock' \in Req \cup {Nobody}
                       /\ Sound(jobs[q])' /\ Counted(q)'
                       /\ q = r => jobs'[q] = Idle
                       /\ q # r => jobs'[q] = jobs[q]
    BY <1>1, <1>3, EndKeepsOthers
  <2>2. ASSUME NEW q \in Req PROVE Fresh(jobs[q])'
    <3>1. CASE q = r
      BY <2>1, <3>1 DEF Fresh, Idle
    <3>2. CASE q # r
      <4>1. PICK j : j = jobs[q]
        OBVIOUS
      <4>2. Fresh(j)'
        BY <1>3, <4>1 DEF IInv
      <4>3. QED BY <2>1, <3>2, <4>1, <4>2 DEF Fresh
    <3>3. QED BY <3>1, <3>2
  <2>3. SeatsFit'
    BY <1>2, <1>3 DEF IInv, SeatsFit
  <2>4. Shape'
    BY <1>1, <1>2, <1>3, <2>1 DEF Shape
  <2>5. QED BY <1>3, <2>1, <2>2, <2>3, <2>4 DEF IInv
<1>4. CASE UNCHANGED <<boxes, odd>>
  <2>1. /\ OneBox' /\ SourceMatchesClass' /\ \A j : Fresh(j) => Fresh(j)'
    BY <1>2, <1>4, RowsStay
  <2>2. QED BY <1>1, <1>3, <1>4, <2>1
<1>5. ASSUME NEW i \in 1..Len(boxes), boxes[i].addr \in jobs[r].addr,
             boxes' = [boxes EXCEPT ![i].via = Strategy(jobs[r].class)],
             odd' = odd \cup (IF jobs[r].stale THEN {"reclassed"} ELSE {})
      PROVE  IInv'
  <2>1. PICK box : box = [boxes[i] EXCEPT !.via = Strategy(jobs[r].class)]
    OBVIOUS
  <2>2. boxes[i] \in Row
    BY <1>1, ElementOfSeq
  <2>3. /\ box \in Row /\ box.addr = boxes[i].addr /\ box.class = boxes[i].class
        /\ box.via = Strategy(jobs[r].class)
    BY <2>1, <2>2 DEF Row, Strategy
  <2>4. boxes' = [boxes EXCEPT ![i] = box]
    BY <1>5, <2>1
  <2>5. /\ boxes' \in Seq(Row) /\ Len(boxes') = Len(boxes) /\ boxes'[i] = box
        /\ \A k \in 1..Len(boxes) : k # i => boxes'[k] = boxes[k]
        /\ OneBox'
    BY <1>1, <2>3, <2>4, RowChanged
  <2>6. \A j : Fresh(j) => Fresh(j)'
    BY <1>1, <2>3, <2>4, ChangedKeepsFresh
  <2>7. SourceMatchesClass'
    <3>1. SUFFICES ASSUME "reclassed" \notin odd', NEW k \in 1..Len(boxes)
                   PROVE  boxes'[k].via \in {"none", Strategy(boxes'[k].class)}
      BY <2>5 DEF SourceMatchesClass, Strategy
    <3>2. "reclassed" \notin odd /\ ~jobs[r].stale
      BY <1>5, <3>1
    <3>3. CASE k = i
      <4>1. boxes[i].class = jobs[r].class
        BY <1>1, <1>5, <3>2 DEF Fresh
      <4>2. QED BY <4>1, <3>3, <2>3, <2>5
    <3>4. CASE k # i
      BY <3>1, <3>2, <3>4, <2>5 DEF IInv, SourceMatchesClass
    <3>5. QED BY <3>3, <3>4
  <2>8. QED BY <1>3, <1>5, <2>5, <2>6, <2>7
<1>6. QED BY <1>4, <1>5 DEF StoreConnection

(* The place of an address that has a mailbox.                             *)
LEMMA AtIsThere ==
    ASSUME NEW a \in Boxed PROVE At(a) \in 1..Len(boxes) /\ boxes[At(a)].addr = a
<1>1. \E i \in 1..Len(boxes) : boxes[i].addr = a
  BY DEF Boxed
<1>2. QED BY <1>1 DEF At

(* The mark changes nothing of a request but the mark.                     *)
LEMMA MarkKeeps ==
    ASSUME Shape, NEW a, MarkStale(a), NEW q \in Req
    PROVE  /\ jobs' \in [Req -> Job]
           /\ a \in jobs[q].addr => jobs'[q].stale
           /\ a \notin jobs[q].addr => jobs'[q] = jobs[q]
           /\ jobs'[q].pc = jobs[q].pc /\ jobs'[q].kind = jobs[q].kind
           /\ jobs'[q].addr = jobs[q].addr /\ jobs'[q].class = jobs[q].class
           /\ jobs'[q].role = jobs[q].role /\ jobs'[q].cap = jobs[q].cap
<1>1. jobs \in [Req -> Job]
  BY DEF Shape
<1>2. ASSUME NEW p \in Req
      PROVE  /\ a \in jobs[p].addr => jobs'[p] = [jobs[p] EXCEPT !.stale = TRUE]
             /\ a \notin jobs[p].addr => jobs'[p] = jobs[p]
             /\ [jobs[p] EXCEPT !.stale = TRUE] \in Job
  BY <1>1 DEF MarkStale, Job
<1>3. jobs' \in [Req -> Job]
  BY <1>1, <1>2 DEF MarkStale
<1>4. jobs[q] \in Job
  BY <1>1
<1>5. CASE a \in jobs[q].addr
  <2>1. jobs'[q] = [jobs[q] EXCEPT !.stale = TRUE]
    BY <1>2, <1>5
  <2>2. QED BY <2>1, <1>3, <1>4, <1>5 DEF Job
<1>6. CASE a \notin jobs[q].addr
  BY <1>2, <1>3, <1>6
<1>7. QED BY <1>5, <1>6

(* What the requests' invariants need when a row of address a changes.     *)
LEMMA MarkedKeeps ==
    ASSUME IInv, NEW a, MarkStale(a), UNCHANGED <<tenant, users, lock, odd>>,
           boxes' \in Seq(Row), OneBox', SourceMatchesClass',
           Len(boxes') = Len(boxes) \/ Len(boxes') = Len(boxes) - 1,
           \A j : Fresh(j) /\ a \notin j.addr => Fresh(j)'
    PROVE  IInv'
<1>1. \A q \in Req : /\ jobs' \in [Req -> Job]
                     /\ a \in jobs[q].addr => jobs'[q].stale
                     /\ a \notin jobs[q].addr => jobs'[q] = jobs[q]
                     /\ jobs'[q].pc = jobs[q].pc /\ jobs'[q].kind = jobs[q].kind
                     /\ jobs'[q].addr = jobs[q].addr /\ jobs'[q].class = jobs[q].class
                     /\ jobs'[q].role = jobs[q].role /\ jobs'[q].cap = jobs[q].cap
  BY MarkKeeps DEF IInv
<1>2. /\ Len(boxes) \in Nat /\ Len(boxes') <= Len(boxes) /\ Len(boxes') \in Nat
      /\ MailboxCapacity(tenant) \in Nat /\ (Tame' <=> Tame)
  BY LenProperties, Workplace DEF IInv, Shape, Tame
<1>3. SeatsFit'
  BY <1>2 DEF IInv, SeatsFit
<1>4. ASSUME NEW q \in Req PROVE (Sound(jobs[q]) /\ Fresh(jobs[q]) /\ Counted(q))'
  <2>1. Sound(jobs[q])'
    BY <1>1 DEF Sound, IInv
  <2>2. Fresh(jobs[q])'
    <3>1. CASE a \in jobs[q].addr
      BY <1>1, <3>1 DEF Fresh
    <3>2. CASE a \notin jobs[q].addr
      <4>1. PICK j : j = jobs[q]
        OBVIOUS
      <4>2. Fresh(j)'
        BY <3>2, <4>1 DEF IInv
      <4>3. QED BY <1>1, <3>2, <4>1, <4>2 DEF Fresh
    <3>3. QED BY <3>1, <3>2
  <2>3. Counted(q)'
    <3>1. Counted(q)
      BY DEF IInv
    <3>2. QED BY <1>1, <1>2, <3>1 DEF Counted
  <2>4. QED BY <2>1, <2>2, <2>3
<1>5. Shape'
  <2>1. jobs' \in [Req -> Job]
    <3>1. jobs' = [q \in Req |-> jobs'[q]]
      BY DEF MarkStale
    <3>2. \A q \in Req : jobs'[q] \in Job
      BY <1>1
    <3>3. QED BY <3>1, <3>2
  <2>2. QED BY <2>1 DEF IInv, Shape
<1>6. QED BY <1>3, <1>4, <1>5 DEF IInv

(* A mailbox is removed.                                                   *)
LEMMA RemoveKeeps ==
    ASSUME IInv, NEW a \in Addr, Remove(a)
    PROVE  IInv' /\ a \in Boxed /\ a \notin Boxed'
<1>1. PICK i : i = At(a)
  OBVIOUS
<1>2. /\ a \in Boxed /\ i \in 1..Len(boxes) /\ boxes[i].addr = a
      /\ boxes' = SubSeq(boxes, 1, i - 1) \o SubSeq(boxes, i + 1, Len(boxes))
      /\ MarkStale(a) /\ UNCHANGED <<tenant, users, lock, odd>>
      /\ Shape /\ OneBox
  BY <1>1, AtIsThere DEF Remove, IInv
<1>3. /\ boxes' \in Seq(Row)
      /\ Len(boxes') = Len(boxes) - 1
      /\ \A k \in 1..Len(boxes') : \E l \in 1..Len(boxes) : l # i /\ boxes'[k] = boxes[l]
      /\ OneBox'
      /\ a \notin Boxed'
  BY <1>2, RowRemoved
<1>4. \A j : Fresh(j) /\ a \notin j.addr => Fresh(j)'
  BY <1>2, RemovedKeepsFresh
<1>5. SourceMatchesClass'
  <2>1. SUFFICES ASSUME "reclassed" \notin odd, NEW k \in 1..Len(boxes')
                 PROVE  boxes'[k].via \in {"none", Strategy(boxes'[k].class)}
    BY <1>2 DEF SourceMatchesClass, Strategy
  <2>2. PICK l \in 1..Len(boxes) : boxes'[k] = boxes[l]
    BY <1>3
  <2>3. QED BY <2>1, <2>2 DEF IInv, SourceMatchesClass
<1>6. QED BY <1>2, <1>3, <1>4, <1>5, MarkedKeeps

(* A mailbox changes its class, and with it how it is read.                *)
LEMMA ReclassKeeps ==
    ASSUME IInv, NEW a \in Addr, NEW class \in Class, Reclass(a, class)
    PROVE  IInv' /\ Boxed' = Boxed /\ Len(boxes') = Len(boxes)
           /\ \A k \in 1..Len(boxes) : boxes'[k].addr = boxes[k].addr
<1>1. PICK i : i = At(a)
  OBVIOUS
<1>2. /\ a \in Boxed /\ i \in 1..Len(boxes) /\ boxes[i].addr = a
      /\ MarkStale(a) /\ UNCHANGED <<tenant, users, lock, odd>>
      /\ Shape /\ OneBox /\ boxes \in Seq(Row)
  BY <1>1, AtIsThere DEF Reclass, IInv, Shape
<1>3. boxes[i] \in Row
  BY <1>2, ElementOfSeq
<1>4. PICK box : box = [boxes[i] EXCEPT !.class = class, !.via = Via(@, class)]
  OBVIOUS
<1>5. /\ box \in Row /\ box.addr = boxes[i].addr /\ box.class = class
      /\ box.via = Via(boxes[i].via, class)
  BY <1>3, <1>4 DEF Row, Via, Strategy
<1>6. boxes' = [boxes EXCEPT ![i] = box]
  <2>1. boxes' = [boxes EXCEPT ![i].class = class, ![i].via = Via(@, class)]
    BY <1>1 DEF Reclass
  <2>2. QED BY <2>1, <1>2, <1>3, <1>4 DEF Row
<1>7. /\ boxes' \in Seq(Row) /\ Len(boxes') = Len(boxes) /\ boxes'[i] = box
      /\ \A k \in 1..Len(boxes) : k # i => boxes'[k] = boxes[k]
      /\ \A k \in 1..Len(boxes) : boxes'[k].addr = boxes[k].addr
      /\ OneBox' /\ Boxed' = Boxed
  BY <1>2, <1>5, <1>6, RowChanged
<1>8. \A j : Fresh(j) /\ a \notin j.addr => Fresh(j)'
  BY <1>2, <1>5, <1>6, ChangedKeepsFresh
<1>9. SourceMatchesClass'
  <2>1. SUFFICES ASSUME "reclassed" \notin odd, NEW k \in 1..Len(boxes)
                 PROVE  boxes'[k].via \in {"none", Strategy(boxes'[k].class)}
    BY <1>2, <1>7 DEF SourceMatchesClass, Strategy
  <2>2. CASE k = i
    BY <2>2, <1>5, <1>7 DEF Via
  <2>3. CASE k # i
    BY <2>1, <2>3, <1>7 DEF IInv, SourceMatchesClass
  <2>4. QED BY <2>2, <2>3
<1>10. IInv'
  BY <1>2, <1>7, <1>8, <1>9, MarkedKeeps
<1>11. QED BY <1>7, <1>10

(* What changes neither mailboxes nor requests.                            *)
LEMMA LoginsChangeKeeps ==
    ASSUME IInv, UNCHANGED <<tenant, boxes, jobs, lock, odd>>,
           users' \in [Addr -> [role : {"none", "member", "admin"},
                                status : {"none", "pending", "active"}]]
    PROVE  IInv'
<1>1. /\ OneBox' /\ SeatsFit' /\ SourceMatchesClass'
      /\ \A j : Fresh(j) => Fresh(j)'
  BY RowsStay
<1>2. Shape'
  BY DEF IInv, Shape
<1>3. ASSUME NEW q \in Req PROVE (Sound(jobs[q]) /\ Fresh(jobs[q]) /\ Counted(q))'
  <2>1. PICK j : j = jobs[q]
    OBVIOUS
  <2>2. Fresh(j)'
    BY <1>1, <2>1 DEF IInv
  <2>3. Fresh(jobs[q])'
    BY <2>1, <2>2 DEF Fresh
  <2>4. Sound(jobs[q])' /\ Counted(q)'
    BY DEF Sound, Counted, Tame, IInv
  <2>5. QED BY <2>3, <2>4
<1>4. QED BY <1>1, <1>2, <1>3 DEF IInv

(* The entitlement changes; when the capacity shrinks, that is noted.      *)
LEMMA PlanMovesKeeps ==
    ASSUME IInv, NEW t \in Plans, PlanMoves(t)
    PROVE  IInv'
<1>1. /\ tenant' = t /\ UNCHANGED <<boxes, users, jobs, lock>>
      /\ odd' = IF MailboxCapacity(t) < MailboxCapacity(tenant) THEN odd \cup {"shrunk"} ELSE odd
      /\ MailboxCapacity(t) \in Nat /\ MailboxCapacity(tenant) \in Nat /\ Len(boxes) \in Nat
  BY LenProperties, Workplace DEF PlanMoves, IInv, Shape
<1>2. Tame' => Tame /\ MailboxCapacity(tenant) <= MailboxCapacity(tenant')
  BY <1>1 DEF Tame
<1>3. Shape' /\ OneBox'
  BY <1>1 DEF IInv, Shape, OneBox
<1>4. SourceMatchesClass'
  <2>1. "reclassed" \in odd => "reclassed" \in odd'
    BY <1>1
  <2>2. QED BY <2>1, <1>1 DEF IInv, SourceMatchesClass
<1>5. SeatsFit'
  BY <1>1, <1>2 DEF IInv, SeatsFit, Tame
<1>6. ASSUME NEW q \in Req PROVE (Sound(jobs[q]) /\ Fresh(jobs[q]) /\ Counted(q))'
  <2>1. Sound(jobs[q])'
    BY <1>1 DEF Sound, IInv
  <2>2. Protected' = Protected /\ Boxed' = Boxed
    BY <1>1 DEF Protected, Boxed
  <2>3. Fresh(jobs[q])'
    BY <1>1, <2>2 DEF Fresh, IInv
  <2>4. jobs[q].cap \in Nat
    BY DEF IInv, Shape, Job
  <2>5. Counted(q)'
    BY <1>1, <1>2, <2>4 DEF Counted, IInv
  <2>6. QED BY <2>1, <2>3, <2>5
<1>7. QED BY <1>3, <1>4, <1>5, <1>6 DEF IInv

-----------------------------------------------------------------------------
(* The theorems                                                            *)

(* The invariant holds at first.                                           *)
LEMMA InitHolds == ASSUME Init PROVE IInv
<1>1. /\ tenant \in Plans /\ boxes = <<>> /\ users = [a \in Addr |-> NoUser]
      /\ jobs = [r \in Req |-> Idle] /\ lock = Nobody
      /\ Len(boxes) = 0
  BY DEF Init
<1>2. Idle \in Job
  BY DEF Idle, Job, Class
<1>3. Shape
  BY <1>1, <1>2 DEF Shape, NoUser
<1>4. OneBox /\ SourceMatchesClass
  BY <1>1 DEF OneBox, SourceMatchesClass
<1>5. SeatsFit
  BY <1>1, Workplace DEF SeatsFit
<1>6. ASSUME NEW r \in Req PROVE Sound(jobs[r]) /\ Fresh(jobs[r]) /\ Counted(r)
  BY <1>1 DEF Sound, Fresh, Counted, Idle
<1>7. QED BY <1>3, <1>4, <1>5, <1>6 DEF IInv

(* Mailboxes that keep their places keep their protection.                 *)
LEMMA PlacesKeepWatch ==
    ASSUME Shape, tenant' = tenant, boxes' \in Seq(Row), MailboxCapacity(tenant) \in Nat,
           \A i \in 1..Len(boxes) : i \in 1..Len(boxes') /\ boxes'[i].addr = boxes[i].addr
    PROVE  Watched \subseteq Watched'
<1>1. Len(boxes) \in Nat /\ Len(boxes') \in Nat
  BY LenProperties DEF Shape
<1>2. Watched = {boxes[i].addr : i \in {k \in 1..Len(boxes) : k <= MailboxCapacity(tenant)}}
  BY <1>1 DEF Watched, EntitledMailboxes
<1>3. Watched' = {boxes'[i].addr : i \in {k \in 1..Len(boxes') : k <= MailboxCapacity(tenant)}}
  BY <1>1 DEF Watched, EntitledMailboxes
<1>4. ASSUME NEW b \in Watched PROVE b \in Watched'
  <2>1. PICK i \in 1..Len(boxes) : i <= MailboxCapacity(tenant) /\ b = boxes[i].addr
    BY <1>2
  <2>2. i \in 1..Len(boxes') /\ b = boxes'[i].addr
    BY <2>1
  <2>3. QED BY <2>1, <2>2, <1>3
<1>5. QED BY <1>4

(* A request that begins or waits for a seat leaves the rows and logins.   *)
LEMMA QuietSteps ==
    ASSUME NEW r \in Req,
           \/ \E a \in Addr, class \in Class : Add(r, a, class)
           \/ \E pasted \in SUBSET Addr : AddBulk(r, pasted)
           \/ \E a \in Addr, as \in {"member", "admin"} : Create(r, a, as)
           \/ \E a \in Addr : Approve(r, a) \/ Connect(r, a)
           \/ CountSeats(r)
    PROVE  UNCHANGED <<tenant, boxes, users>>
BY DEF Add, AddBulk, Create, Approve, Connect, CountSeats, Begins

(* Every step keeps the invariant, protects the logins it grants and takes *)
(* no protection away.                                                     *)
LEMMA StepHolds ==
    ASSUME IInv, [Next]_vars
    PROVE  IInv' /\ LoginIsProtectedStep /\ AddingDisplacesNobodyStep
<1> DEFINE Goal == IInv' /\ LoginIsProtectedStep /\ AddingDisplacesNobodyStep
<1>1. Shape /\ MailboxCapacity(tenant) \in Nat /\ boxes \in Seq(Row)
  BY Workplace DEF IInv, Shape
<1>2. ASSUME UNCHANGED users PROVE LoginIsProtectedStep
  BY <1>2 DEF LoginIsProtectedStep, Active
<1>3. ASSUME UNCHANGED boxes PROVE AddingDisplacesNobodyStep
  BY <1>1, <1>3, PlacesKeepWatch DEF AddingDisplacesNobodyStep
<1>4. ASSUME boxes' \in Seq(Row), Len(boxes) \in Nat,
             \A i \in 1..Len(boxes) : i \in 1..Len(boxes') /\ boxes'[i].addr = boxes[i].addr
      PROVE  AddingDisplacesNobodyStep
  BY <1>1, <1>4, PlacesKeepWatch DEF AddingDisplacesNobodyStep
<1>5. ASSUME NEW r \in Req,
             \/ \E a \in Addr, class \in Class : Add(r, a, class)
             \/ \E pasted \in SUBSET Addr : AddBulk(r, pasted)
             \/ \E a \in Addr, as \in {"member", "admin"} : Create(r, a, as)
             \/ \E a \in Addr : Approve(r, a) \/ Connect(r, a)
             \/ CountSeats(r)
      PROVE  Goal
  <2>1. IInv'
    BY <1>5, AddKeeps, AddBulkKeeps, CreateKeeps, ApproveKeeps, ConnectKeeps, CountSeatsKeeps
  <2>2. UNCHANGED <<tenant, boxes, users>>
    BY <1>5, QuietSteps
  <2>3. QED BY <2>1, <2>2, <1>2, <1>3
<1>6. ASSUME NEW r \in Req, InsertBoxes(r) PROVE Goal
  <2>1. IInv' /\ LoginIsProtectedStep
    BY <1>6, InsertBoxesKeeps
  <2>2. boxes' \in Seq(Row)
    BY <2>1 DEF IInv, Shape
  <2>3. CASE UNCHANGED boxes
    BY <2>1, <2>3, <1>3
  <2>4. CASE boxes' = boxes \o NewBoxes(r)
    <3>1. jobs[r].class \in Class
      BY <1>6 DEF InsertBoxes, IInv, Sound
    <3>2. NewBoxes(r) \in Seq(Row)
      BY <3>1, <1>1, NewBoxesRows
    <3>3. \A i \in 1..Len(boxes) : i \in 1..Len(boxes') /\ boxes'[i] = boxes[i]
      BY <2>4, <3>2, <1>1, ConcatProperties, LenProperties
    <3>4. QED BY <2>1, <2>2, <3>3, <1>1, <1>4, LenProperties
  <2>5. QED BY <2>3, <2>4, <1>6 DEF InsertBoxes
<1>7. ASSUME NEW r \in Req, GrantLogin(r) PROVE Goal
  <2>1. UNCHANGED boxes
    BY <1>7 DEF GrantLogin
  <2>2. QED BY <2>1, <1>3, <1>7, GrantLoginKeeps
<1>8. ASSUME NEW r \in Req, StoreConnection(r) PROVE Goal
  <2>1. IInv' /\ UNCHANGED users
    BY <1>8, StoreConnectionKeeps DEF StoreConnection
  <2>2. AddingDisplacesNobodyStep
    <3>1. CASE UNCHANGED boxes
      BY <3>1, <1>3
    <3>2. CASE ~UNCHANGED boxes
      <4>1. PICK i \in 1..Len(boxes) :
                boxes' = [boxes EXCEPT ![i].via = Strategy(jobs[r].class)]
        BY <1>8, <3>2 DEF StoreConnection
      <4>2. boxes[i] \in Row
        BY <1>1, ElementOfSeq
      <4>3. PICK box : box = [boxes[i] EXCEPT !.via = Strategy(jobs[r].class)]
        OBVIOUS
      <4>4. box \in Row /\ box.addr = boxes[i].addr /\ boxes' = [boxes EXCEPT ![i] = box]
        BY <4>1, <4>2, <4>3 DEF Row, Strategy
      <4>5. /\ boxes' \in Seq(Row) /\ Len(boxes') = Len(boxes)
            /\ \A k \in 1..Len(boxes) : boxes'[k].addr = boxes[k].addr
        BY <4>4, <1>1, RowChanged DEF IInv
      <4>6. QED BY <4>5, <1>1, <1>4, LenProperties
    <3>3. QED BY <3>1, <3>2
  <2>3. QED BY <2>1, <2>2, <1>2
<1>9. ASSUME NEW a \in Addr, Remove(a) PROVE Goal
  <2>1. IInv' /\ ~(Boxed \subseteq Boxed')
    BY <1>9, RemoveKeeps
  <2>2. AddingDisplacesNobodyStep
    BY <2>1 DEF AddingDisplacesNobodyStep
  <2>3. UNCHANGED users
    BY <1>9 DEF Remove
  <2>4. QED BY <2>1, <2>2, <2>3, <1>2
<1>10. ASSUME NEW a \in Addr, NEW class \in Class, Reclass(a, class) PROVE Goal
  <2>1. /\ IInv' /\ Len(boxes') = Len(boxes)
        /\ \A k \in 1..Len(boxes) : boxes'[k].addr = boxes[k].addr
    BY <1>10, ReclassKeeps
  <2>2. UNCHANGED users /\ boxes' \in Seq(Row)
    BY <2>1, <1>10 DEF Reclass, IInv, Shape
  <2>3. QED BY <2>1, <2>2, <1>1, <1>2, <1>4, LenProperties
<1>11. ASSUME NEW a \in Addr, JoinRequest(a) PROVE Goal
  <2>1. users' = [users EXCEPT ![a] = [role |-> "member", status |-> "pending"]]
        /\ UNCHANGED <<tenant, boxes, jobs, lock, odd>>
    BY <1>11 DEF JoinRequest
  <2>2. IInv'
    BY <2>1, LoginsChangeKeeps DEF IInv, Shape
  <2>3. LoginIsProtectedStep
    BY <2>1 DEF LoginIsProtectedStep, Active, IInv, Shape
  <2>4. QED BY <2>1, <2>2, <2>3, <1>3
<1>12. ASSUME NEW a \in Addr, Reject(a) PROVE Goal
  <2>1. users' = [users EXCEPT ![a] = NoUser] /\ UNCHANGED <<tenant, boxes, jobs, lock, odd>>
    BY <1>12 DEF Reject
  <2>2. IInv'
    BY <2>1, LoginsChangeKeeps DEF IInv, Shape, NoUser
  <2>3. LoginIsProtectedStep
    BY <2>1 DEF LoginIsProtectedStep, Active, IInv, Shape, NoUser
  <2>4. QED BY <2>1, <2>2, <2>3, <1>3
<1>13. ASSUME NEW t \in Plans, PlanMoves(t) PROVE Goal
  <2>1. UNCHANGED <<users, boxes>> /\ tenant' # tenant
    BY <1>13 DEF PlanMoves
  <2>2. QED BY <2>1, <1>2, <1>3, <1>13, PlanMovesKeeps
<1>14. CASE UNCHANGED vars
  <2>1. UNCHANGED <<tenant, boxes, users, jobs, lock, odd>>
    BY <1>14 DEF vars
  <2>2. IInv'
    BY <2>1, LoginsChangeKeeps DEF IInv, Shape
  <2>3. QED BY <2>1, <2>2, <1>2, <1>3
<1>15. QED
  BY <1>5, <1>6, <1>7, <1>8, <1>9, <1>10, <1>11, <1>12, <1>13, <1>14 DEF Next

(* The invariant covers the type invariant: an address has one mailbox.    *)
LEMMA TypesHold == ASSUME IInv PROVE TypeOK
<1>1. boxes \in Seq(Row) /\ Len(boxes) \in Nat /\ boxes \in [1..Len(boxes) -> Row]
  BY LenProperties DEF IInv, Shape
<1>2. \A i \in 1..Len(boxes) : boxes[i] \in [addr : Addr, class : Class, via : {"none", "idle", "poll"}]
  BY <1>1 DEF Row
<1>3. Cardinality(Boxed) = Len(boxes)
  <2>1. PICK f : f = [i \in 1..Len(boxes) |-> boxes[i].addr]
    OBVIOUS
  <2>2. f \in [1..Len(boxes) -> Boxed] /\ \A a \in Boxed : \E i \in 1..Len(boxes) : f[i] = a
    BY <2>1 DEF Boxed
  <2>3. f \in Surjection(1..Len(boxes), Boxed)
    BY <2>2, Fun_IsSurj
  <2>4. \A i, j \in 1..Len(boxes) : f[i] = f[j] => i = j
    BY <2>1 DEF IInv, OneBox
  <2>5. f \in Injection(1..Len(boxes), Boxed)
    BY <2>2, <2>4 DEF Injection, IsInjective
  <2>6. IsFiniteSet(1..Len(boxes)) /\ Cardinality(1..Len(boxes)) = Len(boxes)
    BY <1>1, FS_Interval
  <2>7. Cardinality(Boxed) = Cardinality(1..Len(boxes))
    BY <2>3, <2>5, <2>6, FS_Surjection
  <2>8. QED BY <2>6, <2>7
<1>4. \A r \in Req : jobs[r].pc \in {"idle", "count", "insert", "grant", "probe"}
  BY DEF IInv, Shape, Job
<1>5. QED BY <1>2, <1>3, <1>4 DEF IInv, Shape, TypeOK

(* For any number of addresses, administrators, plans and requests: the    *)
(* workspace never holds more mailboxes than it pays for while nobody      *)
(* pastes a list and the capacity does not shrink, an address has one      *)
(* mailbox, and a connected one is read the way its class asks for unless  *)
(* the class changed while the connection was tried (api/tenants.py,       *)
(* _require_mailbox_capacity, add_mailbox, approve_member, connect_imap).  *)
THEOREM SeatsNeverOversoldHolds ==
    Spec => []SeatsNeverOversold
<1>1. Init => IInv
  BY InitHolds
<1>2. IInv /\ [Next]_vars => IInv'
  BY StepHolds
<1>3. IInv => SeatsNeverOversold
  BY TypesHold DEF IInv, SeatsNeverOversold
<1>4. QED BY <1>1, <1>2, <1>3, PTL DEF Spec

(* A mailbox that is added takes the protection away from none, and a      *)
(* member who is given a login is protected, unless the mailbox was        *)
(* removed or reclassed at that moment (api/tenants.py,                    *)
(* _assert_can_grant_login, approve_member; billing/entitlement.py).       *)
THEOREM ProtectionIsKeptHolds ==
    Spec => ProtectionIsKept
<1>1. Init => IInv
  BY InitHolds
<1>2. IInv /\ [Next]_vars => IInv'
  BY StepHolds
<1>3. IInv /\ [Next]_vars => [AddingDisplacesNobodyStep /\ LoginIsProtectedStep]_vars
  BY StepHolds
<1>4. QED BY <1>1, <1>2, <1>3, PTL DEF Spec, ProtectionIsKept

-----------------------------------------------------------------------------
(* Accounts: sessions and second factors                                   *)

(* What each variable holds.                                               *)
TokenTypes == {"challenge", "access", "refresh", "reset"}
RequestKinds == {"none", "login", "skip", "verify", "recover", "enrol", "activate", "disable",
                 "change", "reset", "refresh"}
Login == [pw : Nat, mfa : BOOLEAN, secret : 0..MaxSecrets, codes : SUBSET Accounts!Code]
Token == [typ : TokenTypes, iat : Nat, auth : Nat, slip : BOOLEAN]
Kept == [cut : Nat, used : SUBSET Nat]
SessionJob == [pc : {"idle", "loaded", "mint"}, kind : RequestKinds, tok : Nat, start : Nat,
               code : Nat, seen : Login]

(* Every variable keeps its shape.                                         *)
AccountsShape ==
    /\ user \in Login
    /\ tokens \in Seq(Token) /\ Len(tokens) <= MaxTokens
    /\ shared \in Kept /\ local \in Kept
    /\ accUp \in BOOLEAN /\ accNow \in Nat /\ ended \in Nat /\ ended < accNow
    /\ accJobs \in [Req -> SessionJob]
    /\ pairs \in [1..MaxTokens -> Nat]
    /\ accSpent \in [requests : Nat, secrets : 0..MaxSecrets, outages : Nat]

(* A token was issued in the past, and not at the instant of a sign-out.   *)
Stamped == \A i \in 1..Len(tokens) : tokens[i].iat < accNow /\ tokens[i].iat # ended

(* No store stamps a cutoff that is later than the last sign-out, and what *)
(* it has marked as used was exchanged.                                    *)
Cuts ==
    /\ shared.cut <= ended /\ local.cut <= ended
    /\ shared.used \subseteq 1..Len(tokens) /\ local.used \subseteq 1..Len(tokens)
    /\ \A i \in shared.used \cup local.used : pairs[i] > 0

(* What a request remembers of the token it came with and of the login.    *)
Asked(j) ==
    /\ j.pc = "idle" => j.kind = "none"
    /\ j.start <= accNow /\ j.tok <= Len(tokens)
    /\ j.pc = "mint" => j.kind = "refresh"
    /\ j.kind \in {"skip", "verify", "recover"} => j.tok \in Accounts!OfType("challenge")
    /\ j.kind = "refresh" => j.tok \in Accounts!OfType("refresh")
    /\ j.kind = "reset" => j.tok \in Accounts!OfType("reset")
    /\ j.kind \in {"verify", "activate"} => j.seen.secret # 0
    /\ j.kind = "recover" => j.seen.codes # {}

Requests == \A r \in Req : Asked(accJobs[r])

(* While Redis answers, the cutoff is the last sign-out, and a session     *)
(* that is older than it either carries the mark of the race the model     *)
(* names or is cut off; a token that was exchanged is marked as used.      *)
Steady ==
    accOdd \cap {"outage", "failover"} = {} =>
      /\ accUp /\ shared.cut = ended
      /\ \A i \in Accounts!Session : tokens[i].iat > ended /\ tokens[i].auth < ended => tokens[i].slip
      /\ \A r \in Req : accJobs[r].kind = "refresh" /\ accJobs[r].start > ended
                        => tokens[accJobs[r].tok].iat > ended
      /\ \A i \in 1..MaxTokens : pairs[i] > 0 => i \in shared.used

(* Unless two requests exchange one token side by side, each is exchanged  *)
(* once, and a reset in progress has its link to itself.                   *)
Single ==
    accOdd \cap {"outage", "failover", "double"} = {} =>
      /\ \A i \in 1..MaxTokens : pairs[i] <= 1
      /\ \A r \in Req : accJobs[r].kind = "reset" => accJobs[r].tok \notin shared.used

(* The inductive invariant of Accounts.                                    *)
SessionsInv == AccountsShape /\ Stamped /\ Cuts /\ Requests /\ Steady /\ Single /\ Accounts!FactorConsistent
-----------------------------------------------------------------------------
Others(j, k) == j = Accounts!Idle \/ j = k

(* What most commits do: a request ends, and no token changes but new ones.*)
Grows ==
    /\ tokens' \in Seq(Token) /\ Len(tokens) <= Len(tokens') /\ Len(tokens') <= MaxTokens
    /\ \A i \in 1..Len(tokens) : tokens'[i] = tokens[i]
    /\ \A i \in 1..Len(tokens') : i > Len(tokens) =>
         /\ tokens'[i].iat = accNow /\ accNow < accNow'
         /\ accOdd \cap {"outage", "failover"} = {} =>
              (tokens'[i].typ \in {"access", "refresh"} /\ tokens'[i].auth < ended => tokens'[i].slip)
    /\ accNow \in Nat /\ accNow' \in Nat /\ accNow <= accNow' /\ accOdd \subseteq accOdd'
    /\ UNCHANGED <<shared, local, accUp, ended, pairs>>
    /\ accJobs' \in [Req -> SessionJob] /\ \A r \in Req : Others(accJobs'[r], accJobs[r])

(* What a token on the list is.                                            *)
LEMMA TokenTyped ==
  ASSUME AccountsShape, NEW i \in 1..Len(tokens)
  PROVE  tokens[i] \in Token /\ tokens[i].iat \in Nat /\ tokens[i].auth \in Nat
         /\ tokens[i].typ \in TokenTypes /\ tokens[i].slip \in BOOLEAN
<1>1. tokens[i] \in Token
  BY ElementOfSeq DEF AccountsShape
<1> QED
  BY <1>1 DEF Token

(* A request names its token by its number.                                *)
LEMMA JobTok == ASSUME AccountsShape, NEW r \in Req PROVE accJobs[r].tok \in Nat
  BY DEF AccountsShape, SessionJob

(* No request is a request of its type.                                    *)
LEMMA IdleTyped == Accounts!Idle \in SessionJob
  BY AccountsBounds DEF Accounts!Idle, SessionJob, Login, RequestKinds, Accounts!NoToken

(* No request remembers anything.                                          *)
LEMMA IdleAsks == ASSUME accNow \in Nat, Len(tokens) \in Nat PROVE Asked(Accounts!Idle)
  BY DEF Accounts!Idle, Asked, Accounts!NoToken

(* Nobody is signed in at the start.                                       *)
LEMMA SessionsStart == Accounts!Init => SessionsInv
<1> SUFFICES ASSUME Accounts!Init PROVE SessionsInv
  OBVIOUS
<1>1. tokens = <<>> /\ Len(tokens) = 0
  BY DEF Accounts!Init
<1>2. AccountsShape
  BY <1>1, IdleTyped, AccountsBounds DEF Accounts!Init, AccountsShape, Login, Kept, Token
<1>3. Stamped /\ Cuts /\ Accounts!FactorConsistent
  BY <1>1 DEF Accounts!Init, Stamped, Cuts, Accounts!FactorConsistent
<1>4. Requests
  BY <1>1, IdleAsks DEF Accounts!Init, Requests
<1>5. Steady /\ Single
  BY <1>1 DEF Accounts!Init, Steady, Single, Accounts!Session, Accounts!OfType, Accounts!Idle
<1> QED
  BY <1>2, <1>3, <1>4, <1>5 DEF SessionsInv

(* A token keeps its type while others are added.                          *)
LEMMA OfTypeGrows ==
  ASSUME AccountsShape, Grows, NEW t PROVE Accounts!OfType(t) \subseteq Accounts!OfType(t)'
  BY DEF AccountsShape, Grows, Accounts!OfType

(* A commit that only issues tokens keeps the invariant.                   *)
LEMMA GrowsKeeps ==
  ASSUME SessionsInv, Grows PROVE Stamped' /\ Cuts' /\ Requests' /\ Steady' /\ Single'
<1> USE DEF SessionsInv
<1>0. Len(tokens) \in Nat /\ Len(tokens') \in Nat /\ accNow \in Nat
  BY DEF AccountsShape, Grows
<1>1. Stamped'
  <2> SUFFICES ASSUME NEW i \in 1..Len(tokens')
               PROVE  tokens'[i].iat < accNow' /\ tokens'[i].iat # ended'
    BY DEF Stamped
  <2>1. CASE i > Len(tokens)
    BY <2>1, <1>0 DEF Grows, AccountsShape
  <2>2. CASE ~(i > Len(tokens))
    <3>1. i \in 1..Len(tokens) /\ tokens'[i] = tokens[i] /\ tokens[i].iat \in Nat
      BY <2>2, <1>0, TokenTyped DEF Grows
    <3> QED
      BY <3>1, <1>0 DEF Grows, Stamped
  <2> QED
    BY <2>1, <2>2
<1>2. Cuts'
  BY <1>0 DEF AccountsShape, Grows, Cuts
<1>3. Requests'
  <2>1. ASSUME NEW r \in Req PROVE Asked(accJobs[r])'
    <3>1. CASE accJobs'[r] = Accounts!Idle
      BY <3>1, <1>0 DEF Grows, Asked, Accounts!Idle, Accounts!NoToken
    <3>2. CASE accJobs'[r] = accJobs[r]
      <4>1. Asked(accJobs[r]) /\ accJobs[r].start \in Nat
        BY DEF Requests, AccountsShape, SessionJob
      <4> QED
        BY <3>2, <4>1, <1>0, OfTypeGrows, JobTok DEF Asked, Grows
    <3> QED
      BY <3>1, <3>2 DEF Grows, Others
  <2> QED
    BY <2>1 DEF Requests
<1>4. Steady'
  <2> SUFFICES ASSUME accOdd' \cap {"outage", "failover"} = {} PROVE Steady'
    BY DEF Steady
  <2>0. accOdd \cap {"outage", "failover"} = {}
    BY DEF Grows
  <2>1. accUp' /\ shared'.cut = ended' /\ \A i \in 1..MaxTokens : pairs'[i] > 0 => i \in shared'.used
    BY <2>0 DEF Grows, Steady
  <2>2. ASSUME NEW i \in Accounts!Session', tokens'[i].iat > ended', tokens'[i].auth < ended'
        PROVE tokens'[i].slip
    <3>1. i \in 1..Len(tokens') /\ tokens'[i].typ \in {"access", "refresh"}
      BY DEF Accounts!Session, Accounts!OfType
    <3>2. CASE i > Len(tokens)
      BY <2>0, <2>2, <3>1, <3>2 DEF Grows
    <3>3. CASE ~(i > Len(tokens))
      <4>1. i \in 1..Len(tokens) /\ tokens'[i] = tokens[i]
        BY <3>1, <3>3, <1>0 DEF Grows
      <4> QED
        BY <2>0, <2>2, <3>1, <4>1 DEF Steady, Accounts!Session, Accounts!OfType, Grows
    <3> QED
      BY <3>2, <3>3
  <2>3. ASSUME NEW r \in Req, accJobs'[r].kind = "refresh", accJobs'[r].start > ended'
        PROVE tokens'[accJobs'[r].tok].iat > ended'
    <3>1. accJobs'[r] = accJobs[r]
      BY <2>3 DEF Grows, Others, Accounts!Idle
    <3>2. accJobs[r].tok \in 1..Len(tokens)
      BY <2>3, <3>1 DEF Requests, Asked, Accounts!OfType
    <3> QED
      BY <2>0, <2>3, <3>1, <3>2 DEF Steady, Grows
  <2> QED
    BY <2>1, <2>2, <2>3 DEF Steady
<1>5. Single'
  BY DEF Single, Grows, Others, Accounts!Idle
<1> QED
  BY <1>1, <1>2, <1>3, <1>4, <1>5

(* Signing out stamps the cutoff with an instant no token was issued at.   *)
LEMMA SignOutKeeps ==
  ASSUME SessionsInv, Accounts!SignsEveryoneOut, UNCHANGED <<tokens, accUp, pairs>>,
         accJobs' \in [Req -> SessionJob], \A r \in Req : Others(accJobs'[r], accJobs[r])
  PROVE  /\ shared' \in Kept /\ local' \in Kept /\ accNow' \in Nat /\ ended' \in Nat
         /\ ended' < accNow' /\ accOdd \subseteq accOdd'
         /\ Stamped' /\ Cuts' /\ Requests' /\ Steady' /\ Single'
<1> USE DEF SessionsInv
<1>0. accNow \in Nat /\ ended \in Nat /\ ended < accNow /\ accNow' = accNow + 1 /\ ended' = accNow
      /\ Len(tokens) \in Nat
  BY DEF AccountsShape, Accounts!SignsEveryoneOut
<1>1. \/ /\ accUp /\ shared' = [shared EXCEPT !.cut = accNow] /\ local' = local /\ accOdd' = accOdd
      \/ /\ ~accUp /\ local' = [local EXCEPT !.cut = accNow] /\ shared' = shared
         /\ accOdd' = accOdd \cup {"outage"}
  BY DEF Accounts!SignsEveryoneOut, Accounts!Keep, Accounts!Store, Accounts!Cutoff
<1>2. /\ shared' \in Kept /\ local' \in Kept
      /\ shared'.used = shared.used /\ local'.used = local.used
      /\ shared'.cut <= accNow /\ local'.cut <= accNow
      /\ accOdd' \cap {"outage", "failover"} = {} => shared'.cut = accNow
  BY <1>0, <1>1 DEF AccountsShape, Kept, Cuts, Steady
<1>3. Stamped' /\ Cuts'
  <2>1. \A i \in 1..Len(tokens) : tokens[i].iat \in Nat
    BY TokenTyped
  <2>2. Stamped'
    BY <1>0, <2>1 DEF Stamped
  <2>3. Cuts'
    BY <1>0, <1>2 DEF Cuts
  <2> QED BY <2>2, <2>3
<1>4. Requests'
  <2>1. ASSUME NEW r \in Req PROVE Asked(accJobs[r])'
    <3>1. CASE accJobs'[r] = Accounts!Idle
      BY <3>1, <1>0 DEF Asked, Accounts!Idle, Accounts!NoToken
    <3>2. CASE accJobs'[r] = accJobs[r]
      <4>1. Asked(accJobs[r]) /\ accJobs[r].start \in Nat
        BY DEF Requests, AccountsShape, SessionJob
      <4> QED
        BY <3>2, <4>1, <1>0 DEF Asked, Accounts!OfType
    <3> QED
      BY <3>1, <3>2 DEF Others
  <2> QED
    BY <2>1 DEF Requests
<1>5. Steady'
  <2> SUFFICES ASSUME accOdd' \cap {"outage", "failover"} = {} PROVE Steady'
    BY DEF Steady
  <2>0. accOdd \cap {"outage", "failover"} = {}
    BY <1>1
  <2>1. accUp' /\ shared'.cut = ended' /\ \A i \in 1..MaxTokens : pairs'[i] > 0 => i \in shared'.used
    BY <2>0, <1>0, <1>2 DEF Steady
  <2>2. \A i \in 1..Len(tokens) : tokens[i].iat \in Nat /\ ~(tokens[i].iat > accNow)
    BY <1>0, TokenTyped DEF Stamped
  <2>3. ASSUME NEW r \in Req PROVE ~(accJobs'[r].kind = "refresh" /\ accJobs'[r].start > ended')
    <3>1. accJobs[r].start \in Nat /\ accJobs[r].start <= accNow
      BY DEF Requests, Asked, AccountsShape, SessionJob
    <3> QED
      BY <3>1, <1>0 DEF Others, Accounts!Idle
  <2> QED
    BY <2>1, <2>2, <2>3, <1>0 DEF Steady, Accounts!Session, Accounts!OfType
<1>6. Single'
  BY <1>1, <1>2 DEF Single, Others, Accounts!Idle
<1> QED
  BY <1>0, <1>1, <1>2, <1>3, <1>4, <1>5, <1>6
-----------------------------------------------------------------------------
(* What Issue appends.                                                     *)
LEMMA IssueAdds ==
  ASSUME SessionsInv, NEW j \in SessionJob, j.tok <= Len(tokens), NEW types \in Seq(TokenTypes), Accounts!Issue(j, types)
  PROVE  /\ tokens' \in Seq(Token) /\ Len(tokens) <= Len(tokens') /\ Len(tokens') <= MaxTokens
         /\ \A i \in 1..Len(tokens) : tokens'[i] = tokens[i]
         /\ \A i \in 1..Len(tokens') : i > Len(tokens) =>
                 /\ i - Len(tokens) \in 1..Len(types)
                 /\ tokens'[i] = [typ |-> types[i - Len(tokens)], iat |-> accNow, auth |-> Accounts!Auth(j),
                                  slip |-> Accounts!Slip(j)]
         /\ accNow \in Nat /\ accNow' = accNow + 1
<1> DEFINE new == [k \in 1..Len(types) |->
                     [typ |-> types[k], iat |-> accNow, auth |-> Accounts!Auth(j), slip |-> Accounts!Slip(j)]]
<1> USE DEF SessionsInv
<1>0. Len(tokens) \in Nat /\ Len(types) \in Nat /\ accNow \in Nat
  BY DEF AccountsShape
<1>1. Accounts!Auth(j) \in Nat
  <2>1. CASE j.tok = Accounts!NoToken
    BY <2>1 DEF Accounts!Auth, SessionJob
  <2>2. CASE j.tok # Accounts!NoToken
    <3>1. j.tok \in 1..Len(tokens)
      BY <2>2, <1>0 DEF SessionJob, Accounts!NoToken
    <3> QED
      BY <3>1, <2>2, TokenTyped DEF Accounts!Auth
  <2> QED BY <2>1, <2>2
<1>2. Accounts!Slip(j) \in BOOLEAN
  BY DEF Accounts!Slip
<1>3. \A k \in 1..Len(types) : types[k] \in TokenTypes
  BY ElementOfSeq
<1>4. new \in Seq(Token) /\ Len(new) = Len(types)
  BY <1>0, <1>1, <1>2, <1>3 DEF Token
<1>5. tokens' = tokens \o new /\ Len(tokens) + Len(types) <= MaxTokens /\ accNow' = accNow + 1
  BY DEF Accounts!Issue
<1> HIDE DEF new
<1>6. tokens' \in Seq(Token) /\ Len(tokens') = Len(tokens) + Len(types)
  <2>1. tokens \in Seq(Token)
    BY DEF AccountsShape
  <2> QED
    BY <2>1, <1>4, <1>5, ConcatProperties
<1>7. \A i \in 1..Len(tokens) : tokens'[i] = tokens[i]
  BY <1>4, <1>5, <1>0 DEF AccountsShape
<1>8. \A i \in 1..Len(tokens') : i > Len(tokens) =>
         i - Len(tokens) \in 1..Len(types) /\ tokens'[i] = new[i - Len(tokens)]
  BY <1>4, <1>5, <1>6, <1>0 DEF AccountsShape
<1>9. \A k \in 1..Len(types) :
         new[k] = [typ |-> types[k], iat |-> accNow, auth |-> Accounts!Auth(j), slip |-> Accounts!Slip(j)]
  BY DEF new
<1> QED
  BY <1>0, <1>5, <1>6, <1>7, <1>8, <1>9

(* What a request is.                                                      *)
LEMMA JobTyped ==
  ASSUME SessionsInv, NEW r \in Req
  PROVE  accJobs[r] \in SessionJob /\ accJobs[r].seen \in Login /\ Asked(accJobs[r]) /\ accJobs[r].start \in Nat
         /\ accJobs[r].tok \in Nat
  BY DEF SessionsInv, AccountsShape, Requests, SessionJob

(* A request that ends leaves the others.                                  *)
LEMMA FinishTyped ==
  ASSUME SessionsInv, NEW r \in Req, Accounts!Finish(r)
  PROVE  accJobs' \in [Req -> SessionJob] /\ \A q \in Req : Others(accJobs'[q], accJobs[q])
  BY IdleTyped DEF SessionsInv, AccountsShape, Accounts!Finish, Others

(* A login that is not written is of its type.                             *)
LEMMA UserStays ==
  ASSUME SessionsInv, UNCHANGED user, accOdd \subseteq accOdd' PROVE Accounts!FactorConsistent'
  BY DEF SessionsInv, Accounts!FactorConsistent

(* The tokens a sign-in issues.                                            *)
LEMMA KindsOfTokens == <<"challenge">> \in Seq(TokenTypes) /\ Accounts!Pair \in Seq(TokenTypes)
  BY DEF TokenTypes, Accounts!Pair

(* What a commit that issues tokens leaves true. The tokens of a refresh   *)
(* descend from one issued since the last sign-out, or carry the mark.     *)
LEMMA IssueGrows ==
  ASSUME SessionsInv, NEW r \in Req, NEW types \in Seq(TokenTypes), Accounts!Issue(accJobs[r], types), Accounts!Finish(r),
         UNCHANGED <<shared, local, accUp, ended, pairs>>, accOdd \subseteq accOdd',
         \/ types = <<"challenge">>
         \/ accJobs[r].kind \in {"skip", "verify", "recover", "refresh"}
  PROVE  Grows
<1>1. accJobs[r] \in SessionJob /\ Asked(accJobs[r])
  BY JobTyped
<1>2. accJobs[r].tok <= Len(tokens)
  BY <1>1 DEF Asked
<1>3. /\ tokens' \in Seq(Token) /\ Len(tokens) <= Len(tokens') /\ Len(tokens') <= MaxTokens
      /\ \A i \in 1..Len(tokens) : tokens'[i] = tokens[i]
      /\ \A i \in 1..Len(tokens') : i > Len(tokens) =>
              /\ i - Len(tokens) \in 1..Len(types)
              /\ tokens'[i] = [typ |-> types[i - Len(tokens)], iat |-> accNow, auth |-> Accounts!Auth(accJobs[r]),
                               slip |-> Accounts!Slip(accJobs[r])]
      /\ accNow \in Nat /\ accNow' = accNow + 1
  BY <1>1, <1>2, IssueAdds
<1>4. accJobs' \in [Req -> SessionJob] /\ \A q \in Req : Others(accJobs'[q], accJobs[q])
  BY FinishTyped
<1>5. ASSUME NEW i \in 1..Len(tokens'), i > Len(tokens), accOdd \cap {"outage", "failover"} = {},
             tokens'[i].typ \in {"access", "refresh"}, tokens'[i].auth < ended
      PROVE  tokens'[i].slip
  <2>1. /\ tokens'[i].typ = types[i - Len(tokens)] /\ tokens'[i].auth = Accounts!Auth(accJobs[r])
        /\ tokens'[i].slip = Accounts!Slip(accJobs[r]) /\ i - Len(tokens) \in 1..Len(types)
    <3>1. /\ i - Len(tokens) \in 1..Len(types)
          /\ tokens'[i] = [typ |-> types[i - Len(tokens)], iat |-> accNow, auth |-> Accounts!Auth(accJobs[r]),
                            slip |-> Accounts!Slip(accJobs[r])]
      BY <1>3, <1>5
    <3> QED
      BY <3>1
  <2>2. types # <<"challenge">>
    BY <2>1, <1>5
  <2>3. CASE accJobs[r].kind \in {"skip", "verify", "recover"}
    <3>1. accJobs[r].tok \in 1..Len(tokens) /\ tokens[accJobs[r].tok].typ = "challenge"
      BY <1>1, <2>3 DEF Asked, Accounts!OfType
    <3> QED
      BY <2>1, <3>1 DEF Accounts!Slip, Accounts!NoToken, SessionsInv, AccountsShape
  <2>4. CASE accJobs[r].kind = "refresh"
    <3>1. accJobs[r].tok \in 1..Len(tokens) /\ tokens[accJobs[r].tok].typ = "refresh"
      BY <1>1, <2>4 DEF Asked, Accounts!OfType
    <3>2. accJobs[r].tok # Accounts!NoToken
      BY <3>1 DEF Accounts!NoToken, SessionsInv, AccountsShape
    <3>3. tokens[accJobs[r].tok].auth < ended
      BY <2>1, <3>2, <1>5 DEF Accounts!Auth
    <3>4. CASE accJobs[r].start > ended
      <4>1. tokens[accJobs[r].tok].iat > ended
        BY <2>4, <3>4, <1>5 DEF SessionsInv, Steady
      <4>2. tokens[accJobs[r].tok].slip
        BY <4>1, <3>1, <3>3, <1>5 DEF SessionsInv, Steady, Accounts!Session, Accounts!OfType
      <4> QED
        BY <2>1, <4>2, <3>2 DEF Accounts!Slip
    <3>5. CASE ~(accJobs[r].start > ended)
      <4>1. accJobs[r].start <= ended
        BY <3>5, JobTyped DEF SessionsInv, AccountsShape
      <4> QED
        BY <2>1, <4>1 DEF Accounts!Slip
    <3> QED
      BY <3>4, <3>5
  <2> QED
    BY <2>2, <2>3, <2>4
<1>6. accNow' \in Nat /\ accNow < accNow' /\ accNow <= accNow'
  BY <1>3
<1>7. ASSUME NEW i \in 1..Len(tokens'), i > Len(tokens) PROVE tokens'[i].iat = accNow
  <2>1. tokens'[i] = [typ |-> types[i - Len(tokens)], iat |-> accNow, auth |-> Accounts!Auth(accJobs[r]),
                      slip |-> Accounts!Slip(accJobs[r])]
    BY <1>3, <1>7
  <2> QED
    BY <2>1
<1> QED
  BY <1>3, <1>4, <1>5, <1>6, <1>7 DEF Grows

(* A password that was right issues a challenge or a pair.                 *)
LEMMA CommitLoginKeeps ==
  ASSUME SessionsInv, NEW r \in Req, Accounts!CommitLogin(r) PROVE SessionsInv'
<1>1. Grows
  BY IssueGrows, KindsOfTokens DEF Accounts!CommitLogin
<1>2. AccountsShape'
  BY <1>1 DEF SessionsInv, AccountsShape, Grows, Accounts!CommitLogin
<1> QED
  BY <1>1, <1>2, GrowsKeeps, UserStays DEF SessionsInv, Accounts!CommitLogin, Grows

(* A refresh that was first issues the next pair.                          *)
LEMMA MintKeeps ==
  ASSUME SessionsInv, NEW r \in Req, Accounts!Mint(r) PROVE SessionsInv'
<1>1. accJobs[r].kind = "refresh"
  BY JobTyped DEF Accounts!Mint, Asked
<1>2. Grows
  BY <1>1, IssueGrows, KindsOfTokens DEF Accounts!Mint
<1>3. AccountsShape'
  BY <1>2 DEF SessionsInv, AccountsShape, Grows, Accounts!Mint
<1> QED
  BY <1>2, <1>3, GrowsKeeps, UserStays DEF SessionsInv, Accounts!Mint, Grows

(* A challenge that is answered issues a pair.                             *)
LEMMA SignInKeeps ==
  ASSUME SessionsInv, NEW r \in Req, Accounts!SignIn(r) PROVE SessionsInv'
<1>0. accJobs[r] \in SessionJob /\ accJobs[r].seen \in Login /\ Asked(accJobs[r]) /\ user \in Login
  BY JobTyped DEF SessionsInv, AccountsShape
<1>1. /\ accJobs[r].kind \in {"skip", "verify", "recover"} /\ accOdd' = Accounts!Crossed(accJobs[r])
      /\ Accounts!Issue(accJobs[r], Accounts!Pair) /\ Accounts!Finish(r)
      /\ UNCHANGED <<shared, local, accUp, ended, pairs, accSpent>>
  BY DEF Accounts!SignIn
<1>2. accOdd \subseteq accOdd'
  BY <1>1 DEF Accounts!Crossed
<1>3. Grows
  BY <1>1, <1>2, IssueGrows, KindsOfTokens
<1>4. \/ /\ accJobs[r].kind = "verify" /\ user' = [user EXCEPT !.mfa = TRUE, !.codes = Accounts!Code]
      \/ /\ accJobs[r].kind = "recover"
         /\ user' = [user EXCEPT !.codes = accJobs[r].seen.codes \ {accJobs[r].code}]
      \/ user' = user
  <2> DEFINE first == accJobs[r].kind = "verify" /\ ~accJobs[r].seen.mfa
  <2>1. user' = [user EXCEPT !.mfa = @ \/ first,
                             !.codes = CASE first -> Accounts!Code
                                         [] accJobs[r].kind = "recover" ->
                                                 accJobs[r].seen.codes \ {accJobs[r].code}
                                         [] OTHER -> @]
    BY DEF Accounts!SignIn
  <2>2. CASE first
    BY <2>1, <2>2, <1>0 DEF Login
  <2>3. CASE ~first /\ accJobs[r].kind = "recover"
    BY <2>1, <2>3, <1>0 DEF Login
  <2>4. CASE ~first /\ accJobs[r].kind # "recover"
    BY <2>1, <2>4, <1>0 DEF Login
  <2> QED
    BY <2>2, <2>3, <2>4
<1>5. user' \in Login
  BY <1>0, <1>4 DEF Login
<1>6. AccountsShape'
  BY <1>1, <1>3, <1>5 DEF SessionsInv, AccountsShape, Grows
<1>7. Accounts!FactorConsistent'
  <2> SUFFICES ASSUME "crossed" \notin accOdd' PROVE Accounts!FactorConsistent'
    BY DEF Accounts!FactorConsistent
  <2>1. /\ accJobs[r].seen.mfa = user.mfa /\ accJobs[r].seen.secret = user.secret
        /\ accJobs[r].seen.codes = user.codes /\ "crossed" \notin accOdd
    BY <1>1 DEF Accounts!Crossed
  <2>2. (user.mfa => user.secret # 0) /\ (user.codes # {} => user.mfa)
    BY <2>1 DEF SessionsInv, Accounts!FactorConsistent
  <2>3. CASE accJobs[r].kind = "verify" /\ user' = [user EXCEPT !.mfa = TRUE, !.codes = Accounts!Code]
    BY <2>1, <2>3, <1>0 DEF Asked, Login, Accounts!FactorConsistent
  <2>4. CASE /\ accJobs[r].kind = "recover"
             /\ user' = [user EXCEPT !.codes = accJobs[r].seen.codes \ {accJobs[r].code}]
    BY <2>1, <2>2, <2>4, <1>0 DEF Asked, Login, Accounts!FactorConsistent
  <2>5. CASE user' = user
    BY <2>2, <2>5 DEF Accounts!FactorConsistent
  <2> QED
    BY <1>4, <2>3, <2>4, <2>5
<1> QED
  BY <1>3, <1>6, <1>7, GrowsKeeps DEF SessionsInv

(* A reset link is a token of its own.                                     *)
LEMMA ForgotKeeps ==
  ASSUME SessionsInv, Accounts!Forgot PROVE SessionsInv'
<1> DEFINE link == [typ |-> "reset", iat |-> accNow, auth |-> accNow, slip |-> FALSE]
<1>0. /\ tokens \in Seq(Token) /\ accNow \in Nat /\ link \in Token /\ link.iat = accNow /\ link.typ = "reset"
      /\ Len(tokens) \in Nat /\ MaxTokens \in Nat
  BY AccountsBounds DEF SessionsInv, AccountsShape, Token, TokenTypes
<1>1. /\ tokens' = Append(tokens, link) /\ accNow' = accNow + 1 /\ Len(tokens) < MaxTokens
      /\ UNCHANGED <<user, shared, local, accUp, accJobs, ended, pairs, accOdd>>
  BY DEF Accounts!Forgot
<1> HIDE DEF link
<1>2. /\ tokens' \in Seq(Token) /\ Len(tokens') = Len(tokens) + 1
      /\ \A i \in 1..Len(tokens) : tokens'[i] = tokens[i]
      /\ tokens'[Len(tokens) + 1] = link
  BY <1>0, <1>1, AppendProperties
<1>3. \A i \in 1..Len(tokens') : i > Len(tokens) => tokens'[i] = link
  BY <1>0, <1>2
<1>4. Grows
  BY <1>0, <1>1, <1>2, <1>3 DEF Grows, SessionsInv, AccountsShape, Others
<1>5. AccountsShape'
  <2>1. accSpent' \in [requests : Nat, secrets : 0..MaxSecrets, outages : Nat]
    <3>1. /\ accSpent \in [requests : Nat, secrets : 0..MaxSecrets, outages : Nat]
          /\ accSpent' = [accSpent EXCEPT !.requests = accSpent.requests + 1]
      BY DEF Accounts!Forgot, SessionsInv, AccountsShape
    <3>2. accSpent.requests + 1 \in Nat
      BY <3>1
    <3> QED BY <3>1, <3>2
  <2>2. Len(tokens') <= MaxTokens
    BY <1>0, <1>1, <1>2
  <2> QED
    BY <1>0, <1>1, <1>2, <2>1, <2>2 DEF SessionsInv, AccountsShape
<1> QED
  BY <1>1, <1>4, <1>5, GrowsKeeps, UserStays DEF SessionsInv

(* A commit that issues nothing and signs nobody out.                      *)
LEMMA Settles ==
  ASSUME SessionsInv, NEW r \in Req, Accounts!Finish(r), UNCHANGED <<tokens, shared, local, accUp, accNow, ended, pairs>>,
         accOdd \subseteq accOdd'
  PROVE  Grows
  BY FinishTyped DEF Grows, SessionsInv, AccountsShape

(* Enrolment writes a new secret, not yet switched on.                     *)
LEMMA CommitEnrolKeeps ==
  ASSUME SessionsInv, NEW r \in Req, Accounts!CommitEnrol(r) PROVE SessionsInv'
<1>1. Grows
  BY Settles DEF Accounts!CommitEnrol, Accounts!Crossed
<1>2. AccountsShape'
  <2>1. accSpent.secrets + 1 \in 0..MaxSecrets /\ user \in Login
    BY AccountsBounds DEF SessionsInv, AccountsShape, Accounts!CommitEnrol
  <2>2. user' \in Login
    BY <2>1 DEF Accounts!CommitEnrol, Login
  <2>3. accSpent' \in [requests : Nat, secrets : 0..MaxSecrets, outages : Nat]
    BY <2>1 DEF SessionsInv, AccountsShape, Accounts!CommitEnrol
  <2> QED
    BY <1>1, <2>2, <2>3 DEF SessionsInv, AccountsShape, Grows, Accounts!CommitEnrol
<1>3. Accounts!FactorConsistent'
  BY DEF Accounts!FactorConsistent, Accounts!CommitEnrol, SessionsInv, AccountsShape, Login,
      Accounts!Crossed
<1> QED
  BY <1>1, <1>2, <1>3, GrowsKeeps DEF SessionsInv

(* The second factor is switched on with the secret it was shown with.     *)
LEMMA CommitActivateKeeps ==
  ASSUME SessionsInv, NEW r \in Req, Accounts!CommitActivate(r) PROVE SessionsInv'
<1>1. Grows
  BY Settles DEF Accounts!CommitActivate, Accounts!Crossed
<1>2. AccountsShape'
  BY <1>1 DEF SessionsInv, AccountsShape, Grows, Accounts!CommitActivate, Login
<1>3. Accounts!FactorConsistent'
  <2>1. accJobs[r].seen.secret # 0
    BY JobTyped DEF Accounts!CommitActivate, Asked
  <2> QED
    BY <2>1 DEF Accounts!FactorConsistent, Accounts!CommitActivate, SessionsInv, AccountsShape,
        Login, Accounts!Crossed
<1> QED
  BY <1>1, <1>2, <1>3, GrowsKeeps DEF SessionsInv

(* Switching it off takes the secret with it.                              *)
LEMMA CommitDisableKeeps ==
  ASSUME SessionsInv, NEW r \in Req, Accounts!CommitDisable(r) PROVE SessionsInv'
<1>1. Grows
  BY Settles DEF Accounts!CommitDisable, Accounts!Crossed
<1>2. AccountsShape'
  <2>1. user' \in Login
    <3>1. user \in Login /\ user' = [user EXCEPT !.mfa = FALSE, !.secret = 0, !.codes = {}]
      BY DEF SessionsInv, AccountsShape, Accounts!CommitDisable, Accounts!Disabled
    <3>2. 0 \in 0..MaxSecrets
      BY AccountsBounds
    <3> QED
      BY <3>1, <3>2 DEF Login
  <2> QED
    BY <1>1, <2>1 DEF SessionsInv, AccountsShape, Grows, Accounts!CommitDisable
<1>3. Accounts!FactorConsistent'
  BY DEF Accounts!FactorConsistent, Accounts!CommitDisable, SessionsInv, AccountsShape, Login,
      Accounts!Disabled
<1> QED
  BY <1>1, <1>2, <1>3, GrowsKeeps DEF SessionsInv

(* A request that fails leaves nothing behind.                             *)
LEMMA DropKeeps ==
  ASSUME SessionsInv, NEW r \in Req, Accounts!Drop(r) PROVE SessionsInv'
<1>1. Grows
  BY Settles DEF Accounts!Drop
<1>2. AccountsShape'
  BY <1>1 DEF SessionsInv, AccountsShape, Grows, Accounts!Drop
<1> QED
  BY <1>1, <1>2, GrowsKeeps, UserStays DEF SessionsInv, Accounts!Drop

(* Signing out everywhere.                                                 *)
LEMMA SignOutsKeep ==
  ASSUME SessionsInv, NEW i \in 1..Len(tokens), Accounts!RefreshReused(i) \/ Accounts!Logout(i) PROVE SessionsInv'
<1>1. /\ Accounts!SignsEveryoneOut /\ UNCHANGED <<user, tokens, accUp, accJobs, pairs>>
      /\ accSpent' = [accSpent EXCEPT !.requests = @ + 1]
  BY DEF Accounts!RefreshReused, Accounts!Logout
<1>2. accJobs' \in [Req -> SessionJob] /\ \A q \in Req : Others(accJobs'[q], accJobs[q])
  BY <1>1 DEF SessionsInv, AccountsShape, Others
<1>3. /\ shared' \in Kept /\ local' \in Kept /\ accNow' \in Nat /\ ended' \in Nat
      /\ ended' < accNow' /\ accOdd \subseteq accOdd'
      /\ Stamped' /\ Cuts' /\ Requests' /\ Steady' /\ Single'
  BY <1>1, <1>2, SignOutKeeps
<1>4. accSpent' \in [requests : Nat, secrets : 0..MaxSecrets, outages : Nat]
  BY <1>1 DEF SessionsInv, AccountsShape
<1>5. AccountsShape'
  BY <1>1, <1>2, <1>3, <1>4 DEF SessionsInv, AccountsShape
<1> QED
  BY <1>1, <1>3, <1>5, UserStays DEF SessionsInv

(* A new password signs everybody out.                                     *)
LEMMA CommitPasswordKeeps ==
  ASSUME SessionsInv, NEW r \in Req, Accounts!CommitPassword(r) PROVE SessionsInv'
<1>1. /\ Accounts!SignsEveryoneOut /\ UNCHANGED <<tokens, accUp, pairs, accSpent>> /\ Accounts!Finish(r)
      /\ user' = [user EXCEPT !.pw = @ + 1]
  BY DEF Accounts!CommitPassword
<1>2. accJobs' \in [Req -> SessionJob] /\ \A q \in Req : Others(accJobs'[q], accJobs[q])
  BY <1>1, FinishTyped
<1>3. /\ shared' \in Kept /\ local' \in Kept /\ accNow' \in Nat /\ ended' \in Nat
      /\ ended' < accNow' /\ accOdd \subseteq accOdd'
      /\ Stamped' /\ Cuts' /\ Requests' /\ Steady' /\ Single'
  BY <1>1, <1>2, SignOutKeeps
<1>4. user' \in Login /\ user'.mfa = user.mfa /\ user'.secret = user.secret /\ user'.codes = user.codes
  BY <1>1 DEF SessionsInv, AccountsShape, Login
<1>5. AccountsShape'
  BY <1>1, <1>2, <1>3, <1>4 DEF SessionsInv, AccountsShape
<1>6. Accounts!FactorConsistent'
  BY <1>3, <1>4 DEF SessionsInv, Accounts!FactorConsistent
<1> QED
  BY <1>3, <1>5, <1>6 DEF SessionsInv

(* A reset link is used up with the sign-out that follows it.              *)
LEMMA CommitResetKeeps ==
  ASSUME SessionsInv, NEW r \in Req, Accounts!CommitReset(r) PROVE SessionsInv'
<1> DEFINE i == accJobs[r].tok
<1> USE DEF SessionsInv
<1>0. /\ accNow \in Nat /\ ended \in Nat /\ ended < accNow /\ accNow' = accNow + 1 /\ ended' = accNow
      /\ Len(tokens) \in Nat /\ MaxTokens \in Nat /\ Len(tokens) <= MaxTokens
      /\ Accounts!Finish(r) /\ UNCHANGED <<tokens, accUp, accSpent>>
      /\ user' = [user EXCEPT !.pw = @ + 1]
      /\ accJobs[r].kind = "reset" /\ accOdd \subseteq accOdd'
  BY AccountsBounds DEF AccountsShape, Accounts!CommitReset
<1>1. i \in 1..Len(tokens) /\ tokens[i].typ = "reset"
  BY <1>0, JobTyped DEF Asked, Accounts!OfType
<1>2. pairs' = [pairs EXCEPT ![i] = @ + 1] /\ i \in 1..MaxTokens
  BY <1>0, <1>1 DEF Accounts!CommitReset
<1>3. \/ /\ accUp /\ shared' = [cut |-> accNow, used |-> shared.used \cup {i}] /\ local' = local
      \/ /\ ~accUp /\ local' = [cut |-> accNow, used |-> local.used \cup {i}] /\ shared' = shared
         /\ "outage" \in accOdd'
  BY DEF Accounts!CommitReset, Accounts!Keep, Accounts!Store, Accounts!Cutoff
<1>4. accJobs' \in [Req -> SessionJob] /\ accJobs'[r] = Accounts!Idle /\ \A q \in Req \ {r} : accJobs'[q] = accJobs[q]
  BY <1>0, IdleTyped DEF AccountsShape, Accounts!Finish
<1>5. user' \in Login /\ user'.mfa = user.mfa /\ user'.secret = user.secret /\ user'.codes = user.codes
  <2>1. user \in Login /\ user' = [user EXCEPT !.pw = @ + 1]
    BY <1>0 DEF AccountsShape
  <2> QED
    BY <2>1 DEF Login
<1>6. shared \in Kept /\ local \in Kept
  BY DEF AccountsShape
<1>7. /\ shared' \in Kept /\ local' \in Kept /\ shared'.cut <= accNow /\ local'.cut <= accNow
      /\ shared'.used \subseteq shared.used \cup {i} /\ local'.used \subseteq local.used \cup {i}
  BY <1>0, <1>1, <1>3, <1>6 DEF Kept, Cuts
<1>8. /\ pairs' \in [1..MaxTokens -> Nat] /\ pairs[i] \in Nat /\ pairs'[i] = pairs[i] + 1
      /\ \A k \in 1..MaxTokens : k # i => pairs'[k] = pairs[k]
  BY <1>2 DEF AccountsShape
<1>9. AccountsShape'
  BY <1>0, <1>4, <1>5, <1>7, <1>8 DEF AccountsShape
<1>10. Stamped'
  BY <1>0, TokenTyped DEF Stamped
<1>11. Cuts'
  <2>1. ASSUME NEW k \in shared'.used \cup local'.used PROVE pairs'[k] > 0
    <3>1. k = i \/ (k \in shared.used \cup local.used /\ pairs[k] > 0 /\ k \in 1..MaxTokens)
      BY <1>0, <1>7 DEF Cuts
    <3> QED
      BY <3>1, <1>8
  <2> QED
    BY <2>1, <1>0, <1>1, <1>7 DEF Cuts
<1>12. Requests'
  <2>1. ASSUME NEW q \in Req PROVE Asked(accJobs[q])'
    <3>1. CASE accJobs'[q] = Accounts!Idle
      BY <3>1, <1>0 DEF Asked, Accounts!Idle, Accounts!NoToken
    <3>2. CASE accJobs'[q] = accJobs[q]
      <4>1. Asked(accJobs[q]) /\ accJobs[q].start \in Nat
        BY JobTyped
      <4> QED
        BY <3>2, <4>1, <1>0 DEF Asked, Accounts!OfType
    <3> QED
      BY <3>1, <3>2, <1>4
  <2> QED
    BY <2>1 DEF Requests
<1>13. Steady'
  <2> SUFFICES ASSUME accOdd' \cap {"outage", "failover"} = {} PROVE Steady'
    BY DEF Steady
  <2>0. accOdd \cap {"outage", "failover"} = {} /\ accUp /\ accUp'
    BY <1>0, <1>3 DEF Steady
  <2>1. shared'.cut = ended' /\ shared'.used = shared.used \cup {i}
    BY <1>0, <1>3, <2>0
  <2>2. \A k \in 1..MaxTokens : pairs'[k] > 0 => k \in shared'.used
    BY <2>0, <2>1, <1>8 DEF Steady
  <2>3. \A k \in 1..Len(tokens) : tokens[k].iat \in Nat /\ ~(tokens[k].iat > accNow)
    BY <1>0, TokenTyped DEF Stamped
  <2>4. ASSUME NEW q \in Req PROVE ~(accJobs'[q].kind = "refresh" /\ accJobs'[q].start > ended')
    <3>1. accJobs[q].start \in Nat /\ accJobs[q].start <= accNow
      BY JobTyped DEF Asked
    <3> QED
      BY <3>1, <1>0, <1>4 DEF Accounts!Idle
  <2> QED
    BY <2>0, <2>1, <2>2, <2>3, <2>4, <1>0 DEF Steady, Accounts!Session, Accounts!OfType
<1>14. Single'
  <2> SUFFICES ASSUME accOdd' \cap {"outage", "failover", "double"} = {} PROVE Single'
    BY DEF Single
  <2>0. accOdd \cap {"outage", "failover", "double"} = {} /\ accUp
    BY <1>0, <1>3
  <2>1. \A q \in Req \ {r} : accJobs[q].tok # i
    BY DEF Accounts!CommitReset
  <2>2. shared'.used = shared.used \cup {i} /\ i \notin shared.used
    BY <2>0, <1>0, <1>3 DEF Single
  <2>3. pairs[i] = 0
    BY <2>0, <2>2, <1>2, <1>8 DEF Steady
  <2>4. \A k \in 1..MaxTokens : pairs'[k] <= 1
    BY <2>0, <2>3, <1>8 DEF Single
  <2>5. \A q \in Req : accJobs'[q].kind = "reset" => accJobs'[q].tok \notin shared'.used
    BY <2>0, <2>1, <2>2, <1>4 DEF Single, Accounts!Idle
  <2> QED
    BY <2>4, <2>5 DEF Single
<1>15. Accounts!FactorConsistent'
  BY <1>0, <1>5 DEF Accounts!FactorConsistent
<1> QED
  BY <1>9, <1>10, <1>11, <1>12, <1>13, <1>14, <1>15

(* One refresh is first; any other signs everybody out.                    *)
LEMMA ConsumeKeeps ==
  ASSUME SessionsInv, NEW r \in Req, Accounts!Consume(r) PROVE SessionsInv'
<1> DEFINE i == accJobs[r].tok
<1> USE DEF SessionsInv
<1>0. /\ Len(tokens) \in Nat /\ MaxTokens \in Nat /\ Len(tokens) <= MaxTokens
      /\ UNCHANGED <<user, tokens, accUp, accSpent>>
      /\ accJobs[r].kind = "refresh" /\ accJobs[r].pc = "loaded"
  BY AccountsBounds DEF AccountsShape, Accounts!Consume
<1>1. i \in 1..Len(tokens) /\ tokens[i].typ = "refresh"
  BY <1>0, JobTyped DEF Asked, Accounts!OfType
<1>2. CASE Accounts!First(i)
  <2>1. /\ Accounts!Keep([Accounts!Store EXCEPT !.used = @ \cup {i}])
        /\ accJobs' = [accJobs EXCEPT ![r].pc = "mint", ![r].seen = user]
        /\ pairs' = [pairs EXCEPT ![i] = @ + 1]
        /\ UNCHANGED <<accNow, ended, accOdd>>
    BY <1>2 DEF Accounts!Consume
  <2>2. \/ /\ accUp /\ shared' = [shared EXCEPT !.used = @ \cup {i}] /\ local' = local
           /\ i \notin shared.used
        \/ /\ ~accUp /\ local' = [local EXCEPT !.used = @ \cup {i}] /\ shared' = shared
           /\ accOdd \cap {"outage", "failover"} # {}
    BY <2>1, <1>2 DEF Accounts!Keep, Accounts!Store, Accounts!First, Steady
  <2>3. shared \in Kept /\ local \in Kept
    BY DEF AccountsShape
  <2>4. /\ shared' \in Kept /\ local' \in Kept /\ shared'.cut = shared.cut /\ local'.cut = local.cut
        /\ shared'.used \subseteq shared.used \cup {i} /\ local'.used \subseteq local.used \cup {i}
        /\ shared.used \subseteq shared'.used
    BY <1>0, <1>1, <2>2, <2>3 DEF Kept
  <2>5. /\ pairs' \in [1..MaxTokens -> Nat] /\ pairs[i] \in Nat /\ pairs'[i] = pairs[i] + 1
        /\ \A k \in 1..MaxTokens : k # i => pairs'[k] = pairs[k]
    BY <2>1, <1>0, <1>1 DEF AccountsShape
  <2>6. /\ accJobs' \in [Req -> SessionJob] /\ accJobs'[r] = [accJobs[r] EXCEPT !.pc = "mint", !.seen = user]
        /\ \A q \in Req \ {r} : accJobs'[q] = accJobs[q]
    BY <2>1 DEF AccountsShape, SessionJob
  <2>7. /\ accJobs'[r].kind = "refresh" /\ accJobs'[r].tok = i /\ accJobs'[r].start = accJobs[r].start
        /\ accJobs'[r].pc = "mint"
    BY <2>6, <1>0, JobTyped DEF SessionJob
  <2>8. AccountsShape'
    BY <1>0, <2>1, <2>4, <2>5, <2>6 DEF AccountsShape
  <2>9. Stamped'
    BY <1>0, <2>1 DEF Stamped
  <2>10. Cuts'
    <3>1. ASSUME NEW k \in shared'.used \cup local'.used PROVE pairs'[k] > 0
      <4>1. k = i \/ (k \in shared.used \cup local.used /\ pairs[k] > 0 /\ k \in 1..MaxTokens)
        BY <1>0, <2>4 DEF Cuts
      <4> QED
        BY <4>1, <2>5
    <3> QED
      BY <3>1, <1>0, <1>1, <2>1, <2>4 DEF Cuts
  <2>11. Requests'
    <3>1. ASSUME NEW q \in Req PROVE Asked(accJobs[q])'
      <4>1. Asked(accJobs[q])
        BY JobTyped
      <4>2. CASE q = r
        BY <4>1, <4>2, <2>1, <2>7, <1>0 DEF Asked, Accounts!OfType
      <4>3. CASE q # r
        BY <4>1, <4>3, <2>1, <2>6, <1>0 DEF Asked, Accounts!OfType
      <4> QED
        BY <4>2, <4>3
    <3> QED
      BY <3>1 DEF Requests
  <2>12. Steady'
    <3> SUFFICES ASSUME accOdd' \cap {"outage", "failover"} = {} PROVE Steady'
      BY DEF Steady
    <3>0. accOdd \cap {"outage", "failover"} = {} /\ accUp /\ shared'.used = shared.used \cup {i}
      BY <2>1, <2>2, <2>3 DEF Kept
    <3>1. \A k \in 1..MaxTokens : pairs'[k] > 0 => k \in shared'.used
      BY <3>0, <2>5 DEF Steady
    <3>2. \A q \in Req : accJobs'[q].kind = "refresh" /\ accJobs'[q].start > ended'
                         => tokens'[accJobs'[q].tok].iat > ended'
      BY <3>0, <1>0, <2>1, <2>6, <2>7 DEF Steady
    <3> QED
      BY <3>0, <3>1, <3>2, <1>0, <2>1, <2>4 DEF Steady, Accounts!Session, Accounts!OfType
  <2>13. Single'
    <3> SUFFICES ASSUME accOdd' \cap {"outage", "failover", "double"} = {} PROVE Single'
      BY DEF Single
    <3>0. accOdd \cap {"outage", "failover", "double"} = {} /\ accUp /\ i \notin shared.used
          /\ shared'.used = shared.used \cup {i}
      BY <2>1, <2>2, <2>3 DEF Kept
    <3>1. pairs[i] = 0
      BY <3>0, <2>5, <1>0, <1>1 DEF Steady
    <3>2. \A k \in 1..MaxTokens : pairs'[k] <= 1
      BY <3>0, <3>1, <2>5 DEF Single
    <3>3. ASSUME NEW q \in Req, accJobs'[q].kind = "reset" PROVE accJobs'[q].tok \notin shared'.used
      <4>1. q # r /\ accJobs'[q] = accJobs[q] /\ accJobs[q].kind = "reset"
        BY <3>3, <2>6, <2>7
      <4>2. accJobs[q].tok # i /\ accJobs[q].tok \notin shared.used
        BY <3>0, <4>1, <1>1, JobTyped DEF Single, Asked, Accounts!OfType
      <4> QED
        BY <3>0, <4>1, <4>2
    <3> QED
      BY <3>2, <3>3 DEF Single
  <2>14. Accounts!FactorConsistent'
    BY <1>0, <2>1 DEF Accounts!FactorConsistent
  <2> QED
    BY <2>8, <2>9, <2>10, <2>11, <2>12, <2>13, <2>14
<1>3. CASE ~Accounts!First(i)
  <2>1. Accounts!SignsEveryoneOut /\ Accounts!Finish(r) /\ UNCHANGED pairs
    BY <1>3 DEF Accounts!Consume
  <2>2. accJobs' \in [Req -> SessionJob] /\ \A q \in Req : Others(accJobs'[q], accJobs[q])
    BY <2>1, FinishTyped
  <2>3. /\ shared' \in Kept /\ local' \in Kept /\ accNow' \in Nat /\ ended' \in Nat
        /\ ended' < accNow' /\ accOdd \subseteq accOdd'
        /\ Stamped' /\ Cuts' /\ Requests' /\ Steady' /\ Single'
    BY <1>0, <2>1, <2>2, SignOutKeeps
  <2>4. AccountsShape'
    BY <1>0, <2>1, <2>2, <2>3 DEF AccountsShape
  <2> QED
    BY <1>0, <2>3, <2>4, UserStays
<1> QED
  BY <1>2, <1>3

(* What a new request asks is so when it is asked.                         *)
LEMMA BeginsKeeps ==
  ASSUME SessionsInv, NEW r \in Req, NEW kind \in RequestKinds \ {"none"}, NEW i \in Nat, NEW code \in Nat,
         Accounts!Begins(r, kind, i, code), i <= Len(tokens),
         kind \in {"skip", "verify", "recover"} => i \in Accounts!OfType("challenge"),
         kind = "refresh" => i \in Accounts!OfType("refresh") \cap Accounts!Live,
         kind = "reset" => i \in Accounts!OfType("reset") \cap Accounts!Live,
         kind \in {"verify", "activate"} => user.secret # 0,
         kind = "recover" => user.codes # {}
  PROVE  SessionsInv'
<1> DEFINE new == [pc |-> "loaded", kind |-> kind, tok |-> i, start |-> accNow, code |-> code,
                   seen |-> user]
<1> USE DEF SessionsInv
<1>0. /\ UNCHANGED <<user, tokens, shared, local, accUp, accNow, ended, pairs, accOdd>>
      /\ accJobs' = [accJobs EXCEPT ![r] = new] /\ accSpent' = [accSpent EXCEPT !.requests = @ + 1]
      /\ accNow \in Nat /\ ended \in Nat /\ ended < accNow /\ Len(tokens) \in Nat
  BY DEF Accounts!Begins, AccountsShape
<1>1. new \in SessionJob
  BY <1>0 DEF AccountsShape, SessionJob
<1>2. accJobs' \in [Req -> SessionJob] /\ accJobs'[r] = new /\ \A q \in Req \ {r} : accJobs'[q] = accJobs[q]
  BY <1>0, <1>1 DEF AccountsShape
<1>3. /\ new.kind = kind /\ new.tok = i /\ new.start = accNow /\ new.seen = user
      /\ new.pc = "loaded"
  OBVIOUS
<1> HIDE DEF new
<1>4. AccountsShape'
  <2>1. accSpent' \in [requests : Nat, secrets : 0..MaxSecrets, outages : Nat]
    BY <1>0 DEF AccountsShape
  <2> QED
    BY <2>1, <1>0, <1>2 DEF AccountsShape
<1>5. Stamped' /\ Cuts' /\ Accounts!FactorConsistent'
  BY <1>0 DEF Stamped, Cuts, Accounts!FactorConsistent
<1>6. Requests'
  <2>1. ASSUME NEW q \in Req PROVE Asked(accJobs[q])'
    <3>1. CASE q = r
      BY <3>1, <1>0, <1>2, <1>3 DEF Asked, Accounts!OfType
    <3>2. CASE q # r
      BY <3>2, <1>0, <1>2, JobTyped DEF Asked, Accounts!OfType
    <3> QED
      BY <3>1, <3>2
  <2> QED
    BY <2>1 DEF Requests
<1>7. Steady'
  <2> SUFFICES ASSUME accOdd' \cap {"outage", "failover"} = {} PROVE Steady'
    BY DEF Steady
  <2>0. accOdd \cap {"outage", "failover"} = {} /\ accUp /\ shared.cut = ended
    BY <1>0 DEF Steady
  <2>1. ASSUME NEW q \in Req, accJobs'[q].kind = "refresh", accJobs'[q].start > ended'
        PROVE tokens'[accJobs'[q].tok].iat > ended'
    <3>1. CASE q = r
      <4>1. i \in 1..Len(tokens) /\ ~Accounts!Revoked(i)
        BY <2>1, <3>1, <1>2, <1>3 DEF Accounts!Live
      <4>2. ~(tokens[i].iat < shared.cut) /\ tokens[i].iat \in Nat /\ tokens[i].iat # ended
        BY <4>1, <2>0, TokenTyped DEF Accounts!Revoked, Accounts!Store, Stamped
      <4> QED
        BY <3>1, <4>2, <2>0, <1>0, <1>2, <1>3
    <3>2. CASE q # r
      BY <3>2, <2>0, <2>1, <1>0, <1>2 DEF Steady
    <3> QED
      BY <3>1, <3>2
  <2> QED
    BY <2>0, <2>1, <1>0 DEF Steady, Accounts!Session, Accounts!OfType
<1>8. Single'
  <2> SUFFICES ASSUME accOdd' \cap {"outage", "failover", "double"} = {} PROVE Single'
    BY DEF Single
  <2>0. accOdd \cap {"outage", "failover", "double"} = {} /\ accUp
    BY <1>0 DEF Steady
  <2>1. ASSUME NEW q \in Req, accJobs'[q].kind = "reset" PROVE accJobs'[q].tok \notin shared'.used
    <3>1. CASE q = r
      BY <3>1, <2>0, <2>1, <1>0, <1>2, <1>3 DEF Accounts!Live, Accounts!Revoked, Accounts!Store
    <3>2. CASE q # r
      BY <3>2, <2>0, <2>1, <1>0, <1>2 DEF Single
    <3> QED
      BY <3>1, <3>2
  <2> QED
    BY <2>0, <2>1, <1>0 DEF Single
<1> QED
  BY <1>4, <1>5, <1>6, <1>7, <1>8

(* Every kind of request.                                                  *)
LEMMA RequestsKeep ==
  ASSUME SessionsInv, NEW r \in Req, NEW i \in 1..Len(tokens), NEW c \in Accounts!Code,
         \/ Accounts!Skip(r, i) \/ Accounts!Verify(r, i) \/ Accounts!Enrol(r, i) \/ Accounts!Activate(r, i) \/ Accounts!Disable(r, i)
         \/ Accounts!ChangePassword(r, i) \/ Accounts!ResetPassword(r, i) \/ Accounts!Refresh(r, i) \/ Accounts!Recover(r, i, c)
  PROVE  SessionsInv'
<1>0. i \in Nat /\ i <= Len(tokens) /\ c \in Nat /\ user.secret \in Nat /\ 0 \in Nat
  BY AccountsBounds DEF SessionsInv, AccountsShape, Login, Accounts!Code
<1> USE DEF RequestKinds
<1>1. CASE Accounts!Skip(r, i)
  <2>1. Accounts!Begins(r, "skip", i, 0) /\ i \in Accounts!OfType("challenge")
    BY <1>1 DEF Accounts!Skip
  <2> QED
    BY <2>1, <1>0, BeginsKeeps
<1>2. CASE Accounts!Verify(r, i)
  <2>1. Accounts!Begins(r, "verify", i, user.secret) /\ i \in Accounts!OfType("challenge") /\ user.secret # 0
    BY <1>2 DEF Accounts!Verify
  <2> QED
    BY <2>1, <1>0, BeginsKeeps
<1>3. CASE Accounts!Enrol(r, i)
  <2>1. Accounts!Begins(r, "enrol", i, 0)
    BY <1>3 DEF Accounts!Enrol
  <2> QED
    BY <2>1, <1>0, BeginsKeeps
<1>4. CASE Accounts!Activate(r, i)
  <2>1. Accounts!Begins(r, "activate", i, user.secret) /\ user.secret # 0
    BY <1>4 DEF Accounts!Activate
  <2> QED
    BY <2>1, <1>0, BeginsKeeps
<1>5. CASE Accounts!Disable(r, i)
  <2>1. Accounts!Begins(r, "disable", i, 0)
    BY <1>5 DEF Accounts!Disable
  <2> QED
    BY <2>1, <1>0, BeginsKeeps
<1>6. CASE Accounts!ChangePassword(r, i)
  <2>1. Accounts!Begins(r, "change", i, 0)
    BY <1>6 DEF Accounts!ChangePassword
  <2> QED
    BY <2>1, <1>0, BeginsKeeps
<1>7. CASE Accounts!ResetPassword(r, i)
  <2>1. Accounts!Begins(r, "reset", i, 0) /\ i \in Accounts!OfType("reset") \cap Accounts!Live
    BY <1>7 DEF Accounts!ResetPassword
  <2> QED
    BY <2>1, <1>0, BeginsKeeps
<1>8. CASE Accounts!Refresh(r, i)
  <2>1. Accounts!Begins(r, "refresh", i, 0) /\ i \in Accounts!OfType("refresh") \cap Accounts!Live
    BY <1>8 DEF Accounts!Refresh
  <2> QED
    BY <2>1, <1>0, BeginsKeeps
<1>9. CASE Accounts!Recover(r, i, c)
  <2>1. Accounts!Begins(r, "recover", i, c) /\ i \in Accounts!OfType("challenge") /\ user.codes # {}
    BY <1>9 DEF Accounts!Recover
  <2> QED
    BY <2>1, <1>0, BeginsKeeps
<1> QED
  BY <1>1, <1>2, <1>3, <1>4, <1>5, <1>6, <1>7, <1>8, <1>9

(* Redis failing and answering again.                                      *)
LEMMA RedisKeeps ==
  ASSUME SessionsInv, Accounts!RedisFails \/ Accounts!RedisReturns PROVE SessionsInv'
<1> USE DEF SessionsInv
<1>0. /\ UNCHANGED <<user, tokens, shared, local, accNow, accJobs, ended, pairs>> /\ accUp' \in BOOLEAN
      /\ "failover" \in accOdd' \/ (accOdd' = accOdd /\ ~accUp)
      /\ accOdd \subseteq accOdd'
  BY DEF Accounts!RedisFails, Accounts!RedisReturns
<1>1. AccountsShape'
  <2>1. accSpent' \in [requests : Nat, secrets : 0..MaxSecrets, outages : Nat]
    BY DEF Accounts!RedisFails, Accounts!RedisReturns, AccountsShape
  <2> QED
    BY <2>1, <1>0 DEF AccountsShape
<1>2. Stamped' /\ Cuts' /\ Accounts!FactorConsistent'
  BY <1>0 DEF Stamped, Cuts, Accounts!FactorConsistent
<1>3. Requests'
  BY <1>0 DEF Requests, Asked, Accounts!OfType
<1>4. Steady' /\ Single'
  BY <1>0 DEF Steady, Single
<1> QED
  BY <1>1, <1>2, <1>3, <1>4

(* Every step keeps the invariant of Accounts.                             *)
LEMMA SessionsStep == SessionsInv /\ [Accounts!Next]_(Accounts!vars) => SessionsInv'
<1> SUFFICES ASSUME SessionsInv, [Accounts!Next]_(Accounts!vars) PROVE SessionsInv'
  OBVIOUS
<1>1. ASSUME NEW r \in Req, Accounts!Login(r) PROVE SessionsInv'
  <2>1. Accounts!Begins(r, "login", 0, 0) /\ 0 <= Len(tokens) /\ "login" \in RequestKinds \ {"none"}
    BY <1>1 DEF Accounts!Login, Accounts!NoToken, RequestKinds, SessionsInv, AccountsShape
  <2> QED
    BY <2>1, BeginsKeeps
<1>2. CASE UNCHANGED Accounts!vars
  BY <1>2 DEF Accounts!vars, SessionsInv, AccountsShape, Stamped, Cuts, Requests, Asked,
      Accounts!OfType, Steady, Accounts!Session, Single,
     Accounts!FactorConsistent
<1> QED
  BY <1>1, <1>2, CommitLoginKeeps, SignInKeeps, CommitEnrolKeeps, CommitActivateKeeps,
     CommitDisableKeeps, CommitPasswordKeeps, CommitResetKeeps, ConsumeKeeps, MintKeeps, DropKeeps,
     RequestsKeep, SignOutsKeep, ForgotKeeps, RedisKeeps DEF Accounts!Next, Accounts!Code

(* It covers the properties.                                               *)
LEMMA SessionsInvImplies ==
  SessionsInv => Accounts!TypeOK /\ Accounts!OldSessionsEnd /\ Accounts!NewSessionsWork /\ Accounts!ExchangedOnce /\ Accounts!FactorConsistent
<1> SUFFICES ASSUME SessionsInv
             PROVE  Accounts!TypeOK /\ Accounts!OldSessionsEnd /\ Accounts!NewSessionsWork /\ Accounts!ExchangedOnce /\ Accounts!FactorConsistent
  OBVIOUS
<1> USE DEF SessionsInv
<1>1. Accounts!TypeOK
  <2>1. \A r \in Req : accJobs[r].pc \in {"idle", "loaded", "mint"}
    BY DEF AccountsShape, SessionJob
  <2>2. user.mfa \in BOOLEAN /\ user.secret \in 0..MaxSecrets /\ user.codes \subseteq Accounts!Code
    BY DEF AccountsShape, Login
  <2>3. shared.cut < accNow /\ local.cut < accNow
    BY DEF AccountsShape, Kept, Cuts
  <2> QED
    BY <2>1, <2>2, <2>3, TokenTyped DEF Accounts!TypeOK, TokenTypes, Stamped, Cuts
<1>2. Accounts!OldSessionsEnd
  <2> SUFFICES ASSUME accOdd \cap {"outage", "failover"} = {}, NEW i \in Accounts!Session \cap Accounts!Live,
                      tokens[i].auth < ended
               PROVE  tokens[i].iat > ended /\ tokens[i].slip
    BY DEF Accounts!OldSessionsEnd
  <2>1. i \in 1..Len(tokens) /\ ~(tokens[i].iat < shared.cut) /\ shared.cut = ended
    BY DEF Accounts!Live, Accounts!Revoked, Accounts!Store, Steady
  <2>2. tokens[i].iat > ended
    BY <2>1, TokenTyped DEF Stamped, AccountsShape
  <2> QED
    BY <2>2 DEF Steady
<1>3. Accounts!NewSessionsWork
  <2> SUFFICES ASSUME NEW i \in Accounts!Session, tokens[i].iat > ended, pairs[i] = 0
               PROVE  i \in Accounts!Live
    BY DEF Accounts!NewSessionsWork
  <2>1. i \in 1..Len(tokens) /\ tokens[i].iat \in Nat
    BY TokenTyped DEF Accounts!Session, Accounts!OfType
  <2>2. i \notin shared.used /\ i \notin local.used
    BY DEF Cuts
  <2>3. ~(tokens[i].iat < shared.cut) /\ ~(tokens[i].iat < local.cut)
    BY <2>1 DEF Cuts, AccountsShape, Kept
  <2> QED
    BY <2>1, <2>2, <2>3 DEF Accounts!Live, Accounts!Revoked, Accounts!Store
<1>4. Accounts!ExchangedOnce
  BY DEF Accounts!ExchangedOnce, Single, AccountsShape
<1> QED
  BY <1>1, <1>2, <1>3, <1>4


-----------------------------------------------------------------------------
(* Limits: windows, locks and codes                                        *)

(* The longest lock.                                                       *)
Longest == Backoff[Len(Backoff)]

(* Every variable keeps its shape.                                         *)
LimitsShape ==
    /\ limitsNow \in 0..MaxTime /\ limitsUp \in BOOLEAN
    /\ hits \in [Limits!Place -> SUBSET (Nat \X Nat)] /\ fails \in [Limits!Place -> Nat]
    /\ lockedTil \in [Limits!Place -> Nat] /\ \A p \in Limits!Place : lockedTil[p] <= limitsNow + Longest
    /\ seen \in [Limits!Place -> SUBSET (Nat \X Nat)]
    /\ admitted \in Seq(Nat \X Limits!Place) /\ guesses \in Seq(Nat) /\ accepted \in Seq(Nat)
    /\ trying \subseteq Instance /\ (~limitsUp => "failover" \in limitsOdd)

(* The requests a store admitted in the window that starts at t.           *)
Inside(p, t) ==
    {m \in 1..Len(admitted) : /\ admitted[m][2] = p /\ admitted[m][1] >= t
                              /\ admitted[m][1] < t + Window}

(* No store admits more than the limit in any window, because it still     *)
(* remembers whatever it admitted less than a window ago.                  *)
Admits ==
    /\ \A p \in Limits!Place : IsFiniteSet(hits[p]) /\ Cardinality(hits[p]) <= Limit
    /\ \A p \in Limits!Place, t \in 0..MaxTime : Cardinality(Inside(p, t)) <= Limit
    /\ \A k \in 1..Len(admitted) :
         /\ admitted[k][1] <= limitsNow
         /\ admitted[k][1] + Window > limitsNow => <<admitted[k][1], k>> \in hits[admitted[k][2]]
         /\ "failover" \notin limitsOdd => admitted[k][2] = Limits!Redis

(* Unless two instances check a password side by side or Redis failed,     *)
(* Redis counts every wrong guess, and its lock is what the last one asks  *)
(* for.                                                                    *)
Waits ==
    limitsOdd = {} =>
              /\ \A i, j \in trying : i = j
              /\ fails[Limits!Redis] = Len(guesses)
              /\ Len(guesses) >= Threshold
                    => lockedTil[Limits!Redis] = guesses[Len(guesses)] + Backoff[Limits!Tier(Len(guesses))]
              /\ trying # {} => lockedTil[Limits!Redis] <= limitsNow
              /\ \A k \in Threshold..(Len(guesses) - 1) :
                    guesses[k + 1] >= guesses[k] + Backoff[IF k < 2 * Threshold THEN 1 ELSE 2]

(* While Redis answers, a code that was accepted is remembered until it is *)
(* no longer right.                                                        *)
OnceEach ==
    "failover" \notin limitsOdd =>
        /\ \A m \in 1..Len(accepted) :
              \/ limitsNow > accepted[m] + Drift
              \/ \E e \in seen[Limits!Redis] : e[1] = accepted[m] /\ e[2] > accepted[m] + Drift
        /\ \A m, n \in 1..Len(accepted) : accepted[m] = accepted[n] => m = n

(* The inductive invariant of Limits.                                      *)
LimitsInv == LimitsShape /\ Admits /\ Waits /\ OnceEach

-----------------------------------------------------------------------------
(* The instance counts as this module does.                                *)
LEMMA LimitsCounts == \A S : Limits!Cardinality(S) = Cardinality(S)
    BY DEF Limits!Cardinality, Cardinality

(* A longer wait is a wait.                                                *)
LEMMA Above == \A x, g, a, b \in Nat : x >= g + a /\ a >= b => x >= g + b
OBVIOUS

(* The lock of a tier is a number, and grows with the guesses.             *)
LEMMA BackoffOf ==
    /\ \A j \in 1..Len(Backoff) : Backoff[j] \in Nat
    /\ Longest \in Nat
    /\ \A n \in Nat : n >= Threshold => Limits!Tier(n) \in 1..Len(Backoff)
    /\ \A n \in Nat : n >= Threshold
          => Backoff[Limits!Tier(n)] >= Backoff[IF n < 2 * Threshold THEN 1 ELSE 2]
    /\ \A n \in Nat : n >= Threshold => Backoff[Limits!Tier(n)] <= Longest
<1> USE LimitsBounds
<1>1. \A j \in 1..Len(Backoff) : Backoff[j] \in Nat
    BY ElementOfSeq
<1>2. Longest \in Nat
    BY <1>1 DEF Longest
<1>3. ASSUME NEW n \in Nat, n >= Threshold
      PROVE  /\ Limits!Tier(n) \in 1..Len(Backoff)
             /\ n >= 2 * Threshold => Limits!Tier(n) >= 2
    <2> DEFINE t == (n - Threshold) \div Threshold
    <2>1. t \in Nat /\ (n >= 2 * Threshold => t >= 1)
        BY <1>3
    <2> HIDE DEF t
    <2>2. Limits!Tier(n) = 1 + (IF t < Len(Backoff) - 1 THEN t ELSE Len(Backoff) - 1)
        BY DEF Limits!Tier, t
    <2>. QED
        BY <2>1, <2>2
<1>4. ASSUME NEW n \in Nat, n >= Threshold
      PROVE  /\ Backoff[Limits!Tier(n)] >= Backoff[IF n < 2 * Threshold THEN 1 ELSE 2]
             /\ Backoff[Limits!Tier(n)] <= Longest
    <2>1. /\ Limits!Tier(n) \in 1..Len(Backoff) /\ Len(Backoff) \in Nat
          /\ (IF n < 2 * Threshold THEN 1 ELSE 2) <= Limits!Tier(n)
          /\ (IF n < 2 * Threshold THEN 1 ELSE 2) \in 1..Len(Backoff)
        BY <1>3, <1>4
    <2>. QED
        BY <1>1, <2>1 DEF Longest
<1>. QED
    BY <1>1, <1>2, <1>3, <1>4

(* Nothing is counted at the start.                                        *)
LEMMA LimitsStart == Limits!Init => LimitsInv
<1> SUFFICES ASSUME Limits!Init PROVE LimitsInv OBVIOUS
<1> USE LimitsBounds
<1>1. LimitsShape
    BY BackoffOf DEF Limits!Init, LimitsShape, Limits!Place
<1>2. Admits
    <2>1. \A p, t : Inside(p, t) = {}
        BY DEF Limits!Init, Inside
    <2>. QED
        <3>1. IsFiniteSet({}) /\ Cardinality({}) = 0
            BY FS_EmptySet
        <3>2. admitted = <<>> /\ hits = [p \in Limits!Place |-> {}]
            BY DEF Limits!Init
        <3>3. /\ \A p \in Limits!Place : hits[p] = {}
              /\ Len(admitted) = 0
            BY <3>2
        <3>4. \A k : k \notin 1..Len(admitted)
            BY <3>3
        <3>5. \A p \in Limits!Place : IsFiniteSet(hits[p]) /\ Cardinality(hits[p]) <= Limit
            <4>1. \A p \in Limits!Place : IsFiniteSet(hits[p]) /\ Cardinality(hits[p]) = 0
                BY <3>1, <3>3, Zenon
            <4>. QED
                BY <4>1
        <3>6. \A p, t : Cardinality(Inside(p, t)) <= Limit
            <4>1. \A p, t : Cardinality(Inside(p, t)) = 0
                BY <2>1, <3>1, Zenon
            <4>. QED
                BY <4>1
        <3>. QED
            BY <3>4, <3>5, <3>6 DEF Admits
<1>3. Waits
    BY DEF Limits!Init, Waits, Limits!Place
<1>4. OnceEach
    BY DEF Limits!Init, OnceEach
<1>. QED
    BY <1>1, <1>2, <1>3, <1>4 DEF LimitsInv

-----------------------------------------------------------------------------
(* Steps that admit nothing keep the windows.                              *)
LEMMA AdmitsKept ==
    ASSUME Admits, UNCHANGED <<hits, admitted>>, limitsNow' >= limitsNow, limitsNow \in Nat, limitsNow' \in Nat,
           Window \in Nat, admitted \in Seq(Nat \X Limits!Place),
           "failover" \in limitsOdd => "failover" \in limitsOdd'
    PROVE  Admits'
<1>1. \A k \in 1..Len(admitted) : admitted[k] \in Nat \X Limits!Place
    BY ElementOfSeq
<1>2. \A p, t : Inside(p, t)' = Inside(p, t)
    BY DEF Inside
<1>3. ASSUME NEW k \in 1..Len(admitted)
      PROVE  /\ admitted[k][1] <= limitsNow'
             /\ admitted[k][1] + Window > limitsNow' => <<admitted[k][1], k>> \in hits[admitted[k][2]]
             /\ "failover" \notin limitsOdd' => admitted[k][2] = Limits!Redis
    <2>1. admitted[k][1] \in Nat
        BY <1>1
    <2>2. /\ admitted[k][1] <= limitsNow
          /\ admitted[k][1] + Window > limitsNow => <<admitted[k][1], k>> \in hits[admitted[k][2]]
          /\ "failover" \notin limitsOdd => admitted[k][2] = Limits!Redis
        BY DEF Admits
    <2>. QED
        BY <2>1, <2>2
<1>. QED
    BY <1>2, <1>3 DEF Admits

(* Steps that accept no code keep the codes.                               *)
LEMMA OnceEachKept ==
    ASSUME OnceEach, UNCHANGED <<seen, accepted>>, limitsNow' >= limitsNow, limitsNow \in Nat, limitsNow' \in Nat,
           Drift \in Nat, accepted \in Seq(Nat),
           "failover" \in limitsOdd => "failover" \in limitsOdd'
    PROVE  OnceEach'
<1>1. \A k \in 1..Len(accepted) : accepted[k] \in Nat
    BY ElementOfSeq
<1>2. \A k \in 1..Len(accepted) :
          limitsNow > accepted[k] + Drift => limitsNow' > accepted[k] + Drift
    BY <1>1
<1>. QED
    BY <1>2 DEF OnceEach

(* Steps that check no password keep the locks.                            *)
LEMMA WaitsKept ==
    ASSUME Waits, UNCHANGED <<fails, lockedTil, guesses, trying>>, limitsNow' >= limitsNow,
           limitsNow \in Nat, limitsNow' \in Nat, lockedTil[Limits!Redis] \in Nat, limitsOdd \subseteq limitsOdd'
    PROVE  Waits'
<1>1. \A n : Limits!Tier(n)' = Limits!Tier(n)
    BY DEF Limits!Tier
<1>. QED
    BY <1>1 DEF Waits

(* Time passes; Redis fails and answers again.                             *)
LEMMA ClockStep ==
    ASSUME LimitsInv, Limits!Tick \/ Limits!RedisFails \/ Limits!RedisReturns
    PROVE  LimitsInv'
<1> USE LimitsBounds
<1>1. /\ UNCHANGED <<hits, fails, lockedTil, seen, admitted, guesses, accepted, trying>>
      /\ limitsNow' \in 0..MaxTime /\ limitsNow' >= limitsNow /\ limitsOdd \subseteq limitsOdd' /\ limitsUp' \in BOOLEAN
      /\ ~limitsUp' => "failover" \in limitsOdd'
    <2>1. limitsNow \in 0..MaxTime /\ limitsUp \in BOOLEAN /\ (~limitsUp => "failover" \in limitsOdd)
        BY DEF LimitsInv, LimitsShape
    <2>2. CASE Limits!Tick
        BY <2>1, <2>2 DEF Limits!Tick
    <2>3. CASE Limits!RedisFails
        <3>1. limitsUp' = FALSE /\ limitsOdd' = limitsOdd \cup {"failover"} /\ limitsNow' = limitsNow
            BY <2>3 DEF Limits!RedisFails
        <3>2. limitsUp' \in BOOLEAN
            BY <3>1
        <3>3. limitsNow' \in 0..MaxTime /\ limitsNow' >= limitsNow
            BY <2>1, <3>1
        <3>. QED
            BY <2>3, <3>1, <3>2, <3>3 DEF Limits!RedisFails
    <2>4. CASE Limits!RedisReturns
        BY <2>1, <2>4 DEF Limits!RedisReturns
    <2>. QED
        BY <2>2, <2>3, <2>4
<1>2. LimitsShape'
    BY <1>1, BackoffOf DEF LimitsInv, LimitsShape
<1>3. Admits' /\ OnceEach'
    BY <1>1, AdmitsKept, OnceEachKept DEF LimitsInv, LimitsShape
<1>4. Waits'
    BY <1>1, WaitsKept DEF LimitsInv, LimitsShape, Limits!Place
<1>. QED
    BY <1>2, <1>3, <1>4 DEF LimitsInv

-----------------------------------------------------------------------------
(* A request is admitted where fewer than the limit are in the window.     *)
LEMMA RequestStep ==
    ASSUME LimitsInv, NEW i \in Instance, Limits!Request(i)
    PROVE  LimitsInv'
<1> USE LimitsBounds
<1> DEFINE p == Limits!At(i)
           recent == Limits!Recent(hits[p], p)
           n == Len(admitted) + 1
<1>1. p \in Limits!Place /\ ("failover" \notin limitsOdd => p = Limits!Redis)
    BY DEF Limits!At, Limits!Place, LimitsInv, LimitsShape
<1>2. /\ recent \subseteq hits[p]
      /\ \A h \in hits[p] : h \in Nat \X Nat /\ (h[1] + Window > limitsNow => h \in recent)
    BY <1>1 DEF Limits!Recent, LimitsInv, LimitsShape
<1>3. IsFiniteSet(recent) /\ Cardinality(recent) <= Limit /\ Cardinality(recent) \in Nat
    <2>1. IsFiniteSet(hits[p]) /\ Cardinality(hits[p]) <= Limit
        BY <1>1 DEF LimitsInv, Admits
    <2>2. Cardinality(hits[p]) \in Nat
        BY <2>1, FS_CardinalityType
    <2>. QED
        BY <1>2, <2>1, <2>2, FS_Subset, FS_CardinalityType
<1>4. /\ UNCHANGED <<limitsNow, limitsUp, fails, lockedTil, seen, guesses, accepted, limitsOdd, trying>>
      /\ IF Cardinality(recent) >= Limit
         THEN hits' = [hits EXCEPT ![p] = recent] /\ admitted' = admitted
         ELSE /\ hits' = [hits EXCEPT ![p] = recent \cup {<<limitsNow, n>>}]
              /\ admitted' = Append(admitted, <<limitsNow, p>>)
    BY LimitsCounts DEF Limits!Request
<1> HIDE DEF p, recent
<1>5. admitted \in Seq(Nat \X Limits!Place) /\ limitsNow \in Nat /\ n \in Nat
    BY DEF LimitsInv, LimitsShape
<1>6. OnceEach' /\ Waits'
    BY <1>4, WaitsKept, OnceEachKept DEF LimitsInv, LimitsShape, Limits!Place
<1>7. \A k \in 1..Len(admitted) : admitted[k] \in Nat \X Limits!Place
    BY <1>5, ElementOfSeq
<1>8. CASE Cardinality(recent) >= Limit
    <2>1. hits' \in [Limits!Place -> SUBSET (Nat \X Nat)] /\ hits'[p] = recent
          /\ \A q \in Limits!Place : q # p => hits'[q] = hits[q]
        BY <1>1, <1>2, <1>4, <1>8 DEF LimitsInv, LimitsShape
    <2>2. LimitsShape'
        BY <1>4, <1>8, <2>1 DEF LimitsInv, LimitsShape
    <2>3. \A k \in 1..Len(admitted) :
              admitted[k][1] + Window > limitsNow => <<admitted[k][1], k>> \in hits'[admitted[k][2]]
        BY <1>2, <1>7, <2>1 DEF LimitsInv, Admits
    <2>4. \A q, t : Inside(q, t)' = Inside(q, t)
        BY <1>4, <1>8 DEF Inside
    <2>5. Admits'
        BY <1>3, <1>4, <1>8, <2>1, <2>3, <2>4 DEF LimitsInv, Admits
    <2>. QED
        BY <1>6, <2>2, <2>5 DEF LimitsInv
<1>9. CASE ~(Cardinality(recent) >= Limit)
    <2> DEFINE mine == recent \cup {<<limitsNow, n>>}
    <2>1. /\ hits' = [hits EXCEPT ![p] = mine] /\ admitted' = Append(admitted, <<limitsNow, p>>)
        BY <1>4, <1>9
    <2>2. mine \subseteq Nat \X Nat
        BY <1>2, <1>5
    <2>3. /\ hits' \in [Limits!Place -> SUBSET (Nat \X Nat)] /\ hits'[p] = mine
          /\ \A q \in Limits!Place : q # p => hits'[q] = hits[q]
        BY <1>1, <2>1, <2>2 DEF LimitsInv, LimitsShape
    <2>4. IsFiniteSet(mine) /\ Cardinality(mine) <= Limit
        <3>1. /\ IsFiniteSet(recent \cup {<<limitsNow, n>>})
              /\ Cardinality(recent \cup {<<limitsNow, n>>}) =
                   IF <<limitsNow, n>> \in recent THEN Cardinality(recent) ELSE Cardinality(recent) + 1
            BY <1>3, FS_AddElement
        <3>. QED
            BY <1>3, <1>9, <3>1
    <2>5. /\ admitted' \in Seq(Nat \X Limits!Place) /\ Len(admitted') = n
          /\ \A k \in 1..Len(admitted) : admitted'[k] = admitted[k]
          /\ admitted'[n] = <<limitsNow, p>>
        BY <1>1, <1>5, <2>1, AppendProperties
    <2>6. LimitsShape'
        BY <1>4, <2>3, <2>5 DEF LimitsInv, LimitsShape
    <2> HIDE DEF mine
    <2>7. ASSUME NEW k \in 1..Len(admitted')
          PROVE  /\ admitted'[k][1] <= limitsNow' /\ admitted'[k][1] \in Nat
                 /\ admitted'[k][1] + Window > limitsNow'
                       => <<admitted'[k][1], k>> \in hits'[admitted'[k][2]]
                 /\ "failover" \notin limitsOdd' => admitted'[k][2] = Limits!Redis
        <3>1. CASE k = n
            BY <1>1, <1>4, <1>5, <2>3, <2>5, <3>1 DEF mine
        <3>2. CASE k # n
            <4>1. k \in 1..Len(admitted) /\ admitted'[k] = admitted[k]
                <5>1. k \in 1..n /\ n = Len(admitted) + 1 /\ Len(admitted) \in Nat
                    BY <1>5, <2>5
                <5>2. k \in 1..Len(admitted)
                    BY <3>2, <5>1
                <5>. QED
                    BY <2>5, <5>2
            <4>2. /\ admitted[k][1] <= limitsNow
                  /\ admitted[k][1] + Window > limitsNow => <<admitted[k][1], k>> \in hits[admitted[k][2]]
                  /\ "failover" \notin limitsOdd => admitted[k][2] = Limits!Redis
                BY <4>1 DEF LimitsInv, Admits
            <4>3. admitted[k][1] + Window > limitsNow => <<admitted[k][1], k>> \in hits'[admitted[k][2]]
                BY <1>2, <1>7, <2>3, <4>1, <4>2 DEF mine
            <4>. QED
                BY <1>4, <1>7, <4>1, <4>2, <4>3
        <3>. QED
            BY <3>1, <3>2
    <2>8. ASSUME NEW q \in Limits!Place, NEW t \in 0..MaxTime
          PROVE  Cardinality(Inside(q, t)') <= Limit
        <3> DEFINE new == Inside(q, t)'
        <3>1. new = {m \in 1..n : /\ admitted'[m][2] = q /\ admitted'[m][1] >= t
                                   /\ admitted'[m][1] < t + Window}
            BY <2>5 DEF Inside
        <3>2. CASE n \notin new
            <4>1. new = Inside(q, t)
                <5>1. \A m \in 1..n : m # n => m \in 1..Len(admitted) /\ admitted'[m] = admitted[m]
                    BY <1>5, <2>5, LenProperties
                <5>2. \A m \in 1..Len(admitted) : m \in 1..n /\ admitted'[m] = admitted[m]
                    BY <1>5, <2>5, LenProperties
                <5>. QED
                    BY <3>1, <3>2, <5>1, <5>2 DEF Inside
            <4>. QED
                BY <4>1 DEF LimitsInv, Admits
        <3>3. CASE n \in new
            <4> DEFINE f == [m \in new |-> <<admitted'[m][1], m>>]
            <4>1. q = p /\ limitsNow >= t /\ limitsNow < t + Window
                BY <2>5, <3>1, <3>3
            <4>2. ASSUME NEW m \in new PROVE f[m] \in mine
                <5>1. CASE m = n
                    BY <2>5, <5>1 DEF mine
                <5>2. CASE m # n
                    <6>1. /\ m \in 1..Len(admitted) /\ admitted'[m] = admitted[m]
                          /\ admitted[m][2] = p /\ admitted[m][1] >= t
                        <7>1. m \in 1..n /\ admitted'[m][2] = p /\ admitted'[m][1] >= t
                            BY <3>1, <4>1
                        <7>2. m \in 1..Len(admitted)
                            BY <1>5, <5>2, <7>1, LenProperties
                        <7>. QED
                            BY <2>5, <7>1, <7>2
                    <6>2. admitted[m][1] + Window > limitsNow
                        BY <1>5, <1>7, <4>1, <6>1
                    <6>3. <<admitted[m][1], m>> \in hits[p]
                        BY <6>1, <6>2 DEF LimitsInv, Admits
                    <6>. QED
                        BY <1>2, <6>1, <6>2, <6>3 DEF mine
                <5>. QED
                    BY <5>1, <5>2
            <4>3. f \in Injection(new, mine)
                BY <4>2 DEF Injection, IsInjective
            <4>4. Cardinality(new) <= Cardinality(mine) /\ IsFiniteSet(new)
                BY <2>4, <4>3, FS_Injection
            <4>5. Cardinality(new) \in Nat /\ Cardinality(mine) \in Nat
                BY <2>4, <4>4, FS_CardinalityType
            <4>. QED
                BY <2>4, <4>4, <4>5
        <3>. QED
            BY <3>2, <3>3
    <2>9. Admits'
        BY <2>3, <2>4, <2>7, <2>8 DEF LimitsInv, Admits
    <2>. QED
        BY <1>6, <2>6, <2>9 DEF LimitsInv
<1>. QED
    BY <1>8, <1>9

-----------------------------------------------------------------------------
(* A password is checked when no lock runs.                                *)
LEMMA StartLoginStep ==
    ASSUME LimitsInv, NEW i \in Instance, Limits!StartLogin(i)
    PROVE  LimitsInv'
<1> USE LimitsBounds
<1>1. /\ UNCHANGED <<limitsNow, limitsUp, hits, fails, lockedTil, seen, admitted, guesses, accepted>>
      /\ trying' = trying \cup {i} /\ limitsOdd \subseteq limitsOdd'
      /\ limitsOdd' = {} => trying = {} /\ limitsOdd = {}
      /\ "failover" \in limitsOdd' => "failover" \in limitsOdd
    BY DEF Limits!StartLogin
<1>2. LimitsShape'
    BY <1>1 DEF LimitsInv, LimitsShape
<1>3. Admits' /\ OnceEach'
    BY <1>1, AdmitsKept, OnceEachKept DEF LimitsInv, LimitsShape
<1>4. Waits'
    <2> SUFFICES ASSUME limitsOdd' = {} PROVE Waits'
        BY DEF Waits
    <2>1. trying' = {i} /\ Waits /\ limitsOdd = {} /\ lockedTil[Limits!Redis] \in Nat /\ limitsNow \in Nat
        BY <1>1 DEF LimitsInv, LimitsShape, Limits!Place
    <2>2. limitsUp = TRUE
        BY <2>1 DEF LimitsInv, LimitsShape
    <2>3. lockedTil[Limits!Redis] <= limitsNow
        BY <2>1, <2>2 DEF Limits!StartLogin, Limits!Locked, Limits!At
    <2>4. \A n : Limits!Tier(n)' = Limits!Tier(n)
        BY DEF Limits!Tier
    <2>. QED
        BY <1>1, <2>1, <2>3, <2>4 DEF Waits
<1>. QED
    BY <1>2, <1>3, <1>4 DEF LimitsInv

(* A wrong guess is counted, and locks from the threshold on.              *)
LEMMA WrongPasswordStep ==
    ASSUME LimitsInv, NEW i \in Instance, Limits!WrongPassword(i)
    PROVE  LimitsInv'
<1> USE LimitsBounds
<1> DEFINE p == Limits!At(i)
           n == fails[p] + 1
<1>1. /\ i \in trying /\ fails' = [fails EXCEPT ![p] = n]
      /\ lockedTil' = IF n >= Threshold THEN [lockedTil EXCEPT ![p] = Limits!LockUntil(n)] ELSE lockedTil
      /\ guesses' = Append(guesses, limitsNow) /\ trying' = trying \ {i}
      /\ UNCHANGED <<limitsNow, limitsUp, hits, seen, admitted, accepted, limitsOdd>>
    BY DEF Limits!WrongPassword
<1>2. p \in Limits!Place /\ ("failover" \notin limitsOdd => p = Limits!Redis)
    BY DEF Limits!At, Limits!Place, LimitsInv, LimitsShape
<1>3. fails[p] \in Nat /\ n \in Nat /\ limitsNow \in Nat
    BY <1>2 DEF LimitsInv, LimitsShape
<1> HIDE DEF p, n
<1>4. n >= Threshold => /\ Limits!LockUntil(n) = limitsNow + Backoff[Limits!Tier(n)] /\ Limits!LockUntil(n) \in Nat
                        /\ Limits!LockUntil(n) <= limitsNow + Longest
    BY <1>3, BackoffOf DEF Limits!LockUntil
<1>5. /\ fails' \in [Limits!Place -> Nat] /\ lockedTil' \in [Limits!Place -> Nat]
      /\ \A q \in Limits!Place : lockedTil'[q] <= limitsNow + Longest
      /\ n >= Threshold => lockedTil'[p] = Limits!LockUntil(n)
      /\ n < Threshold => lockedTil' = lockedTil
      /\ fails'[p] = n
    BY <1>1, <1>2, <1>3, <1>4 DEF LimitsInv, LimitsShape
<1>6. /\ guesses \in Seq(Nat) /\ guesses' \in Seq(Nat) /\ Len(guesses') = Len(guesses) + 1
      /\ \A k \in 1..Len(guesses) : guesses'[k] = guesses[k] /\ guesses[k] \in Nat
      /\ guesses'[Len(guesses) + 1] = limitsNow /\ Len(guesses) \in Nat
    <2>1. guesses \in Seq(Nat) /\ Len(guesses) \in Nat
        BY LenProperties DEF LimitsInv, LimitsShape
    <2>2. \A k \in 1..Len(guesses) : guesses[k] \in Nat
        BY <2>1, ElementOfSeq
    <2>. QED
        BY <1>1, <1>3, <2>1, <2>2, AppendProperties
<1>7. LimitsShape'
    BY <1>1, <1>5, <1>6 DEF LimitsInv, LimitsShape
<1>8. Admits' /\ OnceEach'
    BY <1>1, AdmitsKept, OnceEachKept DEF LimitsInv, LimitsShape
<1>9. Waits'
    <2> SUFFICES ASSUME limitsOdd = {} PROVE Waits'
        BY <1>1 DEF Waits
    <2>1. /\ p = Limits!Redis /\ fails[Limits!Redis] = Len(guesses) /\ trying = {i} /\ lockedTil[Limits!Redis] <= limitsNow
          /\ Len(guesses) >= Threshold
                => lockedTil[Limits!Redis] = guesses[Len(guesses)] + Backoff[Limits!Tier(Len(guesses))]
          /\ \A k \in Threshold..(Len(guesses) - 1) :
                guesses[k + 1] >= guesses[k] + Backoff[IF k < 2 * Threshold THEN 1 ELSE 2]
        BY <1>1, <1>2 DEF LimitsInv, Waits
    <2>2. n = Len(guesses')
        BY <1>6, <2>1 DEF n
    <2>3. Len(guesses') >= Threshold
             => lockedTil'[Limits!Redis] = guesses'[Len(guesses')] + Backoff[Limits!Tier(Len(guesses'))]
        BY <1>4, <1>5, <1>6, <2>1, <2>2
    <2>4. ASSUME NEW k \in Threshold..(Len(guesses') - 1)
          PROVE  guesses'[k + 1] >= guesses'[k] + Backoff[IF k < 2 * Threshold THEN 1 ELSE 2]
        <3>1. CASE k = Len(guesses)
            <4> DEFINE b == IF k < 2 * Threshold THEN 1 ELSE 2
            <4>1. /\ k \in Nat /\ k >= Threshold /\ k \in 1..Len(guesses)
                  /\ guesses'[k] = guesses[k] /\ guesses[k] \in Nat
                BY <1>6, <3>1
            <4>2. limitsNow >= guesses[k] + Backoff[Limits!Tier(k)]
                BY <2>1, <3>1, <4>1
            <4>3. b \in 1..Len(Backoff) /\ Limits!Tier(k) \in 1..Len(Backoff)
                BY <4>1, BackoffOf
            <4>4. Backoff[b] \in Nat /\ Backoff[Limits!Tier(k)] \in Nat /\ Backoff[Limits!Tier(k)] >= Backoff[b]
                BY <4>1, <4>3, BackoffOf
            <4>5. guesses'[k + 1] = limitsNow
                BY <1>6, <3>1
            <4> HIDE DEF b
            <4>6. limitsNow >= guesses[k] + Backoff[b]
                BY <1>3, <4>1, <4>2, <4>4, Above
            <4>. QED
                BY <4>1, <4>5, <4>6 DEF b
        <3>2. CASE k # Len(guesses)
            <4>1. k \in Threshold..(Len(guesses) - 1) /\ k \in 1..Len(guesses)
                  /\ k + 1 \in 1..Len(guesses)
                BY <1>6, <3>2
            <4>. QED
                BY <1>6, <2>1, <4>1
        <3>. QED
            BY <3>1, <3>2
    <2>5. \A m : Limits!Tier(m)' = Limits!Tier(m)
        BY DEF Limits!Tier
    <2>. QED
        BY <1>1, <1>5, <2>1, <2>2, <2>3, <2>4, <2>5 DEF Waits
<1>. QED
    BY <1>7, <1>8, <1>9 DEF LimitsInv

(* A right password forgets the wrong ones; a check may fail.              *)
LEMMA ForgetStep ==
    ASSUME LimitsInv, (\E i \in Instance : Limits!RightPassword(i)) \/ Limits!CountExpires
    PROVE  LimitsInv'
<1> USE LimitsBounds
<1>1. PICK p \in Limits!Place :
        /\ fails' = [fails EXCEPT ![p] = 0]
        /\ lockedTil' = lockedTil \/ lockedTil' = [lockedTil EXCEPT ![p] = 0]
        /\ guesses' = <<>> /\ trying' \subseteq trying
        /\ UNCHANGED <<limitsNow, limitsUp, hits, seen, admitted, accepted, limitsOdd>>
        /\ "failover" \notin limitsOdd => p = Limits!Redis
    <2>1. CASE Limits!CountExpires
        BY <2>1 DEF Limits!CountExpires, Limits!Place
    <2>2. ASSUME NEW i \in Instance, Limits!RightPassword(i)
          PROVE  /\ Limits!At(i) \in Limits!Place /\ fails' = [fails EXCEPT ![Limits!At(i)] = 0]
                 /\ lockedTil' = [lockedTil EXCEPT ![Limits!At(i)] = 0]
                 /\ guesses' = <<>> /\ trying' \subseteq trying
                 /\ UNCHANGED <<limitsNow, limitsUp, hits, seen, admitted, accepted, limitsOdd>>
                 /\ "failover" \notin limitsOdd => Limits!At(i) = Limits!Redis
        BY <2>2 DEF Limits!RightPassword, Limits!At, Limits!Place, LimitsInv, LimitsShape
    <2>. QED
        BY <2>1, <2>2
<1>2. limitsNow \in Nat /\ Longest \in Nat
    BY BackoffOf DEF LimitsInv, LimitsShape
<1>3. /\ fails' \in [Limits!Place -> Nat] /\ fails'[p] = 0 /\ lockedTil' \in [Limits!Place -> Nat]
      /\ \A q \in Limits!Place : lockedTil'[q] <= limitsNow + Longest /\ lockedTil'[q] <= lockedTil[q]
    <2>1. fails' \in [Limits!Place -> Nat] /\ fails'[p] = 0
        BY <1>1 DEF LimitsInv, LimitsShape
    <2>2. lockedTil \in [Limits!Place -> Nat] /\ \A q \in Limits!Place : lockedTil[q] <= limitsNow + Longest
        BY DEF LimitsInv, LimitsShape
    <2>3. CASE lockedTil' = lockedTil
        BY <2>1, <2>2, <2>3
    <2>4. CASE lockedTil' = [lockedTil EXCEPT ![p] = 0]
        <3>1. lockedTil' \in [Limits!Place -> Nat] /\ lockedTil'[p] = 0
              /\ \A q \in Limits!Place : q # p => lockedTil'[q] = lockedTil[q]
            BY <2>2, <2>4
        <3>2. ASSUME NEW q \in Limits!Place
              PROVE  lockedTil'[q] <= limitsNow + Longest /\ lockedTil'[q] <= lockedTil[q]
            BY <1>2, <2>2, <3>1
        <3>. QED
            BY <2>1, <3>1, <3>2
    <2>. QED
        BY <1>1, <2>3, <2>4
<1>4. LimitsShape'
    BY <1>1, <1>3 DEF LimitsInv, LimitsShape
<1>5. Admits' /\ OnceEach'
    BY <1>1, AdmitsKept, OnceEachKept DEF LimitsInv, LimitsShape
<1>6. Waits'
    <2>1. Len(guesses') = 0
        BY <1>1
    <2>2. limitsOdd = {} => p = Limits!Redis /\ lockedTil'[Limits!Redis] <= lockedTil[Limits!Redis]
                            /\ lockedTil'[Limits!Redis] \in Nat /\ lockedTil[Limits!Redis] \in Nat
        BY <1>1, <1>3 DEF LimitsInv, LimitsShape
    <2>. QED
        BY <1>1, <1>2, <1>3, <2>1, <2>2 DEF LimitsInv, Waits
<1>. QED
    BY <1>4, <1>5, <1>6 DEF LimitsInv

-----------------------------------------------------------------------------
(* A code is accepted if nobody remembers it.                              *)
LEMMA UseCodeStep ==
    ASSUME LimitsInv, NEW i \in Instance, NEW c \in 0..MaxTime, Limits!UseCode(i, c)
    PROVE  LimitsInv'
<1> USE LimitsBounds
<1> DEFINE p == Limits!At(i)
           kept == Limits!Remembered(seen[p])
<1>1. p \in Limits!Place /\ ("failover" \notin limitsOdd => p = Limits!Redis)
    BY DEF Limits!At, Limits!Place, LimitsInv, LimitsShape
<1>2. /\ kept = {e \in seen[p] : e[2] > limitsNow} /\ kept \subseteq Nat \X Nat
    BY <1>1 DEF Limits!Remembered, LimitsInv, LimitsShape
<1>3. /\ UNCHANGED <<limitsNow, limitsUp, hits, fails, lockedTil, admitted, guesses, limitsOdd, trying>>
      /\ Limits!InWindow(c)
      /\ \/ /\ \E e \in kept : e[1] = c
            /\ seen' = [seen EXCEPT ![p] = kept] /\ accepted' = accepted
         \/ /\ ~\E e \in kept : e[1] = c
            /\ seen' = [seen EXCEPT ![p] = kept \cup {<<c, limitsNow + CodeTtl>>}]
            /\ accepted' = Append(accepted, c)
    BY DEF Limits!UseCode
<1> HIDE DEF p, kept
<1>4. limitsNow \in Nat /\ accepted \in Seq(Nat) /\ \A k \in 1..Len(accepted) : accepted[k] \in Nat
    BY ElementOfSeq DEF LimitsInv, LimitsShape
<1>5. /\ seen' \in [Limits!Place -> SUBSET (Nat \X Nat)] /\ kept \subseteq seen'[p]
      /\ accepted' \in Seq(Nat)
    <2>1. seen \in [Limits!Place -> SUBSET (Nat \X Nat)] /\ <<c, limitsNow + CodeTtl>> \in Nat \X Nat
        BY <1>4 DEF LimitsInv, LimitsShape
    <2>2. CASE accepted' = accepted /\ seen' = [seen EXCEPT ![p] = kept]
        BY <1>1, <1>2, <1>4, <2>1, <2>2
    <2>3. CASE /\ accepted' = Append(accepted, c)
               /\ seen' = [seen EXCEPT ![p] = kept \cup {<<c, limitsNow + CodeTtl>>}]
        <3>1. accepted' \in Seq(Nat)
            BY <1>4, <2>3, AppendProperties
        <3>2. kept \cup {<<c, limitsNow + CodeTtl>>} \in SUBSET (Nat \X Nat)
            BY <1>2, <2>1
        <3>. QED
            BY <1>1, <2>1, <2>3, <3>1, <3>2
    <2>. QED
        BY <1>3, <2>2, <2>3
<1>6. LimitsShape'
    BY <1>3, <1>5 DEF LimitsInv, LimitsShape
<1>7. Admits' /\ Waits'
    BY <1>3, AdmitsKept, WaitsKept DEF LimitsInv, LimitsShape, Limits!Place
<1>8. OnceEach'
    <2> SUFFICES ASSUME "failover" \notin limitsOdd PROVE OnceEach'
        BY <1>3 DEF OnceEach
    <2>1. /\ p = Limits!Redis
          /\ \A m, n \in 1..Len(accepted) : accepted[m] = accepted[n] => m = n
        BY <1>1 DEF LimitsInv, OnceEach
    <2>2. ASSUME NEW m \in 1..Len(accepted)
          PROVE  \/ limitsNow > accepted[m] + Drift
                 \/ \E e \in kept : e[1] = accepted[m] /\ e[2] > accepted[m] + Drift
        <3>1. CASE limitsNow > accepted[m] + Drift
            BY <3>1
        <3>2. CASE ~(limitsNow > accepted[m] + Drift)
            <4>1. PICK e \in seen[Limits!Redis] : e[1] = accepted[m] /\ e[2] > accepted[m] + Drift
                BY <3>2 DEF LimitsInv, OnceEach
            <4>2. e \in Nat \X Nat /\ accepted[m] \in Nat
                BY <1>1, <1>4, <2>1, <4>1 DEF LimitsInv, LimitsShape
            <4>3. e[2] > limitsNow
                BY <1>4, <3>2, <4>1, <4>2
            <4>. QED
                BY <1>2, <2>1, <4>1, <4>3
        <3>. QED
            BY <3>1, <3>2
    <2>3. CASE accepted' = accepted
        BY <1>3, <1>5, <2>1, <2>2, <2>3 DEF OnceEach
    <2>4. CASE accepted' # accepted
        <3>1. /\ ~\E e \in kept : e[1] = c /\ accepted' = Append(accepted, c)
              /\ seen'[p] = kept \cup {<<c, limitsNow + CodeTtl>>}
            BY <1>1, <1>3, <2>4 DEF LimitsInv, LimitsShape
        <3>2. /\ Len(accepted') = Len(accepted) + 1 /\ accepted'[Len(accepted) + 1] = c
              /\ \A k \in 1..Len(accepted) : accepted'[k] = accepted[k]
              /\ Len(accepted) \in Nat
            <4>1. accepted' = Append(accepted, c) /\ Len(accepted) \in Nat
                BY <1>3, <1>4, <2>4, LenProperties
            <4>. QED
                BY <1>4, <4>1, AppendProperties
        <3>3. c + Drift < limitsNow + CodeTtl /\ limitsNow <= c + Drift
            BY <1>3, <1>4 DEF Limits!InWindow
        <3>4. \A m \in 1..Len(accepted) : accepted[m] # c
            <4> SUFFICES ASSUME NEW m \in 1..Len(accepted), accepted[m] = c PROVE FALSE
                OBVIOUS
            <4>1. ~(limitsNow > c + Drift)
                BY <1>4, <3>3
            <4>2. \E e \in kept : e[1] = c
                BY <2>2, <4>1
            <4>. QED
                BY <1>3, <2>4, <4>2
        <3>5. ASSUME NEW m \in 1..Len(accepted')
              PROVE  \/ limitsNow > accepted'[m] + Drift
                     \/ \E e \in seen'[p] : e[1] = accepted'[m] /\ e[2] > accepted'[m] + Drift
            <4>1. CASE m = Len(accepted) + 1
                <5>1. accepted'[m] = c
                    BY <3>2, <4>1
                <5>2. <<c, limitsNow + CodeTtl>> \in seen'[p]
                    BY <3>1
                <5>. QED
                    BY <3>3, <5>1, <5>2
            <4>2. CASE m # Len(accepted) + 1
                <5>1. m \in 1..Len(accepted)
                    BY <3>2, <4>2
                <5>. QED
                    BY <1>5, <2>2, <3>2, <5>1
            <4>. QED
                BY <4>1, <4>2
        <3>6. \A m, n \in 1..Len(accepted') : accepted'[m] = accepted'[n] => m = n
            BY <2>1, <3>2, <3>4
        <3>. QED
            BY <1>3, <2>1, <3>5, <3>6 DEF OnceEach
    <2>. QED
        BY <2>3, <2>4
<1>. QED
    BY <1>6, <1>7, <1>8 DEF LimitsInv

-----------------------------------------------------------------------------
(* Every step keeps the invariant of Limits.                               *)
LEMMA LimitsStep == LimitsInv /\ [Limits!Next]_(Limits!vars) => LimitsInv'
<1> SUFFICES ASSUME LimitsInv, [Limits!Next]_(Limits!vars) PROVE LimitsInv' OBVIOUS
<1>1. CASE UNCHANGED Limits!vars
    <2>1. LimitsShape'
        BY <1>1 DEF Limits!vars, LimitsInv, LimitsShape
    <2>2. Admits' /\ Waits' /\ OnceEach'
        BY <1>1, LimitsBounds, AdmitsKept, WaitsKept, OnceEachKept
           DEF Limits!vars, LimitsInv, LimitsShape, Limits!Place
    <2>. QED
        BY <2>1, <2>2 DEF LimitsInv
<1>2. CASE Limits!Next
    BY <1>2, ClockStep, RequestStep, StartLoginStep, WrongPasswordStep, ForgetStep, UseCodeStep
       DEF Limits!Next
<1>. QED
    BY <1>1, <1>2

(* A set that falls into k parts of at most n elements has at most n * k.  *)
LEMMA Parts ==
    ASSUME NEW S, NEW P, NEW n \in Nat, IsFiniteSet(S), IsFiniteSet(P), NEW of \in [S -> P],
           \A p \in P : Cardinality({m \in S : of[m] = p}) <= n
    PROVE  Cardinality(S) <= n * Cardinality(P)
<1> DEFINE share(p) == {m \in S : of[m] = p}
           index == [p \in P |-> CHOOSE f : f \in Injection(share(p), 1..n)]
           place == [m \in S |-> <<of[m], index[of[m]][m]>>]
<1>1. ASSUME NEW p \in P PROVE index[p] \in Injection(share(p), 1..n)
    <2>1. IsFiniteSet(share(p)) /\ Cardinality(share(p)) <= n
        BY FS_Subset
    <2>2. /\ Cardinality(share(p)) \in Nat
          /\ ExistsBijection(1..Cardinality(share(p)), share(p))
        BY <2>1, FS_CardinalityType
    <2> HIDE DEF share
    <2>3. ExistsInjection(share(p), 1..Cardinality(share(p)))
        BY <2>2, Fun_ExistsBijEquiv
    <2>4. ExistsInjection(1..Cardinality(share(p)), 1..n)
        BY <2>1, <2>2, Fun_NatInjLeq
    <2>5. ExistsInjection(share(p), 1..n)
        BY <2>3, <2>4, Fun_ExistsInjTransitive
    <2>6. \E f : f \in Injection(share(p), 1..n)
        BY <2>5, Fun_ExistsInj
    <2>. QED
        BY <2>6
<1> HIDE DEF index
<1>2. \A m \in S : /\ m \in share(of[m]) /\ of[m] \in P
                   /\ index[of[m]][m] \in 1..n
    BY <1>1 DEF Injection
<1>3. place \in [S -> P \X (1..n)]
    BY <1>2
<1>4. ASSUME NEW a \in S, NEW b \in S, place[a] = place[b] PROVE a = b
    <2>1. of[a] = of[b] /\ index[of[a]][a] = index[of[a]][b]
        BY <1>4
    <2>2. a \in share(of[a]) /\ b \in share(of[a]) /\ of[a] \in P
        BY <1>2, <2>1
    <2>. QED
        BY <1>1, <2>1, <2>2 DEF Injection, IsInjective
<1>5. place \in Injection(S, P \X (1..n))
    BY <1>3, <1>4 DEF Injection, IsInjective
<1>6. IsFiniteSet(1..n) /\ Cardinality(1..n) = n
    BY FS_Interval
<1>7. /\ IsFiniteSet(P \X (1..n))
      /\ Cardinality(P \X (1..n)) = Cardinality(P) * n
    BY <1>6, FS_Product
<1>8. Cardinality(S) <= Cardinality(P \X (1..n))
    BY <1>5, <1>7, FS_Injection
<1>9. Cardinality(P) \in Nat
    BY FS_CardinalityType
<1>. QED
    BY <1>7, <1>8, <1>9

(* What one store admits bounds what all of them do.                       *)
LEMMA WindowOfAll ==
    ASSUME LimitsInv PROVE Limits!WindowHolds
<1> USE LimitsBounds
<1> SUFFICES ASSUME NEW k \in 1..Len(admitted)
             PROVE  LET inside == {m \in 1..Len(admitted) :
                                      /\ admitted[m][1] >= admitted[k][1]
                                      /\ admitted[m][1] < admitted[k][1] + Window}
                    IN Cardinality(inside) <= IF limitsOdd \cap {"failover"} = {} THEN Limit
                                              ELSE Limit * Cardinality(Limits!Place)
    BY LimitsCounts DEF Limits!WindowHolds
<1> DEFINE t == admitted[k][1]
           inside == {m \in 1..Len(admitted) : admitted[m][1] >= t /\ admitted[m][1] < t + Window}
<1>1. /\ \A m \in 1..Len(admitted) : admitted[m] \in Nat \X Limits!Place
      /\ Len(admitted) \in Nat
    BY ElementOfSeq, LenProperties DEF LimitsInv, LimitsShape
<1>2. t \in 0..MaxTime
    <2>1. t \in Nat /\ t <= limitsNow /\ limitsNow \in 0..MaxTime
        BY <1>1 DEF LimitsInv, Admits, LimitsShape
    <2>. QED
        BY <2>1
<1>3. \A p \in Limits!Place : Cardinality(Inside(p, t)) <= Limit
    BY <1>2 DEF LimitsInv, Admits
<1> HIDE DEF t
<1>4. CASE limitsOdd \cap {"failover"} = {}
    <2>1. inside = Inside(Limits!Redis, t)
        BY <1>4 DEF Inside, LimitsInv, Admits
    <2>2. Limits!Redis \in Limits!Place
        BY DEF Limits!Place
    <2>. QED
        BY <1>3, <1>4, <2>1, <2>2 DEF t
<1>5. CASE limitsOdd \cap {"failover"} # {}
    <2> DEFINE of == [m \in inside |-> admitted[m][2]]
    <2>1. IsFiniteSet(inside)
        <3>1. IsFiniteSet(1..Len(admitted))
            <4>1. 1 \in Int /\ Len(admitted) \in Int
                BY <1>1
            <4>. QED
                BY <4>1, FS_Interval
        <3>2. inside \in SUBSET (1..Len(admitted))
            OBVIOUS
        <3>. QED
            BY <3>1, <3>2, FS_Subset
    <2>2. of \in [inside -> Limits!Place]
        BY <1>1
    <2>3. IsFiniteSet(Limits!Place)
        BY FS_AddElement DEF Limits!Place
    <2>4. ASSUME NEW p \in Limits!Place PROVE Cardinality({m \in inside : of[m] = p}) <= Limit
        <3>1. {m \in inside : of[m] = p} = Inside(p, t)
            BY DEF Inside
        <3>. QED
            BY <1>3, <3>1
    <2> HIDE DEF inside, of
    <2>5. Cardinality(inside) <= Limit * Cardinality(Limits!Place)
        BY <2>1, <2>2, <2>3, <2>4, Parts
    <2>. QED
        BY <1>5, <2>5 DEF inside, t
<1>. QED
    BY <1>4, <1>5

(* The invariant covers the properties.                                    *)
LEMMA LimitsInvImplies ==
    LimitsInv => Limits!TypeOK /\ Limits!WindowHolds /\ Limits!GuessesWait /\ Limits!CodeUsedOnce
<1> SUFFICES ASSUME LimitsInv PROVE Limits!TypeOK /\ Limits!WindowHolds /\ Limits!GuessesWait /\ Limits!CodeUsedOnce OBVIOUS
<1>1. Limits!TypeOK
    BY LimitsCounts DEF LimitsInv, LimitsShape, Admits, Limits!TypeOK, Longest
<1>2. Limits!GuessesWait
    BY DEF LimitsInv, Waits, Limits!GuessesWait
<1>3. Limits!CodeUsedOnce
    BY DEF LimitsInv, OnceEach, Limits!CodeUsedOnce
<1>. QED
    BY <1>1, <1>2, <1>3, WindowOfAll

-----------------------------------------------------------------------------
(* Staff: the console and its sign-ins                                     *)

(* Who uses the console, and what a request and a session are.             *)
Operator == Account \cup {Glass}

RowRequest ==
    [what : {"create", "update", "suspend", "suspending", "reinstate", "reset", "resetting"},
     on : Account, may : SUBSET Staff!Perm, read : Staff!Row, dept : SUBSET Staff!Dept,
     granted : SUBSET (SUBSET Staff!Perm), revoked : SUBSET (SUBSET Staff!Perm)]
RoleRequest == [what : {"role"}, on : Customer, new : {"owner", "member"}]
Request == RowRequest \cup RoleRequest

StaffSession == [who : Account, at : Nat, factor : Nat]
SignInWork == [step : {"setup", "verify", "refresh", "password"}, who : Account, read : Staff!Row,
               factor : Nat]

(* Every variable keeps its shape; an operator has one request at a time.  *)
StaffShape ==
    /\ row \in [Account -> Staff!Row] /\ role \in [Customer -> {"owner", "member"}]
    /\ DOMAIN req = Operator /\ \A o \in Operator : req[o] \subseteq Request /\ \A r, q \in req[o] : r = q
    /\ work \subseteq SignInWork /\ pending \subseteq Account
    /\ sessions \subseteq StaffSession /\ \A s \in sessions : s.at <= minted
    /\ cutoff \in [Account -> Nat] /\ minted \in 1..StaffTokens
    /\ secrets \in 2..StaffSecrets /\ requests \in 0..StaffRequests

(* What a request will grant was held by the operator who asked.           *)
Delegated ==
    \A o \in Operator : \A r \in req[o] : r.what \in {"create", "update"} =>
        /\ \A d \in r.dept : Staff!DeptPerms(d) \subseteq r.may
        /\ \A g \in r.granted : g \subseteq r.may
        /\ r.what = "create" => r.dept # {} /\ r.granted # {}

(* Unless two requests overlap, the one under way still holds what it was  *)
(* checked against, and asks about somebody else.                          *)
Alone ==
    "beside" \notin staffOdd => \A o \in Operator : \A r \in req[o] :
        /\ \A p \in Operator : req[p] # {} => p = o
        /\ r.what \notin {"role", "create"} => Staff!Held(row[r.on]) \subseteq r.may
        /\ o # Glass /\ r.what # "role" => o \in Staff!Holders
        /\ r.what \in {"update", "suspend", "suspending"} => o # r.on

(* A suspension under way leaves somebody of the managing departments, and *)
(* a demotion an owner.                                                    *)
Spared ==
    "beside" \notin staffOdd => \A o \in Operator : \A r \in req[o] :
             /\ r.what \in {"suspend", "suspending"} /\ r.on \in Staff!Managers
                   => \E m \in Staff!Managers : m # r.on
             /\ r.what = "role" /\ r.new # "owner" => \E c \in Staff!Owners : c # r.on

(* Unless a sign-in overlaps a reset, every live session and every sign-in *)
(* under way has the authenticator of its account.                         *)
Authentic ==
    "stale" \notin staffOdd =>
        /\ \A a \in Account : row[a].on => row[a].secret # 0
        /\ \A s \in sessions : Staff!Live(s) /\ ~row[s.who].fresh
              => s.factor = row[s.who].secret /\ row[s.who].on
        /\ \A w \in work :
              /\ w.step = "verify" => w.factor = w.read.secret /\ w.factor # 0
              /\ w.step = "refresh" /\ ~w.read.fresh => w.factor = w.read.secret /\ w.read.on
              /\ w.step = "setup" => ~w.read.on

(* The inductive invariant of Staff.                                       *)
StaffInv == StaffShape /\ Delegated /\ Alone /\ Spared /\ Staff!LastOnesKept /\ Authentic
-----------------------------------------------------------------------------
(* The operators of the start are accounts.                                *)
LEMMA LeadsAreAccounts == Staff!Lead \in Account /\ Staff!Deputy \in Account
BY StaffBounds DEF Staff!Lead, Staff!Deputy

(* What an operator holds are permissions.                                 *)
LEMMA HeldIsPerm ==
    /\ \A o \in Operator : StaffShape => Staff!May(o) \subseteq Staff!Perm
    /\ \A r \in Staff!Row : Staff!Held(r) \subseteq Staff!Perm
<1>1. ASSUME NEW r \in Staff!Row PROVE Staff!Held(r) \subseteq Staff!Perm
    BY <1>1 DEF Staff!Held, Staff!DeptPerms, Staff!Row, Staff!Perm, Staff!Dept
<1>. QED
    BY <1>1 DEF Staff!May, Operator, StaffShape

(* An enrolled account is an account.                                      *)
LEMMA EnrolledIsRow ==
    \A d \in Staff!Dept, g, r \in SUBSET Staff!Perm, n \in 0..StaffSecrets : Staff!Enrolled(d, g, r, n) \in Staff!Row
BY DEF Staff!Enrolled, Staff!Row

(* The console at the start.                                               *)
LEMMA StaffStart == Staff!Init => StaffInv
<1> SUFFICES ASSUME Staff!Init PROVE StaffInv OBVIOUS
<1> USE StaffBounds
<1>1. PICK x \in Second :
        row = [a \in Account |-> CASE a = Staff!Lead -> Staff!Enrolled("leadership", {}, {}, 1)
                                   [] a = Staff!Deputy /\ a # Staff!Lead -> Staff!Enrolled(x[1], x[2], x[3], 2)
                                   [] OTHER -> Staff!None]
    BY DEF Staff!Init
<1>2. x[1] \in Staff!Dept /\ x[2] \in SUBSET Staff!Perm /\ x[3] \in SUBSET Staff!Perm
    OBVIOUS
<1>3. /\ Staff!Enrolled("leadership", {}, {}, 1) \in Staff!Row /\ Staff!Enrolled(x[1], x[2], x[3], 2) \in Staff!Row
      /\ Staff!None \in Staff!Row
    <2>1. 0 \in 0..StaffSecrets /\ 1 \in 0..StaffSecrets /\ 2 \in 0..StaffSecrets
        OBVIOUS
    <2>2. Staff!None \in Staff!Row
        BY <2>1 DEF Staff!None, Staff!Row, Staff!Dept
    <2>3. "leadership" \in Staff!Dept /\ {} \in SUBSET Staff!Perm
        BY DEF Staff!Dept
    <2>. QED
        BY <1>2, <2>1, <2>2, <2>3, EnrolledIsRow
<1>4. row \in [Account -> Staff!Row]
    BY <1>1, <1>3
<1>5. /\ row[Staff!Lead] = Staff!Enrolled("leadership", {}, {}, 1)
      /\ Staff!Deputy # Staff!Lead => row[Staff!Deputy] = Staff!Enrolled(x[1], x[2], x[3], 2)
      /\ \A a \in Account : a # Staff!Lead /\ a # Staff!Deputy => row[a] = Staff!None
    BY <1>1, LeadsAreAccounts
<1>6. /\ row[Staff!Lead].on /\ row[Staff!Lead].secret = 1 /\ row[Staff!Lead].status = "active"
      /\ row[Staff!Lead].dept = "leadership"
      /\ row[Staff!Deputy].on /\ row[Staff!Deputy].secret \in {1, 2}
      /\ \A a \in Account : a # Staff!Lead /\ a # Staff!Deputy => ~row[a].on
    BY <1>5 DEF Staff!Enrolled, Staff!None
<1>7. sessions \subseteq StaffSession /\ \A s \in sessions : s.at <= minted
    BY <1>6, LeadsAreAccounts DEF Staff!Init, StaffSession
<1>8. StaffShape
    BY <1>4, <1>7 DEF Staff!Init, StaffShape, Operator
<1>9. Delegated /\ Alone /\ Spared
    BY DEF Staff!Init, Delegated, Alone, Spared, Operator
<1>10. Staff!LastOnesKept
    <2>1. row[Staff!Lead].granted = {} /\ row[Staff!Lead].revoked = {}
        BY <1>5 DEF Staff!Enrolled
    <2>2. Staff!Lead \in Staff!Holders
        BY <1>6, <2>1, LeadsAreAccounts DEF Staff!Holders, Staff!Held, Staff!DeptPerms, Staff!Perm
    <2>. QED
        BY <2>2, StaffBounds DEF Staff!Init, Staff!LastOnesKept, Staff!SomebodyManages
<1>11. Authentic
    BY <1>6, LeadsAreAccounts DEF Staff!Init, Authentic
<1>. QED
    BY <1>8, <1>9, <1>10, <1>11 DEF StaffInv

-----------------------------------------------------------------------------
(* What a sign-in leaves as it is.                                         *)
SignInFrame ==
    /\ row' \in [Account -> Staff!Row]
    /\ \A a \in Account : /\ row'[a].status = row[a].status /\ row'[a].dept = row[a].dept
                          /\ row'[a].granted = row[a].granted
                          /\ row'[a].revoked = row[a].revoked
    /\ UNCHANGED <<req, role>> /\ staffOdd' \in {staffOdd, staffOdd \cup {"stale"}}

(* A sign-in disturbs no console request.                                  *)
LEMMA SignInKeepsConsole ==
    ASSUME StaffShape, Delegated, Alone, Spared, Staff!LastOnesKept, SignInFrame
    PROVE  Delegated' /\ Alone' /\ Spared' /\ Staff!LastOnesKept'
<1>1. /\ "beside" \in staffOdd' <=> "beside" \in staffOdd
      /\ \A x \in {"moved", "miscounted"} : x \in staffOdd' <=> x \in staffOdd
    BY DEF SignInFrame
<1>3. \A a \in Account : Staff!Held(row'[a]) = Staff!Held(row[a])
    BY DEF SignInFrame, Staff!Held
<1>2. Staff!Managers' = Staff!Managers /\ Staff!Owners' = Staff!Owners /\ Staff!Holders' = Staff!Holders
    BY <1>3 DEF SignInFrame, Staff!Managers, Staff!Owners, Staff!Holders
<1>4. \A o \in Operator : \A r \in req[o] : r.what \notin {"role", "create"} => r.on \in Account
    BY DEF StaffShape, Request, RowRequest, RoleRequest
<1>5. Delegated'
    BY DEF Delegated, SignInFrame
<1>6. Alone'
    <2> SUFFICES ASSUME "beside" \notin staffOdd', NEW o \in Operator, NEW r \in req[o]
                 PROVE  /\ \A p \in Operator : req[p] # {} => p = o
                        /\ r.what \notin {"role", "create"} => Staff!Held(row'[r.on]) \subseteq r.may
                        /\ o # Glass /\ r.what # "role" => o \in Staff!Holders'
                        /\ r.what \in {"update", "suspend", "suspending"} => o # r.on
        BY DEF Alone, SignInFrame
    <2>1. o # Glass /\ r.what # "role" => o \in Staff!Holders'
        BY <1>1, <1>2 DEF Alone
    <2>2. r.what \notin {"role", "create"} => Staff!Held(row'[r.on]) \subseteq r.may
        BY <1>1, <1>3, <1>4 DEF Alone
    <2>. QED
        BY <1>1, <2>1, <2>2 DEF Alone
<1>7. Spared'
    BY <1>1, <1>2 DEF Spared, SignInFrame
<1>8. Staff!LastOnesKept'
    BY <1>1, <1>2 DEF Staff!LastOnesKept, Staff!SomebodyManages, SignInFrame
<1>. QED
    BY <1>5, <1>6, <1>7, <1>8

(* A request that writes no account disturbs no sign-in.                   *)
LEMMA ConsoleKeepsSignIns ==
    ASSUME Authentic, UNCHANGED <<row, work, sessions, cutoff>>,
           "stale" \in staffOdd => "stale" \in staffOdd'
    PROVE  Authentic'
BY DEF Authentic, Staff!Live

-----------------------------------------------------------------------------
(* The instance counts as this module does.                                *)
LEMMA StaffCounts == \A S : Staff!Cardinality(S) = Cardinality(S)
    BY DEF Staff!Cardinality, Cardinality

(* One of at most one.                                                     *)
LEMMA OnlyOne ==
    \A x : Cardinality({x}) = 1
BY FS_Singleton

(* What an operator asks is a request.                                     *)
LEMMA AskIsRequest ==
    ASSUME StaffShape, NEW o \in Operator, NEW a \in Account,
           NEW what \in {"create", "update", "suspend", "reinstate", "reset"},
           NEW d \in SUBSET Staff!Dept, NEW g \in SUBSET (SUBSET Staff!Perm), NEW v \in SUBSET (SUBSET Staff!Perm)
    PROVE  Staff!Ask(o, what, a, d, g, v) \in RowRequest
<1>1. Staff!May(o) \in SUBSET Staff!Perm
    BY HeldIsPerm
<1>2. row[a] \in Staff!Row
    BY DEF StaffShape
<1>. QED
    BY <1>1, <1>2 DEF Staff!Ask, RowRequest

(* A request begins.                                                       *)
Opens(o, r) ==
    /\ req[o] = {} /\ requests < StaffRequests /\ Staff!SignedIn(o)
    /\ req' = [req EXCEPT ![o] = {r}]
    /\ requests' = requests + 1
    /\ staffOdd' = IF \E p \in DOMAIN req : req[p] # {} THEN staffOdd \cup {"beside"} ELSE staffOdd
    /\ UNCHANGED <<row, role, work, pending, sessions, cutoff, minted, secrets>>

(* A request that begins keeps the invariant.                              *)
LEMMA OpensStep ==
    ASSUME StaffInv, NEW o \in Operator, NEW r \in Request, Opens(o, r),
           r.what \in {"create", "update"} =>
              /\ \A d \in r.dept : Staff!DeptPerms(d) \subseteq r.may
              /\ \A g \in r.granted : g \subseteq r.may
              /\ r.what = "create" => r.dept # {} /\ r.granted # {},
           r.what \notin {"role", "create"} => Staff!Held(row[r.on]) \subseteq r.may,
           r.what # "role" => "manage" \in Staff!May(o),
           r.what \in {"update", "suspend"} => o # r.on,
           r.what # "suspending",
           r.what = "suspend" => Staff!Managers # {r.on},
           r.what = "role" /\ r.new # "owner" => Staff!Owners # {r.on}
    PROVE  StaffInv'
<1> USE StaffBounds
<1>1. /\ req'[o] = {r} /\ \A p \in Operator : p # o => req'[p] = req[p]
      /\ DOMAIN req' = Operator
    BY DEF Opens, StaffInv, StaffShape
<1>2. StaffShape'
    <2>1. \A p \in Operator : req'[p] \subseteq Request /\ \A x, y \in req'[p] : x = y
        BY <1>1 DEF StaffInv, StaffShape
    <2>2. requests' \in 0..StaffRequests
        BY DEF Opens, StaffInv, StaffShape
    <2>. QED
        BY <1>1, <2>1, <2>2 DEF Opens, StaffInv, StaffShape
<1>3. Delegated'
    BY <1>1 DEF StaffInv, Delegated
<1>4. /\ "beside" \notin staffOdd' => "beside" \notin staffOdd /\ \A p \in Operator : req[p] = {}
      /\ \A x \in {"moved", "miscounted"} : x \in staffOdd' <=> x \in staffOdd
      /\ "stale" \in staffOdd' <=> "stale" \in staffOdd
    BY DEF Opens, StaffInv, StaffShape
<1>5. o # Glass /\ r.what # "role" => o \in Staff!Holders
    <2> SUFFICES ASSUME o # Glass, r.what # "role" PROVE o \in Staff!Holders
        OBVIOUS
    <2>1. row[o].status = "active"
        BY DEF Opens, Staff!SignedIn, Staff!Usable
    <2>. QED
        BY <2>1 DEF Staff!Holders, Staff!May, Operator
<1>7. Staff!Managers' = Staff!Managers /\ Staff!Owners' = Staff!Owners /\ Staff!Holders' = Staff!Holders
    BY DEF Opens, Staff!Managers, Staff!Owners, Staff!Holders
<1>6. Alone'
    <2> SUFFICES ASSUME "beside" \notin staffOdd', NEW p \in Operator, NEW q \in req'[p]
                 PROVE  /\ \A u \in Operator : req'[u] # {} => u = p
                        /\ q.what \notin {"role", "create"} => Staff!Held(row'[q.on]) \subseteq q.may
                        /\ p # Glass /\ q.what # "role" => p \in Staff!Holders'
                        /\ q.what \in {"update", "suspend", "suspending"} => p # q.on
        BY DEF Alone
    <2>1. p = o /\ q = r
        BY <1>1, <1>4
    <2>. QED
        BY <2>1, <1>1, <1>4, <1>5, <1>7 DEF Opens
<1>8. Spared'
    <2> SUFFICES ASSUME "beside" \notin staffOdd', NEW p \in Operator, NEW q \in req'[p]
                 PROVE  /\ q.what \in {"suspend", "suspending"} /\ q.on \in Staff!Managers
                              => \E m \in Staff!Managers : m # q.on
                        /\ q.what = "role" /\ q.new # "owner" => \E c \in Staff!Owners : c # q.on
        BY <1>7 DEF Spared
    <2>1. p = o /\ q = r
        BY <1>1, <1>4
    <2>2. Staff!Owners # {}
        BY <1>4 DEF StaffInv, Staff!LastOnesKept, Staff!Owners
    <2>3. /\ r.what \in {"suspend", "suspending"} /\ r.on \in Staff!Managers
                => \E m \in Staff!Managers : m # r.on
          /\ r.what = "role" /\ r.new # "owner" => \E c \in Staff!Owners : c # r.on
        BY <2>2
    <2>. QED
        BY <2>1, <2>3
<1>9. Staff!LastOnesKept'
    BY <1>4, <1>7 DEF StaffInv, Staff!LastOnesKept, Staff!SomebodyManages, Opens
<1>10. Authentic'
    BY <1>4, ConsoleKeepsSignIns DEF StaffInv, Opens
<1>. QED
    BY <1>2, <1>3, <1>6, <1>8, <1>9, <1>10 DEF StaffInv

(* Every request begins by its checks.                                     *)
LEMMA AsksStep ==
    ASSUME StaffInv, NEW o \in Operator,
           \/ \E c \in Customer, new \in {"owner", "member"} : Staff!AskRole(o, c, new)
           \/ \E a \in Account :
                \/ Staff!AskSuspend(o, a)
                \/ \E what \in {"reinstate", "reset"} : Staff!AskRestore(o, a, what)
                \/ \E d \in Staff!Dept, g \in SUBSET Staff!Perm : Staff!AskCreate(o, a, d, g, {})
                \/ \E d \in Staff!Dept : Staff!AskUpdate(o, a, {d}, {}, {})
                \/ \E ps \in SUBSET Staff!Perm : \/ Staff!AskUpdate(o, a, {}, {ps}, {})
                                                        \/ Staff!AskUpdate(o, a, {}, {}, {ps})
    PROVE  StaffInv'
<1>0. StaffShape
    BY DEF StaffInv
<1>1. ASSUME NEW a \in Account, NEW d \in SUBSET Staff!Dept, NEW g \in SUBSET (SUBSET Staff!Perm),
             NEW v \in SUBSET (SUBSET Staff!Perm), Staff!AskUpdate(o, a, d, g, v)
      PROVE  StaffInv'
    <2> DEFINE r == Staff!Ask(o, "update", a, d, g, v)
    <2>1. r \in Request
        BY <1>0, AskIsRequest DEF Request
    <2>2. /\ r.what = "update" /\ r.on = a /\ r.may = Staff!May(o) /\ r.dept = d /\ r.granted = g
        BY DEF Staff!Ask
    <2>3. Opens(o, r)
        BY <1>1 DEF Staff!AskUpdate, Staff!Begins, Opens
    <2>4. /\ \A x \in d : Staff!DeptPerms(x) \subseteq Staff!May(o)
          /\ \A x \in g : x \subseteq Staff!May(o)
          /\ Staff!Held(row[a]) \subseteq Staff!May(o) /\ a # o /\ "manage" \in Staff!May(o)
        BY <1>1 DEF Staff!AskUpdate, Staff!CanAssign, Staff!CanDelegate, Staff!CanManage, Staff!Begins
    <2> HIDE DEF r
    <2>. QED
        BY <2>1, <2>2, <2>3, <2>4, OpensStep
<1>2. ASSUME NEW a \in Account, NEW d \in Staff!Dept, NEW g \in SUBSET Staff!Perm,
             Staff!AskCreate(o, a, d, g, {})
      PROVE  StaffInv'
    <2> DEFINE r == Staff!Ask(o, "create", a, {d}, {g}, {{}})
    <2>1. r \in Request
        BY <1>0, AskIsRequest DEF Request
    <2>2. /\ r.what = "create" /\ r.on = a /\ r.may = Staff!May(o) /\ r.dept = {d} /\ r.granted = {g}
        BY DEF Staff!Ask
    <2>3. Opens(o, r)
        BY <1>2 DEF Staff!AskCreate, Staff!Begins, Opens
    <2>4. /\ Staff!DeptPerms(d) \subseteq Staff!May(o) /\ g \subseteq Staff!May(o)
          /\ "manage" \in Staff!May(o)
        BY <1>2 DEF Staff!AskCreate, Staff!CanAssign, Staff!CanDelegate, Staff!Begins
    <2> HIDE DEF r
    <2>. QED
        BY <2>1, <2>2, <2>3, <2>4, OpensStep
<1>3. ASSUME NEW a \in Account, Staff!AskSuspend(o, a)
      PROVE  StaffInv'
    <2> DEFINE r == Staff!Ask(o, "suspend", a, {}, {}, {})
    <2>1. r \in Request
        BY <1>0, AskIsRequest DEF Request
    <2>2. r.what = "suspend" /\ r.on = a /\ r.may = Staff!May(o)
        BY DEF Staff!Ask
    <2>3. Opens(o, r)
        BY <1>3 DEF Staff!AskSuspend, Staff!Begins, Opens
    <2>4. /\ Staff!Held(row[a]) \subseteq Staff!May(o) /\ Staff!Managers # {a}
          /\ a # o /\ "manage" \in Staff!May(o)
        <3>1. /\ Staff!Held(row[a]) \subseteq Staff!May(o)
              /\ ~(row[a].dept \in Staff!Managing /\ Cardinality(Staff!Managers) <= 1)
              /\ a # o /\ "manage" \in Staff!May(o)
            BY <1>3, StaffCounts DEF Staff!AskSuspend, Staff!CanManage, Staff!Begins
        <3>2. Staff!Managers = {a} => row[a].dept \in Staff!Managing /\ Cardinality(Staff!Managers) = 1
            BY OnlyOne DEF Staff!Managers
        <3>. QED
            BY <3>1, <3>2
    <2> HIDE DEF r
    <2>. QED
        BY <2>1, <2>2, <2>3, <2>4, OpensStep
<1>4. ASSUME NEW a \in Account, NEW what \in {"reinstate", "reset"}, Staff!AskRestore(o, a, what)
      PROVE  StaffInv'
    <2> DEFINE r == Staff!Ask(o, what, a, {}, {}, {})
    <2>1. r \in Request
        BY <1>0, AskIsRequest DEF Request
    <2>2. r.what = what /\ r.on = a /\ r.may = Staff!May(o)
        BY DEF Staff!Ask
    <2>3. Opens(o, r)
        BY <1>4 DEF Staff!AskRestore, Staff!Begins, Opens
    <2>4. Staff!Held(row[a]) \subseteq Staff!May(o) /\ "manage" \in Staff!May(o)
        BY <1>4 DEF Staff!AskRestore, Staff!CanManage, Staff!Begins
    <2> HIDE DEF r
    <2>. QED
        BY <2>1, <2>2, <2>3, <2>4, OpensStep
<1>5. ASSUME NEW c \in Customer, NEW new \in {"owner", "member"}, Staff!AskRole(o, c, new)
      PROVE  StaffInv'
    <2> DEFINE r == [what |-> "role", on |-> c, new |-> new]
    <2>1. r \in Request
        BY DEF Request, RoleRequest
    <2>2. r.what = "role" /\ r.on = c /\ r.new = new
        OBVIOUS
    <2>3. Opens(o, r)
        BY <1>5 DEF Staff!AskRole, Opens
    <2>4. new # "owner" => Staff!Owners # {c}
        <3>1. new # "owner" /\ c \in Staff!Owners => Cardinality(Staff!Owners) > 1
            BY <1>5, StaffCounts DEF Staff!AskRole, Staff!SpareOwner, Staff!Owners
        <3>2. Cardinality({c}) = 1
            BY OnlyOne
        <3>. QED
            BY <3>1, <3>2
    <2> HIDE DEF r
    <2>. QED
        BY <2>1, <2>2, <2>3, <2>4, OpensStep
<1>6. ASSUME NEW a \in Account, NEW d \in Staff!Dept, Staff!AskUpdate(o, a, {d}, {}, {}) PROVE StaffInv'
    BY <1>1, <1>6
<1>7. ASSUME NEW a \in Account, NEW ps \in SUBSET Staff!Perm,
             Staff!AskUpdate(o, a, {}, {ps}, {}) \/ Staff!AskUpdate(o, a, {}, {}, {ps})
      PROVE  StaffInv'
    BY <1>1, <1>7
<1>. QED
    BY <1>2, <1>3, <1>4, <1>5, <1>6, <1>7

-----------------------------------------------------------------------------
(* The request of an operator.                                             *)
LEMMA RequestOf ==
    ASSUME StaffShape, NEW o \in Operator, NEW r \in req[o]
    PROVE  /\ r \in Request /\ req[o] = {r}
           /\ r.what # "role" => r \in RowRequest /\ r.on \in Account
           /\ r.what = "role" => r \in RoleRequest
<1>1. r \in Request /\ req[o] = {r}
    BY DEF StaffShape
<1>. QED
    BY <1>1 DEF Request, RowRequest, RoleRequest

(* Answered: nothing is left of the request.                               *)
(* A request ends.                                                         *)
Answers(o) == req' = [req EXCEPT ![o] = {}]

(* A request that ends leaves the others as they are.                      *)
LEMMA AnswersKeeps ==
    ASSUME StaffShape, Delegated, NEW o \in Operator, Answers(o)
    PROVE  /\ DOMAIN req' = Operator /\ req'[o] = {}
           /\ \A p \in Operator : p # o => req'[p] = req[p]
           /\ \A p \in Operator : /\ req'[p] \subseteq Request
                                  /\ \A x, y \in req'[p] : x = y
           /\ Delegated'
<1>1. /\ DOMAIN req' = Operator /\ req'[o] = {}
      /\ \A p \in Operator : p # o => req'[p] = req[p]
    BY DEF Answers, StaffShape
<1>. QED
    BY <1>1 DEF StaffShape, Delegated

(* After the only request there is none.                                   *)
LEMMA AnswersAlone ==
    ASSUME StaffShape, Delegated, Alone, NEW o \in Operator, req[o] # {}, Answers(o), staffOdd \subseteq staffOdd'
    PROVE  Alone' /\ Spared'
<1>1. "beside" \notin staffOdd' => \A p \in Operator : req'[p] = {}
    BY AnswersKeeps DEF Alone
<1>. QED
    BY <1>1 DEF Alone, Spared

(* A second creation of an address fails.                                  *)
LEMMA ConflictStep ==
    ASSUME StaffInv, NEW o \in Operator, Staff!Conflict(o)
    PROVE  StaffInv'
<1>1. Answers(o) /\ req[o] # {} /\ staffOdd' = staffOdd
    BY DEF Staff!Conflict, Answers
<1>2. StaffShape'
    BY <1>1, AnswersKeeps DEF StaffInv, StaffShape, Staff!Conflict
<1>3. Staff!LastOnesKept'
    BY DEF Staff!Conflict, StaffInv, Staff!LastOnesKept, Staff!SomebodyManages, Staff!Holders
<1>4. Authentic'
    BY ConsoleKeepsSignIns DEF StaffInv, Staff!Conflict
<1>. QED
    BY <1>1, <1>2, <1>3, <1>4, AnswersKeeps, AnswersAlone DEF StaffInv

(* A role changes hands; the tenant keeps an owner.                        *)
LEMMA SetRoleStep ==
    ASSUME StaffInv, NEW o \in Operator, Staff!SetRole(o)
    PROVE  StaffInv'
<1>1. PICK r \in req[o] : /\ r.what = "role" /\ role' = [role EXCEPT ![r.on] = r.new]
                          /\ Answers(o)
    BY DEF Staff!SetRole, Answers
<1>2. r.on \in Customer /\ r.new \in {"owner", "member"}
    BY <1>1, RequestOf DEF StaffInv, RoleRequest
<1>3. StaffShape'
    BY <1>1, <1>2, AnswersKeeps DEF StaffInv, StaffShape, Staff!SetRole
<1>4. Staff!LastOnesKept'
    <2> SUFFICES ASSUME "beside" \notin staffOdd
                 PROVE  \E c \in Customer : role'[c] = "owner"
        BY DEF Staff!SetRole, StaffInv, Staff!LastOnesKept, Staff!SomebodyManages, Staff!Holders
    <2>1. CASE r.new = "owner"
        BY <1>1, <1>2, <2>1 DEF StaffInv, StaffShape
    <2>2. CASE r.new # "owner"
        <3>1. PICK c \in Staff!Owners : c # r.on
            BY <1>1, <2>2 DEF StaffInv, Spared
        <3>. QED
            BY <1>1, <1>2, <3>1 DEF Staff!Owners, StaffInv, StaffShape
    <2>. QED
        BY <2>1, <2>2
<1>5. Authentic'
    BY ConsoleKeepsSignIns DEF StaffInv, Staff!SetRole
<1>. QED
    BY <1>1, <1>3, <1>4, <1>5, AnswersKeeps, AnswersAlone DEF StaffInv, Staff!SetRole

(* A suspension and a reset cut the sessions off before they commit.       *)
LEMMA RevokeFirstStep ==
    ASSUME StaffInv, NEW o \in Operator, Staff!RevokeFirst(o)
    PROVE  StaffInv'
<1>1. PICK r \in req[o] :
        /\ r.what \in {"suspend", "reset"}
        /\ req' = [req EXCEPT ![o] = {[r EXCEPT !.what = IF @ = "suspend" THEN "suspending"
                                                         ELSE "resetting"]}]
        /\ cutoff' = [cutoff EXCEPT ![r.on] = minted]
    BY DEF Staff!RevokeFirst
<1> DEFINE n == [r EXCEPT !.what = IF @ = "suspend" THEN "suspending" ELSE "resetting"]
<1>2. r \in RowRequest /\ r.on \in Account /\ req[o] = {r}
    BY <1>1, RequestOf DEF StaffInv
<1>3. /\ n \in RowRequest /\ n.on = r.on /\ n.may = r.may
      /\ n.what = IF r.what = "suspend" THEN "suspending" ELSE "resetting"
    BY <1>1, <1>2 DEF RowRequest
<1>4. /\ req'[o] = {n} /\ \A p \in Operator : p # o => req'[p] = req[p]
      /\ DOMAIN req' = Operator
    BY <1>1 DEF StaffInv, StaffShape
<1> HIDE DEF n
<1>5. StaffShape'
    <2>1. \A p \in Operator : req'[p] \subseteq Request /\ \A x, y \in req'[p] : x = y
        BY <1>3, <1>4 DEF StaffInv, StaffShape, Request
    <2>2. cutoff' \in [Account -> Nat]
        BY <1>1, <1>2 DEF StaffInv, StaffShape
    <2>. QED
        BY <1>4, <2>1, <2>2 DEF StaffInv, StaffShape, Staff!RevokeFirst
<1>6. Delegated'
    BY <1>3, <1>4 DEF StaffInv, Delegated
<1>7. Alone'
    <2> SUFFICES ASSUME "beside" \notin staffOdd, NEW p \in Operator, NEW q \in req'[p]
                 PROVE  /\ \A u \in Operator : req'[u] # {} => u = p
                        /\ q.what \notin {"role", "create"} => Staff!Held(row[q.on]) \subseteq q.may
                        /\ p # Glass /\ q.what # "role" => p \in Staff!Holders
                        /\ q.what \in {"update", "suspend", "suspending"} => p # q.on
        BY DEF Alone, Staff!RevokeFirst, Staff!Holders
    <2>1. p = o /\ q = n /\ \A u \in Operator : req'[u] # {} => u = o
        BY <1>2, <1>4 DEF StaffInv, Alone
    <2>. QED
        BY <1>1, <1>3, <2>1 DEF StaffInv, Alone
<1>8. Spared'
    <2>1. Staff!Managers' = Staff!Managers /\ Staff!Owners' = Staff!Owners /\ staffOdd' = staffOdd
        BY DEF Staff!RevokeFirst, Staff!Managers, Staff!Owners
    <2> SUFFICES ASSUME "beside" \notin staffOdd, NEW p \in Operator, NEW q \in req'[p]
                 PROVE  /\ q.what \in {"suspend", "suspending"} /\ q.on \in Staff!Managers
                              => \E m \in Staff!Managers : m # q.on
                        /\ q.what = "role" /\ q.new # "owner" => \E c \in Staff!Owners : c # q.on
        BY <2>1 DEF Spared
    <2>2. CASE p = o
        BY <1>1, <1>3, <1>4, <2>2 DEF StaffInv, Spared
    <2>3. CASE p # o
        BY <1>4, <2>3 DEF StaffInv, Spared
    <2>. QED
        BY <2>2, <2>3
<1>9. Staff!LastOnesKept'
    BY DEF Staff!RevokeFirst, StaffInv, Staff!LastOnesKept, Staff!SomebodyManages, Staff!Holders
<1>10. Authentic'
    <2>1. \A s \in sessions : Staff!Live(s)' => Staff!Live(s)
        BY <1>1, <1>2 DEF Staff!Live, StaffInv, StaffShape, StaffSession
    <2>. QED
        BY <2>1 DEF Staff!RevokeFirst, StaffInv, Authentic
<1>. QED
    BY <1>5, <1>6, <1>7, <1>8, <1>9, <1>10 DEF StaffInv

(* The value a request sends, or the old one.                              *)
LEMMA OneOf ==
    ASSUME NEW S, NEW old
    PROVE  /\ S # {} => Staff!One(S, old) \in S
           /\ S = {} => Staff!One(S, old) = old
BY DEF Staff!One

(* A gain was held by who asked, or lifts a revocation.                    *)
OnlyLifts(r, gain) ==
    \/ gain \subseteq r.may
    \/ /\ r.revoked # {}
       /\ gain \ r.may \subseteq
             row[r.on].revoked \cap (Staff!DeptPerms(row[r.on].dept) \cup row[r.on].granted)

(* What a commit writes is an account, and grants what the operator held.  *)
LEMMA WrittenIs ==
    ASSUME StaffInv, NEW o \in Operator, NEW r \in req[o],
           r.what \in {"create", "update", "suspending", "reinstate", "resetting"}
    PROVE  /\ r.on \in Account /\ Staff!Written(r) \in Staff!Row
           /\ r.what \in {"create", "resetting"} => Staff!Written(r).fresh /\ ~Staff!Written(r).on
           /\ r.what \in {"update", "suspending", "reinstate"} =>
                     /\ Staff!Written(r).fresh = row[r.on].fresh /\ Staff!Written(r).on = row[r.on].on
                     /\ Staff!Written(r).secret = row[r.on].secret
           /\ r.what = "update" => Staff!Written(r).status = row[r.on].status
           /\ r.what \in {"reinstate", "resetting"} =>
                     /\ Staff!Written(r).dept = row[r.on].dept
                     /\ row[r.on].status = "active" => Staff!Written(r).status = "active"
           /\ r.what = "create" => Staff!Held(Staff!Written(r)) \subseteq r.may
           /\ r.what \in {"reinstate", "resetting"} =>
                     Staff!Held(Staff!Written(r)) = Staff!Held(row[r.on])
           /\ r.what = "update" => OnlyLifts(r, Staff!Held(Staff!Written(r)) \ Staff!Held(row[r.on]))
<1>1. r \in RowRequest /\ r.on \in Account
    BY RequestOf DEF StaffInv
<1> DEFINE x == row[r.on]
<1>2. x \in Staff!Row
    BY <1>1 DEF StaffInv, StaffShape
<1>3. r.dept \in SUBSET Staff!Dept /\ r.granted \in SUBSET (SUBSET Staff!Perm)
      /\ r.revoked \in SUBSET (SUBSET Staff!Perm) /\ r.may \in SUBSET Staff!Perm
    BY <1>1 DEF RowRequest
<1>4. CASE r.what = "create"
    <2> DEFINE d == Staff!One(r.dept, "")  g == Staff!One(r.granted, {})  v == Staff!One(r.revoked, {})
    <2>1. /\ r.dept # {} /\ r.granted # {}
          /\ \A y \in r.dept : Staff!DeptPerms(y) \subseteq r.may
          /\ \A y \in r.granted : y \subseteq r.may
        BY <1>4 DEF StaffInv, Delegated
    <2>2. d \in r.dept /\ g \in r.granted /\ v \in SUBSET Staff!Perm
        <3>1. d \in r.dept
            BY <1>3, <2>1, OneOf
        <3>2. g \in r.granted
            BY <1>3, <2>1, OneOf
        <3>3. v \in r.revoked \cup {{}}
            BY OneOf
        <3>. QED
            BY <1>3, <3>1, <3>2, <3>3
    <2>3. Staff!Written(r) = [Staff!None EXCEPT !.status = "active", !.fresh = TRUE, !.dept = d,
                                                !.granted = g, !.revoked = v]
        BY <1>4 DEF Staff!Written
    <2> HIDE DEF d, g, v
    <2>4. Staff!Written(r) = [status |-> "active", dept |-> d, granted |-> g, revoked |-> v,
                              fresh |-> TRUE, on |-> FALSE, secret |-> 0]
        BY <2>3 DEF Staff!None
    <2>5. Staff!Written(r) \in Staff!Row
        BY <2>2, <2>4, <1>3, StaffBounds DEF Staff!Row
    <2>6. Staff!Held(Staff!Written(r)) \subseteq r.may
        BY <2>1, <2>2, <2>4 DEF Staff!Held
    <2>7. Staff!Written(r).fresh /\ ~Staff!Written(r).on
        BY <2>4
    <2>. QED
        BY <1>1, <1>4, <2>5, <2>6, <2>7
<1>5. CASE r.what = "update"
    <2> DEFINE d == Staff!One(r.dept, x.dept)  g == Staff!One(r.granted, x.granted)
               v == Staff!One(r.revoked, x.revoked)
    <2>1. /\ \A y \in r.dept : Staff!DeptPerms(y) \subseteq r.may
          /\ \A y \in r.granted : y \subseteq r.may
        BY <1>5 DEF StaffInv, Delegated
    <2>2. x.dept \in Staff!Dept /\ x.granted \in SUBSET Staff!Perm /\ x.revoked \in SUBSET Staff!Perm
        BY <1>2 DEF Staff!Row
    <2>3. /\ d \in r.dept \cup {x.dept} /\ g \in r.granted \cup {x.granted}
          /\ v \in r.revoked \cup {x.revoked}
        BY OneOf
    <2>4. d \in Staff!Dept /\ g \in SUBSET Staff!Perm /\ v \in SUBSET Staff!Perm
        BY <1>3, <2>2, <2>3
    <2>5. Staff!Written(r) = [x EXCEPT !.dept = d, !.granted = g, !.revoked = v]
        BY <1>5 DEF Staff!Written
    <2> HIDE DEF d, g, v
    <2>6. Staff!Written(r) \in Staff!Row
        BY <1>2, <2>3, <2>4, <2>5 DEF Staff!Row
    <2>7. /\ Staff!Written(r).status = x.status /\ Staff!Written(r).fresh = x.fresh /\ Staff!Written(r).on = x.on
          /\ Staff!Written(r).secret = x.secret /\ Staff!Written(r).dept = d /\ Staff!Written(r).granted = g
          /\ Staff!Written(r).revoked = v
        BY <1>2, <2>5 DEF Staff!Row
    <2>8. OnlyLifts(r, Staff!Held(Staff!Written(r)) \ Staff!Held(x))
        <3> DEFINE gain == Staff!Held(Staff!Written(r)) \ Staff!Held(x)
                   own == Staff!DeptPerms(x.dept) \cup x.granted
        <3>1. \A y \in gain : y \in r.may \/ y \in own
            BY <2>1, <2>3, <2>7 DEF Staff!Held
        <3>2. \A y \in gain : y \in own => y \in x.revoked /\ y \notin v
            BY <2>7 DEF Staff!Held
        <3>3. r.revoked = {} => v = x.revoked
            BY <2>3
        <3> HIDE DEF gain, own
        <3>4. gain \subseteq r.may \/ (r.revoked # {} /\ gain \ r.may \subseteq x.revoked \cap own)
            BY <3>1, <3>2, <3>3
        <3>. QED
            BY <3>4 DEF OnlyLifts, gain, own
    <2>. QED
        BY <1>1, <1>5, <2>6, <2>7, <2>8
<1>6. CASE r.what = "suspending"
    <2>1. Staff!Written(r) = [x EXCEPT !.status = "suspended"]
        BY <1>6 DEF Staff!Written
    <2>. QED
        BY <1>1, <1>2, <1>6, <2>1 DEF Staff!Row
<1>7. CASE r.what = "reinstate"
    <2>1. Staff!Written(r) = [x EXCEPT !.status = "active"]
        BY <1>7 DEF Staff!Written
    <2>2. Staff!Held(Staff!Written(r)) = Staff!Held(x)
        BY <1>2, <2>1 DEF Staff!Row, Staff!Held
    <2>. QED
        BY <1>1, <1>2, <1>7, <2>1, <2>2 DEF Staff!Row
<1>8. CASE r.what = "resetting"
    <2>1. Staff!Written(r) = [x EXCEPT !.fresh = TRUE, !.on = FALSE, !.secret = 0]
        BY <1>8 DEF Staff!Written, Staff!Reset
    <2>2. 0 \in 0..StaffSecrets
        BY StaffBounds
    <2>3. Staff!Written(r) \in Staff!Row
        BY <1>2, <2>1, <2>2 DEF Staff!Row
    <2>4. /\ Staff!Written(r).fresh /\ ~Staff!Written(r).on /\ Staff!Written(r).dept = x.dept
          /\ Staff!Written(r).status = x.status
          /\ Staff!Written(r).granted = x.granted /\ Staff!Written(r).revoked = x.revoked
        BY <1>2, <2>1 DEF Staff!Row
    <2>5. Staff!Held(Staff!Written(r)) = Staff!Held(x)
        BY <2>4 DEF Staff!Held
    <2>. QED
        BY <1>1, <1>8, <2>3, <2>4, <2>5
<1>. QED
    BY <1>4, <1>5, <1>6, <1>7, <1>8

(* An active account that holds the permission.                            *)
Manages(a) == row[a].status = "active" /\ "manage" \in Staff!Held(row[a])

(* A commit keeps somebody who manages staff, and no session with an       *)
(* authenticator that is gone.                                             *)
LEMMA CommitStep ==
    ASSUME StaffInv, NEW o \in Operator, Staff!Commit(o)
    PROVE  StaffInv'
<1>1. PICK r \in req[o] :
        /\ r.what \in {"create", "update", "suspending", "reinstate", "resetting"}
        /\ r.what = "create" => row[r.on].status = "none"
        /\ row' = [row EXCEPT ![r.on] = Staff!Written(r)]
        /\ Answers(o)
        /\ staffOdd' = staffOdd \cup Staff!GlassTakes(o, r)
    BY DEF Staff!Commit, Answers
<1> DEFINE w == Staff!Written(r)
<1>2. /\ r.on \in Account /\ w \in Staff!Row
      /\ r.what \in {"create", "resetting"} => w.fresh /\ ~w.on
      /\ r.what \in {"update", "suspending", "reinstate"} =>
            /\ w.fresh = row[r.on].fresh /\ w.on = row[r.on].on /\ w.secret = row[r.on].secret
      /\ r.what \in {"reinstate", "resetting"} =>
            /\ Staff!Held(w) = Staff!Held(row[r.on])
            /\ row[r.on].status = "active" => w.status = "active"
    BY <1>1, WrittenIs
<1> HIDE DEF w
<1>3. /\ row' \in [Account -> Staff!Row] /\ row'[r.on] = w
      /\ \A a \in Account : a # r.on => row'[a] = row[a]
    BY <1>1, <1>2 DEF StaffInv, StaffShape, w
<1>4. StaffShape'
    BY <1>1, <1>3, AnswersKeeps DEF StaffInv, StaffShape, Staff!Commit
<1>5. Staff!LastOnesKept'
    <2> SUFFICES ASSUME staffOdd' \cap {"beside", "moved", "miscounted"} = {}
                 PROVE  \E a \in Account : Manages(a)'
        BY <1>1 DEF Staff!LastOnesKept, Staff!SomebodyManages, Staff!Holders, Manages, StaffInv,
                    Staff!Commit, Staff!GlassTakes
    <2>1. /\ staffOdd \cap {"beside", "moved", "miscounted"} = {}
          /\ "moved" \notin Staff!GlassTakes(o, r) /\ "miscounted" \notin Staff!GlassTakes(o, r)
        BY <1>1
    <2>2. PICK m \in Account : Manages(m)
        BY <2>1 DEF StaffInv, Staff!LastOnesKept, Staff!SomebodyManages, Staff!Holders, Manages
    <2>3. \A a \in Account : Manages(a) /\ a # r.on => Manages(a)'
        BY <1>3 DEF Manages
    <2>4. \A a \in Account : Manages(a) <=> a \in Staff!Holders
        BY DEF Manages, Staff!Holders
    <2>5. CASE r.what = "create"
        BY <1>1, <2>2, <2>3, <2>5 DEF Manages
    <2>6. CASE r.what \in {"reinstate", "resetting"}
        BY <1>2, <1>3, <2>2, <2>3, <2>6 DEF Manages
    <2>7. CASE r.what \in {"update", "suspending"} /\ o # Glass
        <3>1. o \in Account /\ o \in Staff!Holders /\ o # r.on
            BY <2>1, <2>7 DEF StaffInv, Alone, Operator
        <3>. QED
            BY <2>3, <2>4, <3>1
    <2>8. CASE r.what = "update" /\ o = Glass
        <3>1. r.on \notin Staff!Holders
            BY <2>1, <2>8 DEF Staff!GlassTakes
        <3>. QED
            BY <2>2, <2>3, <2>4, <3>1
    <2>9. CASE r.what = "suspending" /\ o = Glass
        <3>1. Staff!Managers = Staff!Holders
            BY <2>1, <2>9 DEF Staff!GlassTakes
        <3>2. r.on \in Staff!Managers => \E n \in Staff!Managers : n # r.on
            BY <2>1, <2>9 DEF StaffInv, Spared
        <3>3. Staff!Managers \subseteq Account
            BY DEF Staff!Managers
        <3>. QED
            BY <2>2, <2>3, <2>4, <3>1, <3>2, <3>3
    <2>. QED
        BY <1>1, <2>5, <2>6, <2>7, <2>8, <2>9
<1>6. Authentic'
    <2> SUFFICES ASSUME "stale" \notin staffOdd'
                 PROVE  /\ \A a \in Account : row'[a].on => row'[a].secret # 0
                        /\ \A s \in sessions : Staff!Live(s) /\ ~row'[s.who].fresh
                              => s.factor = row'[s.who].secret /\ row'[s.who].on
                        /\ \A u \in work :
                              /\ u.step = "verify" => u.factor = u.read.secret /\ u.factor # 0
                              /\ u.step = "refresh" /\ ~u.read.fresh
                                    => u.factor = u.read.secret /\ u.read.on
                              /\ u.step = "setup" => ~u.read.on
        BY DEF Authentic, Staff!Commit, Staff!Live
    <2>1. "stale" \notin staffOdd
        BY <1>1 DEF Staff!GlassTakes
    <2>2. \A a \in Account : row'[a].on => row'[a].secret # 0
        BY <1>1, <1>2, <1>3, <2>1 DEF StaffInv, Authentic
    <2>3. \A s \in sessions : s.who \in Account
        BY DEF StaffInv, StaffShape, StaffSession
    <2>4. \A s \in sessions : Staff!Live(s) /\ ~row'[s.who].fresh
             => s.factor = row'[s.who].secret /\ row'[s.who].on
        BY <1>1, <1>2, <1>3, <2>1, <2>3 DEF StaffInv, Authentic
    <2>. QED
        BY <2>1, <2>2, <2>4 DEF StaffInv, Authentic
<1>. QED
    BY <1>1, <1>4, <1>5, <1>6, AnswersKeeps, AnswersAlone DEF StaffInv

-----------------------------------------------------------------------------
(* What a sign-in step leaves alone.                                       *)
(* A step of a sign-in that changes no account, session or cutoff.         *)
Quietly == UNCHANGED <<row, role, req, requests>> /\ staffOdd' = staffOdd

(* Such a step keeps the invariant.                                        *)
LEMMA QuietStep ==
    ASSUME StaffInv, Quietly, StaffShape', Authentic'
    PROVE  StaffInv'
<1>1. SignInFrame
    BY DEF Quietly, SignInFrame, StaffInv, StaffShape
<1>. QED
    BY <1>1, SignInKeepsConsole DEF StaffInv

(* The password step, and its end.                                         *)
LEMMA PasswordStepStep ==
    ASSUME StaffInv, NEW a \in Account, Staff!Login(a) \/ Staff!PendingExpires(a)
    PROVE  StaffInv'
<1>1. Quietly /\ pending' \subseteq Account /\ UNCHANGED <<work, sessions, cutoff, minted, secrets>>
    BY DEF Staff!Login, Staff!PendingExpires, Quietly, StaffInv, StaffShape
<1>2. StaffShape'
    BY <1>1 DEF StaffInv, StaffShape, Quietly
<1>3. Authentic'
    BY <1>1, ConsoleKeepsSignIns DEF StaffInv, Quietly
<1>. QED
    BY <1>1, <1>2, <1>3, QuietStep

(* Signing out cuts sessions off.                                          *)
LEMMA LogoutStep ==
    ASSUME StaffInv, NEW a \in Account, Staff!Logout(a)
    PROVE  StaffInv'
<1>1. /\ Quietly /\ UNCHANGED <<work, pending, sessions, minted, secrets>>
      /\ cutoff' = [cutoff EXCEPT ![a] = minted]
    BY DEF Staff!Logout, Quietly
<1>2. StaffShape'
    BY <1>1 DEF StaffInv, StaffShape, Quietly
<1>3. \A s \in sessions : Staff!Live(s)' => Staff!Live(s)
    BY <1>1 DEF Staff!Live, StaffInv, StaffShape, StaffSession
<1>4. Authentic'
    BY <1>1, <1>3 DEF StaffInv, Authentic, Quietly
<1>. QED
    BY <1>1, <1>2, <1>4, QuietStep

(* A sign-in request reads the account.                                    *)
LEMMA StartsStep ==
    ASSUME StaffInv, NEW a \in Account, NEW f \in Nat,
           NEW step \in {"setup", "verify", "refresh", "password"}, Staff!Starts(a, step, f),
           "stale" \notin staffOdd =>
              /\ step = "verify" => f = row[a].secret /\ f # 0
              /\ step = "refresh" /\ ~row[a].fresh => f = row[a].secret /\ row[a].on
              /\ step = "setup" => ~row[a].on
    PROVE  StaffInv'
<1> DEFINE w == [step |-> step, who |-> a, read |-> row[a], factor |-> f]
<1>1. /\ Quietly /\ UNCHANGED <<pending, sessions, cutoff, minted, secrets>>
      /\ work' = work \cup {w}
    BY DEF Staff!Starts, Quietly
<1>2. w \in SignInWork /\ w.step = step /\ w.factor = f /\ w.read = row[a]
    BY DEF SignInWork, StaffInv, StaffShape
<1> HIDE DEF w
<1>3. StaffShape'
    BY <1>1, <1>2 DEF StaffInv, StaffShape, Quietly
<1>4. \A s : Staff!Live(s)' <=> Staff!Live(s)
    BY <1>1 DEF Staff!Live
<1>5. Authentic'
    BY <1>1, <1>2, <1>4 DEF StaffInv, Authentic, Quietly
<1>. QED
    BY <1>1, <1>3, <1>5, QuietStep

(* Every sign-in request.                                                  *)
LEMMA StartStep ==
    ASSUME StaffInv,
           \/ \E a \in Account : Staff!StartSetup(a) \/ Staff!StartVerify(a) \/ Staff!StartPassword(a)
           \/ \E s \in sessions : Staff!StartRefresh(s)
    PROVE  StaffInv'
<1>1. \A a \in Account : row[a].secret \in Nat
    BY StaffBounds DEF StaffInv, StaffShape, Staff!Row
<1>2. ASSUME NEW a \in Account, Staff!StartSetup(a) \/ Staff!StartVerify(a) \/ Staff!StartPassword(a) PROVE StaffInv'
    BY <1>1, <1>2, StartsStep DEF Staff!StartSetup, Staff!StartVerify, Staff!StartPassword
<1>3. ASSUME NEW s \in sessions, Staff!StartRefresh(s) PROVE StaffInv'
    <2>1. s.who \in Account /\ s.factor \in Nat
        BY DEF StaffInv, StaffShape, StaffSession
    <2>2. "stale" \notin staffOdd /\ ~row[s.who].fresh => s.factor = row[s.who].secret /\ row[s.who].on
        BY <1>3 DEF Staff!StartRefresh, StaffInv, Authentic
    <2>3. Staff!Starts(s.who, "refresh", s.factor)
        BY <1>3 DEF Staff!StartRefresh
    <2>. QED
        BY <2>1, <2>2, <2>3, StartsStep
<1>. QED
    BY <1>2, <1>3

(* A new authenticator, not yet switched on.                               *)
LEMMA FinishSetupStep ==
    ASSUME StaffInv, NEW w \in work, Staff!FinishSetup(w)
    PROVE  StaffInv'
<1>1. w \in SignInWork /\ w.who \in Account
    BY DEF StaffInv, StaffShape, SignInWork
<1>2. /\ secrets' \in 2..StaffSecrets /\ secrets' # 0
      /\ row' = [row EXCEPT ![w.who].secret = secrets']
    BY StaffBounds DEF Staff!FinishSetup, StaffInv, StaffShape
<1>3. row[w.who] \in Staff!Row
    BY <1>1 DEF StaffInv, StaffShape
<1>4. /\ row'[w.who] = [row[w.who] EXCEPT !.secret = secrets']
      /\ \A a \in Account : a # w.who => row'[a] = row[a]
    BY <1>1, <1>2 DEF StaffInv, StaffShape
<1>5. row' \in [Account -> Staff!Row]
    BY <1>1, <1>2, <1>3 DEF StaffInv, StaffShape, Staff!Row
<1>6. SignInFrame
    BY <1>3, <1>4, <1>5 DEF Staff!FinishSetup, Staff!Done, SignInFrame, Staff!Row
<1>7. StaffShape'
    BY <1>2, <1>5 DEF Staff!FinishSetup, Staff!Done, StaffInv, StaffShape
<1>8. Authentic'
    <2> SUFFICES ASSUME "stale" \notin staffOdd' PROVE Authentic'
        BY DEF Authentic
    <2>1. "stale" \notin staffOdd /\ row[w.who].on = w.read.on /\ ~w.read.on
        BY DEF Staff!FinishSetup, Staff!Done, Staff!Stale, StaffInv, Authentic
    <2>2. \A a \in Account : row'[a].on => row'[a].secret # 0
        BY <1>2, <1>3, <1>4, <2>1 DEF StaffInv, Authentic, Staff!Row
    <2>3. \A s \in sessions : s.who \in Account
        BY DEF StaffInv, StaffShape, StaffSession
    <2>4. \A s \in sessions : Staff!Live(s) /\ ~row'[s.who].fresh
             => s.factor = row'[s.who].secret /\ row'[s.who].on
        BY <1>3, <1>4, <2>1, <2>3 DEF StaffInv, Authentic, Staff!Row
    <2>5. \A s : Staff!Live(s)' <=> Staff!Live(s)
        BY DEF Staff!Live, Staff!FinishSetup
    <2>. QED
        BY <2>1, <2>2, <2>4, <2>5 DEF Staff!FinishSetup, Staff!Done, StaffInv, Authentic
<1>. QED
    BY <1>6, <1>7, <1>8, SignInKeepsConsole DEF StaffInv

(* A session is opened with the authenticator that was read.               *)
LEMMA MintStep ==
    ASSUME StaffInv, NEW w \in work, Staff!Done(w), Staff!Mint(w.who, w.factor),
           UNCHANGED <<role, req, pending, cutoff, secrets, requests>>,
           \/ w.step = "verify" /\ row' = IF w.read.on THEN row ELSE [row EXCEPT ![w.who].on = TRUE]
           \/ w.step = "refresh" /\ row' = row
    PROVE  StaffInv'
<1>1. w \in SignInWork /\ w.who \in Account /\ w.factor \in Nat /\ w.read \in Staff!Row
    BY DEF StaffInv, StaffShape, SignInWork
<1> DEFINE n == [who |-> w.who, at |-> minted', factor |-> w.factor]
<1>2. minted' \in 1..StaffTokens /\ minted' = minted + 1 /\ sessions' = sessions \cup {n}
    BY StaffBounds DEF Staff!Mint, StaffInv, StaffShape
<1>3. n \in StaffSession /\ n.at = minted' /\ n.who = w.who /\ n.factor = w.factor
    BY <1>1, <1>2 DEF StaffSession
<1> HIDE DEF n
<1>4. row[w.who] \in Staff!Row
    BY <1>1 DEF StaffInv, StaffShape
<1>5. /\ row' \in [Account -> Staff!Row]
      /\ \A a \in Account : /\ a # w.who => row'[a] = row[a]
                            /\ row'[a].status = row[a].status /\ row'[a].dept = row[a].dept
                            /\ row'[a].granted = row[a].granted
                            /\ row'[a].revoked = row[a].revoked
                            /\ row'[a].fresh = row[a].fresh /\ row'[a].secret = row[a].secret
                            /\ row[a].on => row'[a].on
      /\ w.step = "verify" => row'[w.who].on \/ w.read.on
      /\ w.step = "refresh" => row' = row
    <2>1. CASE row' = row /\ (w.step = "refresh" \/ w.read.on)
        BY <1>1, <2>1 DEF StaffInv, StaffShape
    <2>2. CASE row' = [row EXCEPT ![w.who].on = TRUE] /\ w.step = "verify"
        <3>1. /\ row'[w.who] = [row[w.who] EXCEPT !.on = TRUE]
              /\ \A a \in Account : a # w.who => row'[a] = row[a]
            BY <1>1, <2>2 DEF StaffInv, StaffShape
        <3>2. row' \in [Account -> Staff!Row]
            BY <1>1, <1>4, <2>2 DEF StaffInv, StaffShape, Staff!Row
        <3>. QED
            BY <1>4, <2>2, <3>1, <3>2 DEF Staff!Row
    <2>. QED
        BY <2>1, <2>2
<1>6. SignInFrame
    BY <1>5 DEF SignInFrame, Staff!Done
<1>7. StaffShape'
    <2>1. \A s \in sessions' : s \in StaffSession /\ s.at <= minted'
        BY <1>2, <1>3 DEF StaffInv, StaffShape, StaffSession
    <2>. QED
        BY <1>2, <1>5, <2>1 DEF Staff!Done, StaffInv, StaffShape
<1>8. Authentic'
    <2> SUFFICES ASSUME "stale" \notin staffOdd' PROVE Authentic'
        BY DEF Authentic
    <2>1. /\ "stale" \notin staffOdd /\ row[w.who].on = w.read.on /\ row[w.who].fresh = w.read.fresh
          /\ row[w.who].secret = w.read.secret
        BY DEF Staff!Done, Staff!Stale
    <2>2. /\ w.step = "verify" => w.factor = row[w.who].secret /\ w.factor # 0 /\ row'[w.who].on
          /\ w.step = "refresh" /\ ~row[w.who].fresh
               => w.factor = row[w.who].secret /\ row[w.who].on
        BY <1>1, <1>5, <2>1 DEF StaffInv, Authentic
    <2>3. \A a \in Account : row'[a].on => row'[a].secret # 0
        BY <1>1, <1>5, <2>1, <2>2 DEF StaffInv, Authentic
    <2>4. \A s \in sessions : s.who \in Account /\ (Staff!Live(s)' <=> Staff!Live(s))
        BY DEF StaffInv, StaffShape, StaffSession, Staff!Live
    <2>5. \A s \in sessions : Staff!Live(s)' /\ ~row'[s.who].fresh
             => s.factor = row'[s.who].secret /\ row'[s.who].on
        BY <1>5, <2>1, <2>4 DEF StaffInv, Authentic
    <2>6. ~row'[n.who].fresh => n.factor = row'[n.who].secret /\ row'[n.who].on
        BY <1>1, <1>3, <1>5, <2>2
    <2>. QED
        BY <1>2, <2>1, <2>3, <2>5, <2>6 DEF Staff!Done, StaffInv, Authentic
<1>. QED
    BY <1>6, <1>7, <1>8, SignInKeepsConsole DEF StaffInv

(* A new password ends every session.                                      *)
LEMMA FinishPasswordStep ==
    ASSUME StaffInv, NEW w \in work, Staff!FinishPassword(w)
    PROVE  StaffInv'
<1>1. w \in SignInWork /\ w.who \in Account
    BY DEF StaffInv, StaffShape, SignInWork
<1>2. /\ cutoff' = [cutoff EXCEPT ![w.who] = minted]
      /\ row' = IF w.read.fresh THEN [row EXCEPT ![w.who].fresh = FALSE] ELSE row
    BY DEF Staff!FinishPassword, Staff!PasswordCutoff
<1>3. row[w.who] \in Staff!Row
    BY <1>1 DEF StaffInv, StaffShape
<1>4. /\ row' \in [Account -> Staff!Row]
      /\ \A a \in Account : /\ a # w.who => row'[a] = row[a]
                            /\ row'[a].status = row[a].status /\ row'[a].dept = row[a].dept
                            /\ row'[a].granted = row[a].granted
                            /\ row'[a].revoked = row[a].revoked
                            /\ row'[a].on = row[a].on /\ row'[a].secret = row[a].secret
    <2>1. CASE row' = row
        BY <2>1 DEF StaffInv, StaffShape
    <2>2. CASE row' = [row EXCEPT ![w.who].fresh = FALSE]
        <3>1. /\ row'[w.who] = [row[w.who] EXCEPT !.fresh = FALSE]
              /\ \A a \in Account : a # w.who => row'[a] = row[a]
            BY <1>1, <2>2 DEF StaffInv, StaffShape
        <3>2. row' \in [Account -> Staff!Row]
            BY <1>1, <1>3, <2>2 DEF StaffInv, StaffShape, Staff!Row
        <3>. QED
            BY <1>3, <3>1, <3>2 DEF Staff!Row
    <2>. QED
        BY <1>2, <2>1, <2>2
<1>5. SignInFrame
    BY <1>4 DEF SignInFrame, Staff!FinishPassword, Staff!Done
<1>6. cutoff' \in [Account -> Nat]
    BY <1>1, <1>2 DEF StaffInv, StaffShape
<1>7. StaffShape'
    BY <1>4, <1>6 DEF Staff!FinishPassword, Staff!Done, StaffInv, StaffShape
<1>8. Authentic'
    <2> SUFFICES ASSUME "stale" \notin staffOdd' PROVE Authentic'
        BY DEF Authentic
    <2>1. "stale" \notin staffOdd
        BY DEF Staff!FinishPassword, Staff!Done
    <2>2. \A s \in sessions : /\ s.who \in Account
                              /\ Staff!Live(s)' => Staff!Live(s)
                              /\ s.who = w.who => ~Staff!Live(s)'
        BY <1>1, <1>2 DEF StaffInv, StaffShape, StaffSession, Staff!Live
    <2>3. \A s \in sessions : Staff!Live(s)' /\ ~row'[s.who].fresh
             => s.factor = row'[s.who].secret /\ row'[s.who].on
        <3> SUFFICES ASSUME NEW s \in sessions, Staff!Live(s)', ~row'[s.who].fresh
                     PROVE  s.factor = row'[s.who].secret /\ row'[s.who].on
            OBVIOUS
        <3>1. s.who \in Account /\ s.who # w.who /\ Staff!Live(s)
            BY <2>2 DEF Staff!Live
        <3>2. row'[s.who] = row[s.who]
            BY <1>4, <3>1
        <3>. QED
            BY <2>1, <3>1, <3>2 DEF StaffInv, Authentic
    <2>4. \A a \in Account : row'[a].on => row'[a].secret # 0
        BY <1>4, <2>1 DEF StaffInv, Authentic
    <2>. QED
        BY <2>1, <2>3, <2>4 DEF Staff!FinishPassword, Staff!Done, StaffInv, Authentic
<1>. QED
    BY <1>5, <1>7, <1>8, SignInKeepsConsole DEF StaffInv

-----------------------------------------------------------------------------
(* Every step keeps the invariant of Staff.                                *)
LEMMA StaffStep == StaffInv /\ [Staff!Next]_(Staff!vars) => StaffInv'
<1> SUFFICES ASSUME StaffInv, [Staff!Next]_(Staff!vars) PROVE StaffInv' OBVIOUS
<1>1. CASE UNCHANGED Staff!vars
    <2>1. Quietly /\ StaffShape' /\ Authentic'
        BY <1>1 DEF Staff!vars, Quietly, StaffInv, StaffShape, Authentic, Staff!Live
    <2>. QED
        BY <2>1, QuietStep
<1>2. CASE Staff!SignIn
    <2>1. ASSUME NEW w \in work, Staff!FinishVerify(w) \/ Staff!FinishRefresh(w) PROVE StaffInv'
        BY <2>1, MintStep DEF Staff!FinishVerify, Staff!FinishRefresh
    <2>. QED
        BY <1>2, <2>1, PasswordStepStep, LogoutStep, StartStep, FinishSetupStep,
           FinishPasswordStep DEF Staff!SignIn
<1>3. ASSUME NEW o \in Account \cup {Glass}, Staff!Console(o) PROVE StaffInv'
    <2>1. o \in Operator
        BY DEF Operator
    <2>. QED
        BY <1>3, <2>1, AsksStep, RevokeFirstStep, CommitStep, ConflictStep, SetRoleStep
            DEF Staff!Console
<1>. QED
    BY <1>1, <1>2, <1>3 DEF Staff!Next

(* It covers the properties.                                               *)
LEMMA StaffInvImplies == StaffInv => Staff!TypeOK /\ Staff!LastOnesKept /\ Staff!SessionHasFactor
<1> SUFFICES ASSUME StaffInv PROVE Staff!TypeOK /\ Staff!LastOnesKept /\ Staff!SessionHasFactor OBVIOUS
<1>1. Staff!TypeOK
    BY StaffBounds DEF StaffInv, StaffShape, Staff!TypeOK, Authentic
<1>2. Staff!SessionHasFactor
    BY DEF StaffInv, Authentic, Staff!SessionHasFactor, Staff!Usable
<1>. QED
    BY <1>1, <1>2 DEF StaffInv

(* Only a commit answers a request and changes the row it is about.        *)
LEMMA OnlyCommitWrites ==
    ASSUME StaffInv, [Staff!Next]_(Staff!vars), NEW o \in Account \cup {Glass}, NEW r \in req[o],
           r.what # "role", req'[o] = {}, row'[r.on] # row[r.on]
    PROVE  /\ r.what \in {"create", "update", "suspending", "reinstate", "resetting"}
           /\ row'[r.on] = Staff!Written(r)
<1> USE DEF Operator
<1>1. req[o] = {r} /\ req' # req /\ row' # row
    BY RequestOf DEF StaffInv
<1>2. ~Staff!SignIn
    BY <1>1 DEF Staff!SignIn, Staff!Login, Staff!PendingExpires, Staff!Starts, Staff!StartSetup,
        Staff!StartVerify, Staff!StartRefresh,
        Staff!StartPassword, Staff!FinishSetup, Staff!FinishVerify, Staff!FinishRefresh, Staff!FinishPassword, Staff!Logout
<1>3. PICK p \in Operator : Staff!Console(p)
    BY <1>1, <1>2 DEF Staff!Next, Staff!vars
<1>4. Staff!Commit(p)
    BY <1>1, <1>3 DEF Staff!Console, Staff!RevokeFirst, Staff!Conflict, Staff!SetRole,
        Staff!AskRole, Staff!AskSuspend, Staff!AskRestore,
        Staff!AskCreate, Staff!AskUpdate, Staff!Begins
<1>5. PICK q \in req[p] :
        /\ q.what \in {"create", "update", "suspending", "reinstate", "resetting"}
        /\ row' = [row EXCEPT ![q.on] = Staff!Written(q)]
        /\ req' = [req EXCEPT ![p] = {}]
    BY <1>4 DEF Staff!Commit
<1>6. p = o
    BY <1>1, <1>5 DEF StaffInv, StaffShape
<1>7. q = r /\ r.on \in Account
    BY <1>1, <1>5, <1>6, RequestOf DEF StaffInv
<1>. QED
    BY <1>5, <1>7 DEF StaffInv, StaffShape

(* What an account gains was held by the operator who asked, or lifts a    *)
(* revocation.                                                             *)
LEMMA GainsStep == StaffInv /\ [Staff!Next]_(Staff!vars) => Staff!GainsAreHeldStep
<1> SUFFICES ASSUME StaffInv, [Staff!Next]_(Staff!vars), NEW o \in Account \cup {Glass}, NEW r \in req[o],
                    r.what \in {"create", "update"}, req'[o] = {}, row'[r.on] # row[r.on]
             PROVE  Staff!Gain(r) \subseteq r.may \/ Staff!Lifts(r)
    BY DEF Staff!GainsAreHeldStep
<1>1. row'[r.on] = Staff!Written(r)
    BY OnlyCommitWrites
<1>2. /\ r.what = "create" => Staff!Held(row'[r.on]) \subseteq r.may
      /\ r.what = "update" => OnlyLifts(r, Staff!Held(row'[r.on]) \ Staff!Held(row[r.on]))
    BY <1>1, WrittenIs DEF Operator
<1>. QED
    BY <1>2 DEF OnlyLifts, Staff!Gain, Staff!Lifts

(* Nobody who holds more is touched.                                       *)
LEMMA HigherStep == StaffInv /\ [Staff!Next]_(Staff!vars) => Staff!HigherUntouchedStep
<1> SUFFICES ASSUME StaffInv, [Staff!Next]_(Staff!vars), NEW o \in Account \cup {Glass}, NEW r \in req[o],
                    "beside" \notin staffOdd, r.what # "role", r.what # "create"
             PROVE  Staff!Held(row[r.on]) \subseteq r.may
    BY DEF Staff!HigherUntouchedStep
<1>. QED
    BY DEF StaffInv, Alone, Operator

-----------------------------------------------------------------------------
(* Billing: what BillingProofs proves of the module Billing holds of the   *)
(* instance of it here, definition by definition.                          *)

BP == INSTANCE BillingProofs WITH
    tenant <- billingTenant, odd <- billingOdd, spent <- billingSpent

LEMMA BillingSizes == BP!Sizes
BY BillingBounds DEF BP!Sizes, BP!PaidPlan, Billing!PaidPlan

LEMMA BillingStart == Billing!Init => BP!Init
BY DEF
   Billing!Init, Billing!NoTenant, Billing!Idle, Billing!NoHook, Billing!Sub, Billing!NoSub,
   Billing!Unopened, BP!Init, BP!NoTenant, BP!Idle, BP!NoHook, BP!Sub, BP!NoSub, BP!Unopened

LEMMA BillingStep == [Billing!Next]_(Billing!vars) => [BP!Next]_(BP!vars)
<1>1. \A S : BP!Cardinality(S) = Billing!Cardinality(S)
  BY DEF BP!Cardinality, Billing!Cardinality
<1>2. Billing!Next => BP!Next
  BY <1>1 DEF
     Billing!Sub, Billing!NoSub, Billing!NoTenant, Billing!Unopened, Billing!Idle,
     Billing!NoHook, Billing!Within, Billing!Live, Billing!Billable, Billing!Items,
     Billing!LiveOf, Billing!Event, Billing!Kind, Billing!MirrorPlan, Billing!Mirror,
     Billing!Register, Billing!TrialEnds, Billing!PickPlan, Billing!Checkout, Billing!Adopt,
     Billing!AdoptAtCheckout, Billing!Bills, Billing!Says, Billing!Pay, Billing!Ends,
     Billing!GoesUnpaid, Billing!Recovers, Billing!PortalChange, Billing!Remove,
     Billing!Delivered, Billing!Concerns, Billing!HandleCompleted, Billing!HandleUpdated,
     Billing!StartDowngrade, Billing!OtherLive, Billing!AskStripe, Billing!StripeUnreachable,
     Billing!Downgraded, Billing!WriteDowngrade, Billing!AskChangeStoredFirst,
     Billing!AskChange, Billing!Resolve, Billing!Charge, Billing!Decline, Billing!Changed,
     Billing!Store, Billing!Dies, Billing!AskDelete, Billing!MustCancel,
     Billing!CancelAtStripe, Billing!CannotCancel, Billing!Erase, Billing!Deliver,
     Billing!Downgrade, Billing!Request, Billing!Stripe, Billing!Next, Billing!PaidPlan,
     BP!Sub, BP!NoSub, BP!NoTenant, BP!Unopened, BP!Idle, BP!NoHook, BP!Within, BP!Live,
     BP!Billable, BP!Items, BP!LiveOf, BP!Event, BP!Kind, BP!MirrorPlan, BP!Mirror,
     BP!Register, BP!TrialEnds, BP!PickPlan, BP!Checkout, BP!Adopt, BP!AdoptAtCheckout,
     BP!Bills, BP!Says, BP!Pay, BP!Ends, BP!GoesUnpaid, BP!Recovers, BP!PortalChange,
     BP!Remove, BP!Delivered, BP!Concerns, BP!HandleCompleted, BP!HandleUpdated,
     BP!StartDowngrade, BP!OtherLive, BP!AskStripe, BP!StripeUnreachable, BP!Downgraded,
     BP!WriteDowngrade, BP!AskChangeStoredFirst, BP!AskChange, BP!Resolve, BP!Charge,
     BP!Decline, BP!Changed, BP!Store, BP!Dies, BP!AskDelete, BP!MustCancel, BP!CancelAtStripe,
     BP!CannotCancel, BP!Erase, BP!Deliver, BP!Downgrade, BP!Request, BP!Stripe, BP!Next,
     BP!PaidPlan
<1>3. UNCHANGED Billing!vars => UNCHANGED BP!vars
  BY DEF Billing!vars, BP!vars
<1> QED BY <1>2, <1>3

LEMMA BillingMeans ==
    BP!TypeOK /\ BP!GrantMatchesBilling /\ BP!PaidMeansBilled
    /\ BP!BilledMeansPaid /\ BP!DeletedIsNotBilled /\ BP!PaidHasSubscription
    => GrantMatchesBilling
BY DEF GrantMatchesBilling,
   Billing!TypeOK, Billing!GrantMatchesBilling, Billing!PaidMeansBilled,
   Billing!BilledMeansPaid, Billing!DeletedIsNotBilled, Billing!PaidHasSubscription,
   Billing!Quiet, Billing!Live, Billing!LiveOf, Billing!Sub, Billing!Idle, Billing!NoHook,
   Billing!NoTenant, Billing!NoSub, Billing!Row, Billing!SubOrNone, Billing!PaidPlan,
   BP!TypeOK, BP!GrantMatchesBilling, BP!PaidMeansBilled, BP!BilledMeansPaid,
   BP!DeletedIsNotBilled, BP!PaidHasSubscription, BP!Quiet, BP!Live, BP!LiveOf, BP!Sub,
   BP!Idle, BP!NoHook, BP!NoTenant, BP!NoSub, BP!Row, BP!SubOrNone, BP!PaidPlan

(* The same promise: its start and its steps.                              *)
LEMMA PromiseStart == BP!Promise!Init => Billing!Promise!Init
BY DEF Billing!Items, Billing!Disturbed, Billing!Sub, Billing!PaidPlan, BP!Items, BP!Disturbed,
     BP!Sub, BP!PaidPlan, BP!Promise!Init, Billing!Promise!Init

LEMMA PromiseStep ==
    [BP!Promise!Next]_(BP!Promise!vars) => [Billing!Promise!Next]_(Billing!Promise!vars)
<1>1. \A items : BP!Promise!Buy(items) => Billing!Promise!Buy(items)
  BY DEF Billing!Items, Billing!Disturbed, Billing!Sub, Billing!PaidPlan, BP!Items, BP!Disturbed,
     BP!Sub, BP!PaidPlan, BP!Promise!Buy, Billing!Promise!Buy
<1>2. \A items : BP!Promise!Give(items) => Billing!Promise!Give(items)
  BY DEF Billing!Items, Billing!Disturbed, Billing!Sub, Billing!PaidPlan, BP!Items, BP!Disturbed,
     BP!Sub, BP!PaidPlan, BP!Promise!Give, Billing!Promise!Give
<1>3. BP!Promise!End => Billing!Promise!End
  BY DEF Billing!Items, Billing!Disturbed, Billing!Sub, Billing!PaidPlan, BP!Items, BP!Disturbed,
     BP!Sub, BP!PaidPlan, BP!Promise!End, Billing!Promise!End
<1>4. BP!Promise!Withdraw => Billing!Promise!Withdraw
  BY DEF Billing!Items, Billing!Disturbed, Billing!Sub, Billing!PaidPlan, BP!Items, BP!Disturbed,
     BP!Sub, BP!PaidPlan, BP!Promise!Withdraw, Billing!Promise!Withdraw
<1>5. BP!Promise!Close => Billing!Promise!Close
  BY DEF Billing!Items, Billing!Disturbed, Billing!Sub, Billing!PaidPlan, BP!Items, BP!Disturbed,
     BP!Sub, BP!PaidPlan, BP!Promise!Close, Billing!Promise!Close
<1>6. UNCHANGED BP!Promise!vars => UNCHANGED Billing!Promise!vars
  BY DEF Billing!Items, Billing!Disturbed, Billing!Sub, Billing!PaidPlan, BP!Items, BP!Disturbed,
     BP!Sub, BP!PaidPlan, BP!Promise!vars, Billing!Promise!vars
<1>7. /\ Billing!PaidPlan = BP!PaidPlan
      /\ \A id, p, n : Billing!Items(id, p, n) = BP!Items(id, p, n)
  BY DEF Billing!Items, Billing!PaidPlan, BP!Items, BP!PaidPlan
<1> DEFINE theirs == UNION {BP!Items(id, p, n) :
                        id \in 1..MaxTenants, p \in BP!PaidPlan, n \in 0..MaxSeats}
           ours == UNION {Billing!Items(id, p, n) :
                        id \in 1..MaxTenants, p \in Billing!PaidPlan, n \in 0..MaxSeats}
<1>8. theirs = ours
  BY <1>7
<1>9. ASSUME BP!Promise!Next PROVE Billing!Promise!Next
  <2>1. \/ \E items \in SUBSET theirs : BP!Promise!Buy(items) \/ BP!Promise!Give(items)
        \/ BP!Promise!End
        \/ BP!Promise!Withdraw
        \/ BP!Promise!Close
    BY <1>9 DEF BP!Promise!Next
  <2>2. \/ \E items \in SUBSET ours : Billing!Promise!Buy(items) \/ Billing!Promise!Give(items)
        \/ Billing!Promise!End
        \/ Billing!Promise!Withdraw
        \/ Billing!Promise!Close
        => Billing!Promise!Next
    BY DEF Billing!Promise!Next
  <2> HIDE DEF theirs, ours
  <2> QED BY <1>1, <1>2, <1>3, <1>4, <1>5, <1>8, <2>1, <2>2
<1> QED BY <1>6, <1>9

-----------------------------------------------------------------------------
(* The parts together                                                      *)

(* A step of the system is a step or a stutter of each part.               *)
LEMMA PartsStep ==
    ASSUME [PeopleNext]_peopleVars
    PROVE  /\ [Billing!Next]_(Billing!vars) /\ [Accounts!Next]_(Accounts!vars)
           /\ [Limits!Next]_(Limits!vars) /\ [Staff!Next]_(Staff!vars)
  BY DEF PeopleNext, peopleVars, LimitsPart, StaffPart, billingVars, accountsVars, limitsVars,
         staffVars, Billing!vars, Accounts!vars, Limits!vars, Staff!vars

(* For any tokens, secrets and requests: signing out, a new password or a  *)
(* replayed token ends every session there was, and none opened since; a   *)
(* refresh token and a reset link are exchanged once; the second factor is *)
(* on only with a secret in place (auth/security.py, api/auth.py).         *)
THEOREM SessionsEndHolds == PeopleSpec => []SessionsEnd
<1>1. PeopleInit => SessionsInv
  BY SessionsStart DEF PeopleInit
<1>2. SessionsInv /\ [PeopleNext]_peopleVars => SessionsInv'
  BY SessionsStep, PartsStep
<1>3. SessionsInv => SessionsEnd
  BY SessionsInvImplies DEF SessionsEnd
<1>4. QED BY <1>1, <1>2, <1>3, PTL DEF PeopleSpec

(* For any replicas, limits and locks: however requests are spread over    *)
(* instances, and while Redis comes and goes, no window admits more than   *)
(* its limit (of each store), wrong guesses wait out their locks, and a    *)
(* code is accepted once (security/limits.py).                             *)
THEOREM LimitsHoldAlways == PeopleSpec => []LimitsHold
<1>1. PeopleInit => LimitsInv
  BY LimitsStart DEF PeopleInit
<1>2. LimitsInv /\ [PeopleNext]_peopleVars => LimitsInv'
  BY LimitsStep, PartsStep
<1>3. LimitsInv => LimitsHold
  BY LimitsInvImplies DEF LimitsHold
<1>4. QED BY <1>1, <1>2, <1>3, PTL DEF PeopleSpec

(* For any operators, customers and requests: somebody active who holds the*)
(* permission to manage staff stays, however it is granted, revoked and    *)
(* moved, and the tenant keeps an owner, unless two requests overlapped or *)
(* the break-glass login moved one who manages or suspended while the      *)
(* departments miscounted who does; every session the console accepts was  *)
(* opened with the authenticator the account has now, unless a sign-in     *)
(* overlapped its change (api/staff.py, api/staff_auth.py).                *)
THEOREM StaffIsKeptHolds == PeopleSpec => []StaffIsKept
<1>1. PeopleInit => StaffInv
  BY StaffStart DEF PeopleInit
<1>2. StaffInv /\ [PeopleNext]_peopleVars => StaffInv'
  BY StaffStep, PartsStep
<1>3. StaffInv => StaffIsKept
  BY StaffInvImplies DEF StaffIsKept
<1>4. QED BY <1>1, <1>2, <1>3, PTL DEF PeopleSpec

(* No operator gives what they do not hold, but by lifting a revocation of *)
(* what the account's department or grants give (update_staff does not     *)
(* check that), and none acts on someone who holds more than they do unless*)
(* two requests overlap (api/staff.py, _assert_can_delegate,               *)
(* _assert_can_manage).                                                    *)
THEOREM NobodyOverreachesHolds == PeopleSpec => NobodyOverreaches
<1>1. PeopleInit => StaffInv
  BY StaffStart DEF PeopleInit
<1>2. StaffInv /\ [PeopleNext]_peopleVars => StaffInv'
  BY StaffStep, PartsStep
<1>3. StaffInv /\ [PeopleNext]_peopleVars
        => [Staff!GainsAreHeldStep /\ Staff!HigherUntouchedStep]_peopleVars
  BY GainsStep, HigherStep, PartsStep
<1>4. QED BY <1>1, <1>2, <1>3, PTL DEF PeopleSpec, NobodyOverreaches

(* For any workspaces, subscriptions, seats, changes and faults: once every*)
(* event of Stripe's is handled, a workspace has the plan and seats it is  *)
(* billed for, is paid for while it is billed and only then, and nothing is*)
(* billed for one that was deleted, but for the disorders each part names  *)
(* (api/billing.py, api/tenants.py).                                       *)
THEOREM GrantMatchesBillingHolds == PeopleSpec => []GrantMatchesBilling
<1> DEFINE Inv == BP!IInv /\ BP!DeletionClears /\ BP!Money
<1>1. PeopleInit => Inv
  BY BP!InitIInv, BP!InitMoney, BP!InitDeletionClears, BillingSizes, BillingStart
     DEF PeopleInit
<1>2. Inv /\ [PeopleNext]_peopleVars => Inv'
  BY BP!NextIInv, BP!DeletionStep, BP!MoneyStep, BillingSizes, BillingStep, PartsStep
<1>3. Inv => GrantMatchesBilling
  BY BP!MoneyMeans, BP!IInvMeans, BP!DeletionMeans, BillingMeans
<1>4. QED BY <1>1, <1>2, <1>3, PTL DEF PeopleSpec

(* Refinement of PaidAccess: a workspace is given only what was billed for *)
(* and loses it only after an end, until an event is handled out of turn or*)
(* the tenant changes under a handler that waits for Stripe                *)
(* (api/billing.py, billing/entitlement.py).                               *)
THEOREM GivenWasBilledHolds == PeopleSpec => GivenWasBilled
<1>1. PeopleInit => BP!IInv /\ Billing!Promise!Init
  BY BP!InitIInv, BP!InitPromise, PromiseStart, BillingSizes, BillingStart DEF PeopleInit
<1>2. BP!IInv /\ [PeopleNext]_peopleVars => BP!IInv'
  BY BP!NextIInv, BillingSizes, BillingStep, PartsStep
<1>3. BP!IInv /\ BP!IInv' /\ [PeopleNext]_peopleVars
        => [Billing!Promise!Next]_(Billing!Promise!vars)
  BY BP!NextPromise, PromiseStep, BillingSizes, BillingStep, PartsStep
<1>4. QED
  BY <1>1, <1>2, <1>3, PTL
     DEF PeopleSpec, GivenWasBilled, Billing!GivenWasBilled, Billing!Promise!Spec
=============================================================================

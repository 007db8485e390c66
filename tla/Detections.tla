------------------------------ MODULE Detections ------------------------------
(***************************************************************************)
(* What one event says (detections/*.py) and what it amounts to            *)
(* (risk/engine.py, llm/gate.py).  An event is the set of facts that hold  *)
(* of it and of what is stored about its sender or mailbox; a detection is *)
(* the set of findings it returns, a finding the service, <<family,        *)
(* number>>, and its tier.  Wording, scores and evidence are left out.     *)
(***************************************************************************)
EXTENDS Naturals, FiniteSets

NoTier == 0
Low == 1
Medium == 2
High == 3
Critical == 4

Where(condition, set) == IF condition THEN set ELSE {}
Find(family, number, tier) == {[service |-> <<family, number>>, tier |-> tier]}
Harder(facts, fact, tier, otherwise) == IF fact \in facts THEN tier ELSE otherwise
-----------------------------------------------------------------------------
(* Facts of the text.  detections/content.py reads subject and bodies      *)
(* (_body); detections/impersonation.py reads the attachments' text too    *)
(* (mail_text).  "attached": what is said about money is in an attachment. *)
Money == {"payment", "account", "changed", "urgent", "rebilled", "outsized"}
Body(m) == IF "attached" \in m THEN m \ Money ELSE m

\* "external": inbound, from a domain the tenant does not own.
From(m, needed) == {"external"} \cup needed \subseteq m

A1(m) == Where(From(m, {"payment", "account", "baseline", "changed"}), Find("A", 1, Critical))
\* No row of the counterparty counts as no verified number on file.
A2(m) == Where(From(Body(m), {"payment", "account"}) /\ ~({"phone", "baseline"} \subseteq m),
               Find("A", 2, Medium))
\* "cousin": a look-alike under 0.9, "swapped" (the TLD) and "homoglyph" over it.
A3(m) ==
    LET alike == m \cap {"cousin", "swapped", "homoglyph"}
        tier  == IF "cousin" \in m /\ "correspondent" \notin m THEN Medium ELSE High
    IN  Where("external" \in m,
              IF alike # {} THEN Find("A", IF "homoglyph" \in m THEN 4 ELSE 3, tier)
              ELSE Where("colleague" \in m, Find("A", 5, High)))
A4(m) == Where(From(m, {"homoglyph"}), Find("A", 4, High))
A5(m) == Where(From(m, {"brand"}), Find("A", 5, Harder(m, "freemail", High, Medium)))
A6(m) == Where(From(m, {"rerouted"}), Find("A", 6, Harder(m, "payment", High, Medium)))
    \cup Where(From(m, {"rehanded", "payment"}) /\ "rerouted" \notin m, Find("A", 6, Medium))
A7(m) == Where(From(m, {"payment"}) /\ "met" \notin m, Find("A", 7, Harder(m, "young", High, Medium)))
\* A reply inside a stored thread that breaks with it, or one without a thread.
A8(m) == Where("external" \in m
               /\ \/ {"thread", "payment"} \subseteq m /\ m \cap {"newReply", "unsigned"} # {}
                  \/ "forged" \in m, Find("A", 8, High))
A9(m) == Where(From(m, {"longKnown", "drift"}),
               Find("A", 9, Harder(Body(m), "payment", High, Medium)))
A10(m) == Where(From(m, {"known", "newSigner"}), Find("A", 10, Harder(m, "payment", High, Medium)))
A11(m) == Where(From(Body(m), {"dormant", "payment"}), Find("A", 11, High))
A12(m) == Where({"outbound", "stalled", "payment"} \subseteq Body(m), Find("A", 12, Medium))
A13(m) == Where(From(Body(m), {"rebilled"}), Find("A", 13, High))
     \cup Where(From(Body(m), {"outsized"}), Find("A", 13, Medium))
A14(m) == Where(From(m, {"urgent", "payment"}), Find("A", 14, Low))
A15(m) == Where(From(m, {"payment", "account", "mule"}), Find("A", 15, Critical))
-----------------------------------------------------------------------------
\* score_url over links and codes: a feed hit, a hard reason, or a soft one.
Hard == {"feedLink", "bareLink", "bareCode"}
Soft == {"softLink", "softCode"}
B1(m) == Where(/\ "external" \in m
               /\ \/ m \cap Hard # {}
                  \/ m \cap Soft # {} /\ Body(m) \cap {"payment", "login"} # {},
               Find("B", 1, Harder(m, "feedLink", High, Medium)))
B2(m) == Where("external" \in m /\ m \cap {"feedLink", "bareLink", "softLink", "link"} # {}, Find("B", 2, Low))
B3(m) == Where(From(m, {"image"}),
               IF m \cap {"bareCode", "softCode"} # {} THEN Find("B", 3, High)
               ELSE Where(Body(m) \cap {"payment", "baitWord"} # {}, Find("B", 3, Medium)))
B4(m) == Where("malware" \in m, Find("B", 4, Critical)) \cup Where("script" \in m, Find("B", 4, High))
B5(m) == Where("locked" \in m, Find("B", 5, High)) \cup Where("nested" \in m, Find("B", 5, Medium))
B6(m) == Where(m \cap {"disguised", "smuggled"} # {}, Find("B", 6, High))
    \cup Where("macro" \in m, Find("B", 6, Medium))
B7(m) == Where(From(m, {"feedSender"}) /\ "freemail" \notin m, Find("B", 7, High))
B8(m) == Where(From(m, {"failed"}), Find("B", 8, Harder(m, "failedTwice", Medium, Low)))
B9(m) == Where(From(m, {"newborn"}), Find("B", 9, Harder(Body(m), "payment", High, Medium)))
-----------------------------------------------------------------------------
(* Identity events: "kind" facts say what happened; previous sign-in,      *)
(* devices and presence are what the mailbox's sensor sessions say.        *)
SignedIn(e) == e \cap {"signIn", "session"} # {}
Masked(e) == e \cap {"vpn", "tor", "hosting"} # {}

C1(e) == Where({"rule", "outside"} \subseteq e, Find("C", 1, Critical))
C2(e) == Where({"rule", "hides", "finance"} \subseteq e, Find("C", 2, Critical))
C3(e) == Where("delegate" \in e, Find("C", 3, Harder(e, "outside", Critical, High)))
C4(e) == Where({"grant", "mailScope"} \subseteq e, Find("C", 4, Critical))
C5(e) == Where("signature" \in e, Find("C", 5, Harder(e, "addedAccount", Critical, Low)))
C6(e) == Where(SignedIn(e) /\ "others" \in e /\ Masked(e), Find("C", 6, High))
\* "far": over MIN_TRAVEL_KM; "fast": over MAX_TRAVEL_KMH; both need coordinates.
C7(e) == Where(SignedIn(e) /\ {"previous", "far", "fast"} \subseteq e /\ e \cap {"vpn", "proxy", "tor"} = {},
               Find("C", 7, High))
C8(e) == Where(SignedIn(e) /\ {"previous", "abroad"} \subseteq e /\ "fast" \notin e, Find("C", 8, Medium))
C9(e) == Where(SignedIn(e) /\ (Masked(e) \/ "proxy" \in e),
               Find("C", 9, IF e \cap {"tor", "hosting"} # {} THEN High ELSE Medium))
C10(e) == Where(SignedIn(e) /\ {"newDevice", "hasDevices"} \subseteq e,
                Find("C", 10, IF Masked(e) THEN Medium ELSE Low))
C11(e) == Where("seen" \in e /\ e \cap {"attested", "present"} = {}, Find("C", 11, Critical))
C12(e) == Where(e \cap {"credential", "mfaAdded"} # {}, Find("C", 12, High))
     \cup Where("mfaRemoved" \in e, Find("C", 12, Critical))
C13(e) == Where(e \cap {"signIn", "mfaAdded", "mfaRemoved"} # {} /\ "noMfa" \in e, Find("C", 13, Medium))
C14(e) == Where({"signIn", "shared", "previous", "far", "fast"} \subseteq e, Find("C", 14, High))
C15(m) == Where({"outbound", "armed", "sensor", "fresh"} \subseteq m /\ "present" \notin m,
                Find("C", 15, Critical))
-----------------------------------------------------------------------------
OnMail(m) == A1(m) \cup A2(m) \cup A3(m) \cup A4(m) \cup A5(m) \cup A6(m) \cup A7(m) \cup A8(m)
    \cup A9(m) \cup A10(m) \cup A11(m) \cup A12(m) \cup A13(m) \cup A14(m) \cup A15(m)
    \cup B1(m) \cup B2(m) \cup B3(m) \cup B4(m) \cup B5(m) \cup B6(m) \cup B7(m) \cup B8(m) \cup B9(m)
    \cup C15(m)
OnIdentity(e) == C1(e) \cup C2(e) \cup C3(e) \cup C4(e) \cup C5(e) \cup C6(e) \cup C7(e) \cup C8(e)
    \cup C9(e) \cup C10(e) \cup C11(e) \cup C12(e) \cup C13(e) \cup C14(e)

(* What a detection needs of the mailbox's sources (core/capabilities.py); *)
(* IMAP that only polls cannot modify, forwarding reads inbound mail only. *)
Requires(s) ==
    CASE s = <<"A", 9>> -> {"inbound", "history"}
      [] s = <<"A", 12>> -> {"inbound", "outbound"}
      [] s = <<"B", 2>> -> {"inbound", "modify"}
      [] s \in {<<"C", 1>>, <<"C", 2>>} -> {"rules"}
      [] s \in {<<"C", 3>>, <<"C", 4>>} -> {"grants"}
      [] s \in {<<"C", 5>>, <<"C", 15>>} -> {"outbound"}
      [] s = <<"C", 10>> -> {"fingerprint"}
      [] s = <<"C", 11>> -> {"flags"}
      [] s \in {<<"C", 12>>, <<"C", 13>>} -> {"mfa"}
      [] s[1] = "C" /\ s[2] \in {6, 7, 8, 9, 14} -> {"sessions"}
      [] OTHER -> {"inbound"}

Polled == {"inbound", "outbound", "history", "flags"}
Can(source) ==
    CASE source = "forwarded" -> {"inbound"}
      [] source = "polled" -> Polled
      [] source = "imap" -> Polled \cup {"modify"}
      [] source = "oauth" -> Polled \cup {"modify", "rules"}
      [] source = "sensor" -> {"sessions", "fingerprint"}
      [] source = "audit" -> {"sessions", "mfa", "grants"}

Included(plan) == CASE plan = "guard" -> {"D"}
                    [] plan \in {"solo", "essential"} -> {"A", "B", "D"}
                    [] plan = "complete" -> {"A", "B", "C", "D"}

\* run_all leaves two services out of a notice its provider vouches for.
SkippedAll(e) == Where("vouched" \in e, {<<"A", n>> : n \in {1, 2, 7, 9, 10, 11, 13}} \cup {<<"B", 9>>})
Skipped(e) == Where("vouched" \in e, {<<"A", 7>>, <<"B", 9>>})

RunAll(found, e, capabilities, plan) ==
    {f \in found : /\ Requires(f.service) \subseteq capabilities
                   /\ f.service[1] \in Included(plan)
                   /\ f.service \notin Skipped(e)}
-----------------------------------------------------------------------------
(* risk/engine.py.  A combination without a floor promotes by one tier.    *)
Services(F) == {f.service : f \in F}
A(n) == <<"A", n>>
Promoting == {{A(n), A(1)} : n \in {3, 6, 7, 8, 10, 14}} \cup {{<<"C", 1>>, <<"C", 11>>}}
Forcing == {{A(2), A(n)} : n \in 3..6} \cup {{A(2), <<"B", 7>>}, {A(2), A(7), A(14)}}

Highest(F) == CHOOSE t \in NoTier..Critical : (\E f \in F : f.tier = t) /\ \A f \in F : f.tier <= t
AtMost(t) == IF t > Critical THEN Critical ELSE t

Assess(F) ==
    IF F = {} THEN NoTier
    ELSE IF \E c \in Forcing : c \subseteq Services(F) THEN Critical
         ELSE AtMost(Highest(F) + Cardinality({c \in Promoting : c \subseteq Services(F)}))

Callback(F) == \/ A(1) \in Services(F)
               \/ A(2) \in Services(F) /\ Assess(F) = Critical

\* llm/gate.py and the plan's part of llm/cascade.refine.
Judged == {A(n) : n \in (1..15) \ {12}} \cup {<<"B", n>> : n \in {1, 3, 4, 5, 6, 7, 9}}
ShouldEscalate(F, plan) ==
    /\ Services(F) \cap Judged # {}
    /\ Assess(F) \in {Medium, High}
    /\ plan = "complete" \/ \E s \in Services(F) : s[1] = "A"
=============================================================================

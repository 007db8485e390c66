------------------------------ MODULE Accounts ------------------------------
(***************************************************************************)
(* One account: its password, second factor and recovery codes, the tokens *)
(* it is signed in with and the store of revocations (api/auth.py,         *)
(* auth/security.py, auth/deps.py, security/limits.py).                    *)
(*                                                                         *)
(* A request loads the user's row and checks its token, and commits later; *)
(* the commit writes the columns it changed. Time is a counter that moves  *)
(* whenever a token is issued or revoked.                                  *)
(***************************************************************************)
EXTENDS Naturals, Sequences, FiniteSets

CONSTANTS
    Req,            \* requests that may run side by side
    MaxTokens,      \* bound: tokens issued
    MaxRequests,    \* bound: requests made
    MaxSecrets,     \* bound: authenticator secrets generated
    MaxOutages      \* bound: times Redis becomes unreachable

VARIABLES
    user,       \* the users row: [pw, mfa, secret, codes]
    tokens,     \* every token issued: [typ, iat, auth, slip]
    shared,     \* the revocations in Redis: [cut, used]
    local,      \* those this instance kept while Redis was away
    up,         \* Redis answers
    now,        \* the clock
    jobs,       \* the requests in progress
    ended,      \* when everyone was last signed out (history)
    pairs,      \* how often each token was exchanged (history)
    redeemed,   \* recovery codes that signed somebody in, in order (history)
    odd,        \* which rare things have happened (history)
    spent

vars == <<user, tokens, shared, local, up, now, jobs, ended, pairs, redeemed, odd, spent>>

Code == {1, 2}      \* the recovery codes, of which there are ten
NoToken == 0
Idle == [pc |-> "idle", kind |-> "none", tok |-> NoToken, start |-> 0, code |-> 0,
         seen |-> [pw |-> 0, mfa |-> FALSE, secret |-> 0, codes |-> {}]]

Init ==
    /\ user = [pw |-> 0, mfa |-> FALSE, secret |-> 0, codes |-> {}]
    /\ tokens = <<>>
    /\ shared = [cut |-> 0, used |-> {}] /\ local = [cut |-> 0, used |-> {}]
    /\ up = TRUE /\ now = 1
    /\ jobs = [r \in Req |-> Idle]
    /\ ended = 0 /\ pairs = [i \in 1..MaxTokens |-> 0] /\ redeemed = <<>>
    /\ odd = {}
    /\ spent = [requests |-> 0, secrets |-> 0, outages |-> 0]

-----------------------------------------------------------------------------
(* The store of revocations                                                *)

Store == IF up THEN shared ELSE local

(* is_revoked: a used token, or one issued before the user's cutoff.       *)
UsedOnly(i) == i \in Store.used
Revoked(i) == i \in Store.used \/ tokens[i].iat < Store.cut

Keep(new) == IF up THEN shared' = new /\ UNCHANGED local
                   ELSE local' = new /\ UNCHANGED shared

(* arevoke_user: the cutoff is this instant, not the end of the ban.       *)
Cutoff == now

SignsEveryoneOut ==
    /\ Keep([Store EXCEPT !.cut = Cutoff])
    /\ now' = now + 1
    /\ ended' = now
    /\ odd' = IF up THEN odd ELSE odd \cup {"outage"}

RedisFails ==
    /\ up /\ spent.outages < MaxOutages
    /\ up' = FALSE
    /\ spent' = [spent EXCEPT !.outages = @ + 1]
    /\ odd' = odd \cup {"failover"}
    /\ UNCHANGED <<user, tokens, shared, local, now, jobs, ended, pairs, redeemed>>

RedisReturns ==
    /\ ~up /\ up' = TRUE
    /\ UNCHANGED <<user, tokens, shared, local, now, jobs, ended, pairs, redeemed, odd,
                   spent>>

-----------------------------------------------------------------------------
(* Requests                                                                *)

Live == {i \in 1..Len(tokens) : ~Revoked(i)}
OfType(typ) == {i \in 1..Len(tokens) : tokens[i].typ = typ}

Begins(r, kind, i, code) ==
    /\ jobs[r] = Idle
    /\ spent.requests < MaxRequests
    /\ spent' = [spent EXCEPT !.requests = @ + 1]
    /\ jobs' = [jobs EXCEPT ![r] = [pc |-> "loaded", kind |-> kind, tok |-> i,
                                    start |-> now, code |-> code, seen |-> user]]
    /\ UNCHANGED <<user, tokens, shared, local, up, now, ended, pairs, redeemed, odd>>

(* login with the right password; a challenge is issued.                   *)
Login(r) == Begins(r, "login", NoToken, 0)

(* The three ways to answer the challenge: mfa_skip, mfa_verify, recovery. *)
NoFactor(u) == ~u.mfa
Skip(r, i) == i \in OfType("challenge") /\ NoFactor(user) /\ Begins(r, "skip", i, 0)
Verify(r, i) == /\ i \in OfType("challenge") /\ user.secret # 0
                /\ Begins(r, "verify", i, user.secret)
Recover(r, i, c) == /\ i \in OfType("challenge") /\ c \in user.codes
                    /\ Begins(r, "recover", i, c)

(* mfa_setup and mfa_enroll put a new secret in place.                     *)
Enrol(r, i) == /\ i \in OfType("challenge") \cup (OfType("access") \cap Live)
               /\ ~user.mfa
               /\ Begins(r, "enrol", i, 0)

(* mfa_activate, mfa_disable, change_password: from a live session, with   *)
(* the password again.                                                     *)
Activate(r, i) == /\ i \in OfType("access") \cap Live
                  /\ ~user.mfa /\ user.secret # 0
                  /\ Begins(r, "activate", i, user.secret)
Disable(r, i) == /\ i \in OfType("access") \cap Live
                 /\ user.mfa /\ Begins(r, "disable", i, 0)
ChangePassword(r, i) == i \in OfType("access") \cap Live /\ Begins(r, "change", i, 0)

(* forgot_password mails a link, which reset_password takes once.          *)
ResetPassword(r, i) == i \in OfType("reset") \cap Live /\ Begins(r, "reset", i, 0)

Refresh(r, i) ==
    /\ i \in OfType("refresh")
    /\ i \in Live
    /\ Begins(r, "refresh", i, 0)

(* A used refresh token presented again signs everyone out.                *)
RefreshReused(i) ==
    /\ i \in OfType("refresh") \ Live
    /\ spent.requests < MaxRequests
    /\ spent' = [spent EXCEPT !.requests = @ + 1]
    /\ SignsEveryoneOut
    /\ UNCHANGED <<user, tokens, up, jobs, pairs, redeemed>>

Logout(i) ==
    /\ i \in OfType("access") \cap Live
    /\ spent.requests < MaxRequests
    /\ spent' = [spent EXCEPT !.requests = @ + 1]
    /\ SignsEveryoneOut
    /\ UNCHANGED <<user, tokens, up, jobs, pairs, redeemed>>

-----------------------------------------------------------------------------
(* Commits                                                                 *)

(* The history of the sign-in a token descends from, and whether it was    *)
(* under way when everyone was signed out.                                 *)
Auth(j) == IF j.tok = NoToken THEN j.start ELSE tokens[j.tok].auth
Slip(j) == \/ j.start <= ended
           \/ j.tok # NoToken /\ (tokens[j.tok].slip \/ tokens[j.tok].typ = "challenge")

Issue(j, types) ==
    /\ Len(tokens) + Len(types) <= MaxTokens
    /\ tokens' = tokens \o [k \in 1..Len(types) |->
                     [typ |-> types[k], iat |-> now, auth |-> Auth(j), slip |-> Slip(j)]]
    /\ now' = now + 1

Pair == <<"access", "refresh">>
Finish(r) == jobs' = [jobs EXCEPT ![r] = Idle]

CommitLogin(r) ==
    /\ jobs[r].pc = "loaded" /\ jobs[r].kind = "login"
    /\ Issue(jobs[r], <<"challenge">>)
    /\ Finish(r)
    /\ UNCHANGED <<user, shared, local, up, ended, pairs, redeemed, odd, spent>>

(* A reset link is a token too, mailed to the address.                     *)
Forgot ==
    /\ spent.requests < MaxRequests
    /\ spent' = [spent EXCEPT !.requests = @ + 1]
    /\ Len(tokens) < MaxTokens
    /\ tokens' = Append(tokens, [typ |-> "reset", iat |-> now, auth |-> now, slip |-> FALSE])
    /\ now' = now + 1
    /\ UNCHANGED <<user, shared, local, up, jobs, ended, pairs, redeemed, odd>>

(* What a request finds changed when it commits.                           *)
Crossed(j) == IF <<j.seen.mfa, j.seen.secret, j.seen.codes>> #
                 <<user.mfa, user.secret, user.codes>>
              THEN odd \cup {"crossed"} ELSE odd

(* _complete_login.                                                        *)
SignIn(r) ==
    /\ jobs[r].pc = "loaded" /\ jobs[r].kind \in {"skip", "verify", "recover"}
    /\ LET j == jobs[r]
           first == j.kind = "verify" /\ ~j.seen.mfa IN
       /\ user' = [user EXCEPT !.mfa = @ \/ first,
                               !.codes = CASE first -> Code
                                           [] j.kind = "recover" -> j.seen.codes \ {j.code}
                                           [] OTHER -> @]
       /\ redeemed' = IF j.kind = "recover" THEN Append(redeemed, j.code)
                      ELSE IF first THEN <<>> ELSE redeemed
       /\ odd' = Crossed(j)
       /\ Issue(j, Pair)
    /\ Finish(r)
    /\ UNCHANGED <<shared, local, up, ended, pairs, spent>>

CommitEnrol(r) ==
    /\ jobs[r].pc = "loaded" /\ jobs[r].kind = "enrol"
    /\ spent.secrets < MaxSecrets
    /\ spent' = [spent EXCEPT !.secrets = @ + 1]
    /\ user' = [user EXCEPT !.secret = spent.secrets + 1]
    /\ odd' = Crossed(jobs[r])
    /\ Finish(r)
    /\ UNCHANGED <<tokens, shared, local, up, now, ended, pairs, redeemed>>

CommitActivate(r) ==
    /\ jobs[r].pc = "loaded" /\ jobs[r].kind = "activate"
    /\ user' = [user EXCEPT !.mfa = TRUE, !.codes = Code]
    /\ redeemed' = <<>>
    /\ odd' = Crossed(jobs[r])
    /\ Finish(r)
    /\ UNCHANGED <<tokens, shared, local, up, now, ended, pairs, spent>>

Disabled(u) == [u EXCEPT !.mfa = FALSE, !.secret = 0, !.codes = {}]

CommitDisable(r) ==
    /\ jobs[r].pc = "loaded" /\ jobs[r].kind = "disable"
    /\ user' = Disabled(user)
    /\ odd' = Crossed(jobs[r])
    /\ Finish(r)
    /\ UNCHANGED <<tokens, shared, local, up, now, ended, pairs, redeemed, spent>>

(* The new password ends every session before it is committed.             *)
CommitPassword(r) ==
    /\ jobs[r].pc = "loaded" /\ jobs[r].kind = "change"
    /\ user' = [user EXCEPT !.pw = @ + 1]
    /\ SignsEveryoneOut
    /\ Finish(r)
    /\ UNCHANGED <<tokens, up, pairs, redeemed, spent>>

(* reset_password revokes its link and then the user.                      *)
CommitReset(r) ==
    /\ jobs[r].pc = "loaded" /\ jobs[r].kind = "reset"
    /\ LET i == jobs[r].tok IN
       /\ Keep([cut |-> Cutoff, used |-> Store.used \cup {i}])
       /\ odd' = (IF up THEN odd ELSE odd \cup {"outage"}) \cup
                 (IF \E q \in Req \ {r} : jobs[q].tok = i THEN {"double"} ELSE {})
       /\ pairs' = [pairs EXCEPT ![i] = @ + 1]
    /\ now' = now + 1
    /\ ended' = now
    /\ user' = [user EXCEPT !.pw = @ + 1]
    /\ Finish(r)
    /\ UNCHANGED <<tokens, up, redeemed, spent>>

(* aconsume_jti: exactly one caller is first.                              *)
First(i) == i \notin Store.used

Consume(r) ==
    /\ jobs[r].pc = "loaded" /\ jobs[r].kind = "refresh"
    /\ LET i == jobs[r].tok IN
       IF First(i)
       THEN /\ Keep([Store EXCEPT !.used = @ \cup {i}])
            /\ jobs' = [jobs EXCEPT ![r].pc = "mint", ![r].seen = user]
            /\ pairs' = [pairs EXCEPT ![i] = @ + 1]
            /\ UNCHANGED <<now, ended, odd>>
       ELSE /\ SignsEveryoneOut
            /\ Finish(r)
            /\ UNCHANGED pairs
    /\ UNCHANGED <<user, tokens, up, redeemed, spent>>

Mint(r) ==
    /\ jobs[r].pc = "mint"
    /\ Issue(jobs[r], Pair)
    /\ Finish(r)
    /\ UNCHANGED <<user, shared, local, up, ended, pairs, redeemed, odd, spent>>

(* A request that fails its commit, or its client, leaves nothing behind.  *)
Drop(r) ==
    /\ jobs[r] # Idle
    /\ Finish(r)
    /\ UNCHANGED <<user, tokens, shared, local, up, now, ended, pairs, redeemed, odd, spent>>

-----------------------------------------------------------------------------
Next ==
    \/ \E r \in Req :
         \/ Login(r) \/ CommitLogin(r) \/ SignIn(r) \/ CommitEnrol(r) \/ CommitActivate(r)
         \/ CommitDisable(r) \/ CommitPassword(r) \/ CommitReset(r) \/ Consume(r)
         \/ Mint(r) \/ Drop(r)
         \/ \E i \in 1..Len(tokens) :
              \/ Skip(r, i) \/ Verify(r, i) \/ Enrol(r, i) \/ Activate(r, i) \/ Disable(r, i)
              \/ ChangePassword(r, i) \/ ResetPassword(r, i) \/ Refresh(r, i)
              \/ \E c \in Code : Recover(r, i, c)
    \/ \E i \in 1..Len(tokens) : RefreshReused(i) \/ Logout(i)
    \/ Forgot \/ RedisFails \/ RedisReturns

Spec == Init /\ [][Next]_vars
-----------------------------------------------------------------------------
(* Properties                                                              *)

(* Every variable keeps its shape.                                         *)
TypeOK ==
    /\ user.mfa \in BOOLEAN /\ user.secret \in 0..MaxSecrets /\ user.codes \subseteq Code
    /\ \A i \in 1..Len(tokens) :
         /\ tokens[i].typ \in {"challenge", "access", "refresh", "reset"}
         /\ tokens[i].iat < now
    /\ \A r \in Req : jobs[r].pc \in {"idle", "loaded", "mint"}
    /\ shared.used \cup local.used \subseteq 1..Len(tokens)
    /\ shared.cut < now /\ local.cut < now

Session == OfType("access") \cup OfType("refresh")

(* Signing out, a new password or a replayed token ends every session that *)
(* was open, for good; what is still accepted was signed in afterwards, or *)
(* comes from a sign-in or refresh that was already under way.             *)
OldSessionsEnd ==
    odd \cap {"outage", "failover"} = {} =>
        \A i \in Session \cap Live : tokens[i].auth < ended =>
            tokens[i].iat > ended /\ tokens[i].slip

(* A session opened after the last sign-out works until it is refreshed,   *)
(* even while Redis is away or after it came back.                         *)
NewSessionsWork ==
    \A i \in Session : tokens[i].iat > ended /\ pairs[i] = 0
        => i \in Live

(* A refresh token is exchanged once and a reset link changes the password *)
(* once, unless Redis failed over or two requests with the link met.       *)
ExchangedOnce ==
    odd \cap {"outage", "failover", "double"} = {} => \A i \in DOMAIN pairs : pairs[i] <= 1

(* The second factor is on only with a secret in place, and only then are  *)
(* there recovery codes, unless two requests crossed.                      *)
FactorConsistent ==
    "crossed" \notin odd => /\ user.mfa => user.secret # 0
                            /\ user.codes # {} => user.mfa

(* "Redeem a single-use recovery code" (api/auth.py): none signs anybody   *)
(* in twice.                                                               *)
RecoveryCodesSingleUse ==
    \A m, n \in 1..Len(redeemed) : redeemed[m] = redeemed[n] => m = n
=============================================================================

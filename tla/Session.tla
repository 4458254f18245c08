------------------------------ MODULE Session ------------------------------
(***************************************************************************)
(* Cookie sessions: internal/session and the handlers of internal/web that *)
(* change one.  The server keeps nothing.  Each request carries the cookie *)
(* the browser had when it was sent, its handler works on that copy, and a *)
(* copy that changed comes back with the response, in whatever order the   *)
(* responses arrive, and replaces the browser's cookie as a whole.         *)
(***************************************************************************)
EXTENDS Naturals, FiniteSets

CONSTANTS
  Requests,     \* requests in flight; a slot is used again
  Users, Totp,  \* accounts, and those with TOTPEnabled
  Nobody,
  Codes,        \* password-protected links
  Room,         \* maxCookieBytes: flashes and links a cookie has room for
  MaxTokens, MaxChallenges, MaxLogins   \* bounds: CSRF tokens, proofs, pending logins

ASSUME SessionAssumption ==
  /\ Totp \subseteq Users /\ Nobody \notin Users
  /\ Room \in Nat /\ MaxTokens \in Nat /\ MaxChallenges \in Nat /\ MaxLogins \in Nat

None == 0
Tokens == 1 .. MaxTokens
Challenges == 1 .. MaxChallenges
Logins == 1 .. MaxLogins

\* since stands for PendingSince; flash: messages are queued.
Data == [uid: Users \cup {Nobody}, pending: Users \cup {Nobody},
         since: Logins \cup {None}, csrf: Tokens \cup {None},
         pow: Challenges \cup {None}, flash: BOOLEAN, links: SUBSET Codes]

NoData == [uid |-> Nobody, pending |-> Nobody, since |-> None, csrf |-> None,
           pow |-> None, flash |-> FALSE, links |-> {}]

VARIABLES
  cookie,       \* what the browser sends
  forms,        \* csrf_token and pow_challenge of the pages it shows
  busy,         \* the slots whose response is under way
  resp,         \* resp[r]: [set |-> a Set-Cookie, data, form]
  tokens, challenges, logins,   \* how many were made
  expired,      \* pending logins older than ten minutes
  early,        \* history: tokens made for a session without a user,
  knows,        \* users whose password was given,
  confirmed,    \* users whose second factor was given after it,
  unlocked      \* and links whose password was given

counters == <<tokens, challenges, logins>>
history == <<knows, confirmed, unlocked>>
vars == <<cookie, forms, busy, resp, tokens, challenges, logins, expired, early,
          knows, confirmed, unlocked>>

Forms == [csrf: Tokens, pow: Challenges \cup {None}]
NoForm == [csrf |-> None, pow |-> None]
NoResponse == [set |-> FALSE, data |-> NoData, form |-> NoForm]

Init ==
  /\ cookie = NoData /\ forms = {} /\ busy = {}
  /\ resp = [r \in Requests |-> NoResponse]
  /\ tokens = 0 /\ challenges = 0 /\ logins = 0 /\ expired = {}
  /\ early = {} /\ knows = {} /\ confirmed = {} /\ unlocked = {}

-----------------------------------------------------------------------------
(* Save and newPageData.                                                   *)

Size(d) == Cardinality(d.links) + IF d.flash THEN 1 ELSE 0

\* Mutant: only messages go.
ShrinkMessages(d) == IF Size(d) <= Room THEN {d} ELSE {[d EXCEPT !.flash = FALSE]}

\* The messages go first, then links in any order.
ShrinkToFit(d) ==
  IF Size(d) <= Room THEN {d}
  ELSE LET bare == [d EXCEPT !.flash = FALSE] IN
       IF Size(bare) <= Room THEN {bare}
       ELSE {[bare EXCEPT !.links = L] :
               L \in {K \in SUBSET d.links : Cardinality(K) = Room}}

\* A copy a handler has changed comes back, even if it changed it back.
Save(r, d, dirty, form) ==
  \E data \in IF dirty THEN ShrinkToFit(d) ELSE {d} :
    /\ resp' = [resp EXCEPT ![r] = [set |-> dirty, data |-> data, form |-> form]]
    /\ busy' = busy \cup {r}

Redirect(r, d) ==
  /\ Save(r, d, TRUE, NoForm)
  /\ UNCHANGED <<cookie, forms, tokens, challenges, expired, early>>

\* newPageData takes the messages, which may be this request's own, and mints a
\* token; a page anonymous visitors create links from also has a new challenge.
Page(r, d, dirty, withProof) ==
  LET token == IF d.csrf = None THEN tokens + 1 ELSE d.csrf
      challenge == IF withProof THEN challenges + 1 ELSE d.pow
  IN /\ token \in Tokens /\ (withProof => challenge \in Challenges)
     /\ tokens' = IF d.csrf = None THEN token ELSE tokens
     /\ challenges' = IF withProof THEN challenge ELSE challenges
     /\ early' = IF d.csrf = None /\ d.uid = Nobody THEN early \cup {token} ELSE early
     /\ Save(r, [d EXCEPT !.flash = FALSE, !.csrf = token, !.pow = challenge],
             dirty \/ d.flash \/ d.csrf = None \/ withProof,
             [csrf |-> token, pow |-> IF withProof THEN challenge ELSE None])
     /\ UNCHANGED <<cookie, forms, expired>>

\* wrap: a form is only looked at if its token is the session's.
Posts(r, form) ==
  /\ r \notin busy /\ form \in forms
  /\ form.csrf = cookie.csrf

\* A form that is refused, and a handler that leaves the session alone.
Idle(r) ==
  /\ r \notin busy
  /\ Save(r, cookie, FALSE, NoForm)
  /\ UNCHANGED <<cookie, forms, counters, expired, early, history>>

-----------------------------------------------------------------------------
(* The handlers.                                                           *)

Get(r) ==
  /\ r \notin busy
  /\ \E withProof \in BOOLEAN :
       /\ withProof => cookie.uid = Nobody
       /\ Page(r, cookie, FALSE, withProof)
  /\ UNCHANGED <<logins, history>>

\* requireLogin, and every handler that queues a message and redirects.
Announce(r) ==
  /\ r \notin busy
  /\ Redirect(r, [cookie EXCEPT !.flash = TRUE])
  /\ UNCHANGED <<logins, history>>

\* Mutant: the token survives the login.
LoginKeepsToken(d, u) ==
  [d EXCEPT !.uid = u, !.pending = Nobody, !.since = None]

Login(d, u) ==
  [d EXCEPT !.uid = u, !.pending = Nobody, !.since = None, !.csrf = None]

BeginTwoFactor(d, u) == [d EXCEPT !.pending = u, !.since = logins + 1]

\* Mutant: TOTPEnabled is not looked at.
PasswordIsEnough(u) == FALSE

NeedsSecondFactor(u) == u \in Totp

\* A wrong password: the message is taken by the page that shows it.
HandleLogin(r, u) ==
  /\ cookie.uid = Nobody /\ \E form \in forms : Posts(r, form)
  /\ \/ Page(r, cookie, TRUE, FALSE) /\ UNCHANGED <<logins, history>>
     \/ /\ knows' = knows \cup {u}
        /\ IF NeedsSecondFactor(u)
           THEN /\ logins + 1 \in Logins /\ logins' = logins + 1
                /\ Redirect(r, BeginTwoFactor(cookie, u))
           ELSE UNCHANGED logins /\ Redirect(r, Login(cookie, u))
        /\ UNCHANGED <<confirmed, unlocked>>

\* PendingTwoFactor drops a login that has waited for ten minutes.
HandleTOTPLogin(r) ==
  /\ cookie.pending # Nobody /\ \E form \in forms : Posts(r, form)
  /\ \/ /\ cookie.since \in expired
        /\ Redirect(r, [cookie EXCEPT !.pending = Nobody, !.since = None])
        /\ UNCHANGED <<logins, history>>
     \/ /\ cookie.since \notin expired
        /\ Page(r, cookie, FALSE, FALSE) /\ UNCHANGED <<logins, history>>
     \/ /\ cookie.since \notin expired
        /\ confirmed' = confirmed \cup {cookie.pending}
        /\ Redirect(r, Login(cookie, cookie.pending))
        /\ UNCHANGED <<logins, knows, unlocked>>

Logout(r) ==
  /\ \E form \in forms : Posts(r, form)
  /\ Redirect(r, NoData)
  /\ UNCHANGED <<logins, history>>

HandleLinkAuth(r, k) ==
  /\ \E form \in forms : Posts(r, form)
  /\ \/ Page(r, cookie, TRUE, FALSE) /\ UNCHANGED <<logins, history>>
     \/ /\ unlocked' = unlocked \cup {k}
        /\ Redirect(r, [cookie EXCEPT !.links = @ \cup {k}])
        /\ UNCHANGED <<logins, knows, confirmed>>

\* ConsumePoWChallenge.
Accepts(d, h) == h # None /\ h = d.pow

\* handleCreate for an anonymous visitor.  The page it ends with has a new
\* challenge, unless the insert failed.
HandleCreate(r) ==
  /\ cookie.uid = Nobody
  /\ \E form \in forms :
       /\ Posts(r, form)
       /\ \/ Page(r, cookie, TRUE, TRUE)
          \/ /\ Accepts(cookie, form.pow)
             /\ \E created \in BOOLEAN :
                  Page(r, [cookie EXCEPT !.pow = None], TRUE, created)
  /\ UNCHANGED <<logins, knows, confirmed, unlocked>>

-----------------------------------------------------------------------------
(* The browser and the clock.                                              *)

Answered(r) == busy' = busy \ {r} /\ resp' = [resp EXCEPT ![r] = NoResponse]

Deliver(r) ==
  /\ r \in busy /\ Answered(r)
  /\ cookie' = IF resp[r].set THEN resp[r].data ELSE cookie
  /\ forms' = forms \cup ({resp[r].form} \ {NoForm})
  /\ UNCHANGED <<counters, expired, early, history>>

\* The connection breaks before the response is there.
Lose(r) ==
  /\ r \in busy /\ Answered(r)
  /\ UNCHANGED <<cookie, forms, counters, expired, early, history>>

\* maxAge, or the visitor clears it.
Forget ==
  /\ cookie # NoData /\ cookie' = NoData
  /\ UNCHANGED <<forms, busy, resp, counters, expired, early, history>>

PendingExpires ==
  /\ logins # 0 /\ logins \notin expired
  /\ expired' = expired \cup {logins}
  /\ UNCHANGED <<cookie, forms, busy, resp, counters, early, history>>

Handle(r) ==
  \/ Get(r) \/ Announce(r) \/ Idle(r) \/ (\E u \in Users : HandleLogin(r, u))
  \/ HandleTOTPLogin(r) \/ Logout(r) \/ (\E k \in Codes : HandleLinkAuth(r, k))
  \/ HandleCreate(r)

Next ==
  \/ \E r \in Requests : Handle(r) \/ Deliver(r) \/ Lose(r)
  \/ Forget \/ PendingExpires

Spec == Init /\ [][Next]_vars

-----------------------------------------------------------------------------
(* What a cookie is worth, however many copies of it are under way.        *)

TypeOK ==
  /\ cookie \in Data /\ busy \subseteq Requests
  /\ forms \subseteq Forms
  /\ resp \in [Requests -> [set: BOOLEAN, data: Data, form: Forms \cup {NoForm}]]
  /\ tokens \in Tokens \cup {None} /\ challenges \in Challenges \cup {None}
  /\ logins \in Logins \cup {None} /\ expired \subseteq Logins
  /\ early \subseteq 1 .. tokens
  /\ knows \subseteq Users /\ confirmed \subseteq Users /\ unlocked \subseteq Codes

\* Every copy of the session: the browser's and those under way.
Copies == {cookie} \cup {resp[r].data : r \in Requests}

\* handleLogin, handleTOTPLogin, handleLinkAuth: no order of responses makes a
\* cookie that says more than was proved: a user who gave the password, and the
\* second factor if the account has one, and links whose password was given.
Proven(d) ==
  /\ d.uid # Nobody => d.uid \in knows /\ (d.uid \in Totp => d.uid \in confirmed)
  /\ d.pending # Nobody => d.pending \in knows
  /\ d.links \subseteq unlocked

IdentityProven == \A d \in Copies : Proven(d)

\* Login's comment: a token captured before login cannot be replayed afterwards,
\* whatever pages were loaded before and arrive after it.
Rotated(d) == d.uid # Nobody => d.csrf \notin early /\ d.pending = Nobody

TokenRotates == \A d \in Copies : Rotated(d)

\* shrinkToFit: a cookie that was set fits, whatever several requests put into it.
Fits(d) == Size(d) <= Room

CookiesFit == \A r \in busy : resp[r].set => Fits(resp[r].data)

SessionInv ==
  /\ TypeOK /\ IdentityProven /\ TokenRotates
  /\ \A d \in Copies : d.csrf <= tokens

=============================================================================

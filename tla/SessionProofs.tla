--------------------------- MODULE SessionProofs ---------------------------
(* Every copy of a session is typed, proven and rotated, whatever the order *)
(* the copies are made and delivered in.                                    *)
EXTENDS Session, Integers, TLAPS

Response == [set: BOOLEAN, data: Data, form: Forms \cup {NoForm}]

Fine(d) == Proven(d) /\ Rotated(d) /\ d.csrf <= tokens

\* What a step does to the counters and the history.
Grows ==
  /\ tokens' \in Tokens \cup {None} /\ tokens <= tokens'
  /\ challenges' \in Challenges \cup {None} /\ logins' \in Logins \cup {None}
  /\ knows \subseteq knows' /\ knows' \subseteq Users
  /\ confirmed \subseteq confirmed' /\ confirmed' \subseteq Users
  /\ unlocked \subseteq unlocked' /\ unlocked' \subseteq Codes
  /\ early' \subseteq 1 .. tokens' /\ \A t \in early' \ early : t > tokens

\* The counters as integers, none of which is None.
LEMMA Numbers ==
  /\ Tokens \subseteq Int /\ Challenges \subseteq Int /\ Logins \subseteq Int
  /\ None \in Int /\ None \notin Tokens /\ None \notin Challenges /\ None \notin Logins
  /\ \A t \in Tokens : t > 0
BY SessionAssumption DEF Tokens, Challenges, Logins, None

\* An empty session claims nothing.
LEMMA NoDataIsFine == TypeOK => NoData \in Data /\ Fine(NoData)
BY Numbers, SessionAssumption
   DEF NoData, Data, Fine, Proven, Rotated, TypeOK, None

\* shrinkToFit sheds messages and links and nothing else.
LEMMA Shrunk ==
  ASSUME NEW d \in Data, NEW e \in ShrinkToFit(d)
  PROVE  /\ e \in Data /\ e.uid = d.uid /\ e.pending = d.pending /\ e.csrf = d.csrf
         /\ e.links \subseteq d.links
<1>1. CASE e = d
  BY <1>1
<1>2. CASE e = [d EXCEPT !.flash = FALSE]
  BY <1>2 DEF Data
<1>3. ASSUME NEW L \in SUBSET d.links, e = [[d EXCEPT !.flash = FALSE] EXCEPT !.links = L]
      PROVE  /\ e \in Data /\ e.uid = d.uid /\ e.pending = d.pending /\ e.csrf = d.csrf
             /\ e.links \subseteq d.links
  BY <1>3 DEF Data
<1>. QED  BY <1>1, <1>2, <1>3 DEF ShrinkToFit

\* What was fine stays fine as more is proved and more tokens are made.
LEMMA FineStays ==
  ASSUME SessionInv, Grows, NEW d \in Data, Fine(d)
  PROVE  Fine(d)'
<1>1. Proven(d)'
  BY DEF Fine, Proven, Grows
<1>2. d.csrf \in Int /\ tokens \in Int /\ tokens' \in Int
  BY Numbers DEF Grows, SessionInv, TypeOK, Data
<1>3. d.csrf <= tokens' /\ (d.csrf \in early' => d.csrf \in early)
  BY <1>2 DEF Fine, Grows
<1>4. Rotated(d)'
  BY <1>3 DEF Fine, Rotated
<1>. QED  BY <1>1, <1>3, <1>4 DEF Fine

\* What the invariant says of every copy.
LEMMA CopiesFine == SessionInv => \A d \in Copies : d \in Data /\ Fine(d)
BY DEF SessionInv, TypeOK, Copies, Fine, IdentityProven, TokenRotates

\* A response with a fine copy.
LEMMA SaveKeeps ==
  ASSUME SessionInv, Grows, NEW r \in Requests, NEW d \in Data, Fine(d)',
         NEW dirty \in BOOLEAN,
         NEW form \in Forms \cup {NoForm},
         Save(r, d, dirty, form), UNCHANGED <<cookie, forms, expired>>
  PROVE  SessionInv'
<1>1. PICK e \in IF dirty THEN ShrinkToFit(d) ELSE {d} :
        /\ resp' = [resp EXCEPT ![r] = [set |-> dirty, data |-> e, form |-> form]]
        /\ busy' = busy \cup {r}
  BY DEF Save
<1>2. /\ e \in Data /\ e.uid = d.uid /\ e.pending = d.pending /\ e.csrf = d.csrf
      /\ e.links \subseteq d.links
  BY <1>1, Shrunk
<1>3. Fine(e)'
  BY <1>2 DEF Fine, Proven, Rotated
<1>4. resp' \in [Requests -> Response]
  BY <1>1, <1>2 DEF SessionInv, TypeOK, Response
<1>5. TypeOK'
  BY <1>1, <1>4 DEF Grows, SessionInv, TypeOK, Response
<1>6. \A c \in Copies' : c = e \/ c \in Copies
  BY <1>1 DEF Copies, SessionInv, TypeOK
<1>7. \A c \in Copies' : Fine(c)'
  BY <1>3, <1>6, CopiesFine, FineStays
<1>. QED
  BY <1>5, <1>7 DEF SessionInv, Fine, IdentityProven, TokenRotates

\* A redirect with a fine copy.
LEMMA RedirectKeeps ==
  ASSUME SessionInv, Grows, NEW r \in Requests, NEW d \in Data, Fine(d)', Redirect(r, d)
  PROVE  SessionInv'
BY SaveKeeps DEF Redirect

\* A page made from a fine copy.
LEMMA PageKeeps ==
  ASSUME SessionInv, NEW r \in Requests, NEW d \in Data, Fine(d), NEW dirty \in BOOLEAN,
         NEW withProof \in BOOLEAN, Page(r, d, dirty, withProof),
         logins' \in Logins \cup {None}, UNCHANGED <<knows, confirmed, unlocked>>
  PROVE  SessionInv'
<1>. DEFINE token == IF d.csrf = None THEN tokens + 1 ELSE d.csrf
            challenge == IF withProof THEN challenges + 1 ELSE d.pow
            e == [d EXCEPT !.flash = FALSE, !.csrf = token, !.pow = challenge]
            set == dirty \/ d.flash \/ d.csrf = None \/ withProof
            form == [csrf |-> token, pow |-> IF withProof THEN challenge ELSE None]
<1>1. /\ token \in Tokens /\ (withProof => challenge \in Challenges)
      /\ tokens' = IF d.csrf = None THEN token ELSE tokens
      /\ challenges' = IF withProof THEN challenge ELSE challenges
      /\ early' = IF d.csrf = None /\ d.uid = Nobody THEN early \cup {token} ELSE early
      /\ Save(r, e, set, form)
      /\ UNCHANGED <<cookie, forms, expired>>
  BY DEF Page
<1>2. tokens' \in Tokens \cup {None} /\ tokens <= tokens' /\ token <= tokens'
  BY <1>1, Numbers DEF SessionInv, TypeOK, Fine, Data
<1>3. early' \subseteq 1 .. tokens' /\ \A t \in early' \ early : t > tokens
  BY <1>1, <1>2, Numbers DEF SessionInv, TypeOK
<1>4. Grows
  BY <1>1, <1>2, <1>3 DEF Grows, SessionInv, TypeOK
<1>5. challenge \in Challenges \cup {None} /\ d.csrf \in Tokens \cup {None}
  BY <1>1 DEF Data
<1>6. /\ e \in Data /\ e.uid = d.uid /\ e.pending = d.pending /\ e.csrf = token
      /\ e.links = d.links
  <2>. HIDE DEF token, challenge
  <2>. QED  BY <1>1, <1>5 DEF Data
<1>7. form \in Forms \cup {NoForm}
  <2>. HIDE DEF token, challenge
  <2>. QED  BY <1>1, <1>5 DEF Forms
<1>8. set \in BOOLEAN
  BY DEF Data
<1>9. Fine(d)'
  BY <1>4, FineStays
<1>10. d.uid # Nobody => token \notin early'
  BY <1>1, Numbers DEF Fine, Rotated, SessionInv, TypeOK
<1>11. PICK x : x = e
  OBVIOUS
<1>12. Fine(x)'
  <2>. HIDE DEF e, token
  <2>. QED  BY <1>2, <1>6, <1>9, <1>10, <1>11 DEF Fine, Proven, Rotated
<1>13. PICK y \in BOOLEAN : y = set
  BY <1>8
<1>14. PICK z \in Forms \cup {NoForm} : z = form
  BY <1>7
<1>. HIDE DEF e, set, form
<1>15. x \in Data /\ Save(r, x, y, z)
  BY <1>1, <1>6, <1>11, <1>13, <1>14
<1>. QED  BY <1>1, <1>4, <1>12, <1>15, SaveKeeps

\* A handler that leaves the counters and the history alone.
LEMMA StillGrows ==
  SessionInv /\ UNCHANGED <<counters, early, history>> => Grows
BY Numbers DEF SessionInv, TypeOK, Grows, counters, history

\* Each handler.
LEMMA HandleKeeps ==
  ASSUME SessionInv, NEW r \in Requests, Handle(r)
  PROVE  SessionInv'
<1>0. TypeOK /\ cookie \in Data /\ Fine(cookie) /\ \A f \in forms : f.pow \in Challenges \cup {None}
  BY CopiesFine DEF SessionInv, TypeOK, Copies, Forms
<1>00. PICK d \in Data : d = cookie
  BY <1>0
<1>. USE DEF history, counters
<1>1. CASE Get(r)
  <2>1. PICK withProof \in BOOLEAN : Page(r, d, FALSE, withProof)
    BY <1>1, <1>00 DEF Get
  <2>2. /\ logins' \in Logins \cup {None} /\ UNCHANGED <<knows, confirmed, unlocked>>
    BY <1>0, <1>1 DEF Get, TypeOK
  <2>3. Fine(d)
    BY <1>0, <1>00
  <2>. QED  BY <2>1, <2>2, <2>3, PageKeeps
<1>2. CASE Announce(r)
  <2>1. PICK e \in Data : e = [d EXCEPT !.flash = TRUE]
    BY DEF Data
  <2>2. Grows
    BY <1>2, StillGrows DEF Announce, Redirect
  <2>3. Fine(d)'
    BY <1>0, <1>00, <2>2, FineStays
  <2>4. Fine(e)'
    BY <2>1, <2>3 DEF Fine, Proven, Rotated, Data
  <2>. QED  BY <1>00, <1>2, <2>1, <2>2, <2>4, RedirectKeeps DEF Announce
<1>3. CASE Idle(r)
  <2>1. Grows
    BY <1>3, StillGrows DEF Idle
  <2>2. Fine(d)'
    BY <1>0, <1>00, <2>1, FineStays
  <2>. QED  BY <1>00, <1>3, <2>1, <2>2, SaveKeeps DEF Idle
<1>4. ASSUME NEW u \in Users, HandleLogin(r, u) PROVE SessionInv'
  <2>1. CASE Page(r, cookie, TRUE, FALSE) /\ UNCHANGED <<logins, history>>
    BY <1>0, <1>00, <2>1, PageKeeps DEF TypeOK
  <2>2. CASE /\ knows' = knows \cup {u} /\ NeedsSecondFactor(u)
             /\ logins + 1 \in Logins /\ logins' = logins + 1
             /\ Redirect(r, BeginTwoFactor(cookie, u))
             /\ UNCHANGED <<confirmed, unlocked>>
    <3>1. PICK e \in Data : e = BeginTwoFactor(d, u)
      BY <2>2, <1>00 DEF BeginTwoFactor, Data
    <3>2. Grows
      BY <1>0, <2>2, Numbers DEF Grows, TypeOK, Redirect
    <3>3. Fine(d)' /\ d.uid = Nobody
      BY <1>0, <1>00, <1>4, <3>2, FineStays DEF HandleLogin
    <3>4. Fine(e)'
      BY <2>2, <3>1, <3>3 DEF Fine, Proven, Rotated, BeginTwoFactor, Data
    <3>. QED  BY <1>00, <2>2, <3>1, <3>2, <3>4, RedirectKeeps
  <2>3. CASE /\ knows' = knows \cup {u} /\ ~NeedsSecondFactor(u)
             /\ UNCHANGED logins /\ Redirect(r, Login(cookie, u))
             /\ UNCHANGED <<confirmed, unlocked>>
    <3>1. PICK e \in Data : e = Login(d, u)
      BY <2>3, <1>00 DEF Login, Data
    <3>2. Grows
      BY <1>0, <2>3, Numbers DEF Grows, TypeOK, Redirect
    <3>3. Fine(d)'
      BY <1>0, <1>00, <3>2, FineStays
    <3>4. Fine(e)'
      <4>1. /\ e.uid = u /\ e.pending = Nobody /\ e.csrf = None
            /\ e.links = d.links
        BY <3>1 DEF Login, Data
      <4>2. None \notin early' /\ None <= tokens' /\ u \notin Totp
        BY <2>3, <3>2, Numbers DEF Grows, NeedsSecondFactor, None
      <4>. QED  BY <2>3, <3>3, <4>1, <4>2 DEF Fine, Proven, Rotated
    <3>. QED  BY <1>00, <2>3, <3>1, <3>2, <3>4, RedirectKeeps
  <2>. QED  BY <1>4, <2>1, <2>2, <2>3 DEF HandleLogin
<1>5. CASE HandleTOTPLogin(r)
  <2>1. CASE Page(r, cookie, FALSE, FALSE) /\ UNCHANGED <<logins, history>>
    BY <1>0, <1>00, <2>1, PageKeeps DEF TypeOK
  <2>2. CASE /\ Redirect(r, [cookie EXCEPT !.pending = Nobody, !.since = None])
             /\ UNCHANGED <<logins, history>>
    <3>1. PICK e \in Data : e = [d EXCEPT !.pending = Nobody, !.since = None]
      BY DEF Data
    <3>2. Grows
      BY <2>2, StillGrows DEF Redirect
    <3>3. Fine(d)'
      BY <1>0, <1>00, <3>2, FineStays
    <3>4. Fine(e)'
      BY <3>1, <3>3 DEF Fine, Proven, Rotated, Data
    <3>. QED  BY <1>00, <2>2, <3>1, <3>2, <3>4, RedirectKeeps
  <2>3. CASE /\ confirmed' = confirmed \cup {cookie.pending}
             /\ Redirect(r, Login(cookie, cookie.pending))
             /\ UNCHANGED <<logins, knows, unlocked>>
    <3>1. PICK e \in Data : e = Login(d, d.pending)
      BY DEF Login, Data
    <3>0. d.pending \in Users
      BY <1>00, <1>5 DEF HandleTOTPLogin, Data
    <3>2. Grows
      BY <1>0, <1>00, <2>3, <3>0, Numbers DEF Grows, TypeOK, Redirect
    <3>3. Fine(d)'
      BY <1>0, <1>00, <3>2, FineStays
    <3>4. Fine(e)'
      <4>1. /\ e.uid = d.pending /\ e.pending = Nobody /\ e.csrf = None
            /\ e.links = d.links
        BY <3>1 DEF Login, Data
      <4>2. None \notin early' /\ None <= tokens' /\ d.pending # Nobody
        BY <3>0, <3>2, Numbers, SessionAssumption DEF Grows, None
      <4>. QED  BY <1>00, <2>3, <3>3, <4>1, <4>2 DEF Fine, Proven, Rotated
    <3>. QED  BY <1>00, <2>3, <3>1, <3>2, <3>4, RedirectKeeps
  <2>. QED  BY <1>5, <2>1, <2>2, <2>3 DEF HandleTOTPLogin
<1>6. CASE Logout(r)
  <2>1. Grows
    BY <1>6, StillGrows DEF Logout, Redirect
  <2>2. PICK e \in Data : e = NoData /\ Fine(e)
    BY <1>0, NoDataIsFine
  <2>3. Fine(e)'
    BY <2>1, <2>2, FineStays
  <2>. QED  BY <1>6, <2>1, <2>2, <2>3, RedirectKeeps DEF Logout
<1>7. ASSUME NEW k \in Codes, HandleLinkAuth(r, k) PROVE SessionInv'
  <2>1. CASE Page(r, cookie, TRUE, FALSE) /\ UNCHANGED <<logins, history>>
    BY <1>0, <1>00, <2>1, PageKeeps DEF TypeOK
  <2>2. CASE /\ unlocked' = unlocked \cup {k}
             /\ Redirect(r, [cookie EXCEPT !.links = @ \cup {k}])
             /\ UNCHANGED <<logins, knows, confirmed>>
    <3>1. PICK e \in Data : e = [d EXCEPT !.links = @ \cup {k}]
      BY DEF Data
    <3>2. Grows
      BY <1>0, <2>2, Numbers DEF Grows, TypeOK, Redirect
    <3>3. Fine(d)'
      BY <1>0, <1>00, <3>2, FineStays
    <3>4. Fine(e)'
      BY <2>2, <3>1, <3>3 DEF Fine, Proven, Rotated, Data
    <3>. QED  BY <1>00, <2>2, <3>1, <3>2, <3>4, RedirectKeeps
  <2>. QED  BY <1>7, <2>1, <2>2 DEF HandleLinkAuth
<1>8. CASE HandleCreate(r)
  <2>1. CASE Page(r, cookie, TRUE, TRUE)
    BY <1>0, <1>00, <1>8, <2>1, PageKeeps DEF HandleCreate, TypeOK
  <2>2. ASSUME NEW form \in forms, NEW created \in BOOLEAN, Accepts(cookie, form.pow),
               Page(r, [cookie EXCEPT !.pow = None], TRUE, created)
        PROVE  SessionInv'
    <3>1. PICK e \in Data : e = [d EXCEPT !.pow = None]
      BY DEF Data
    <3>2. Fine(e)
      BY <1>0, <1>00, <3>1 DEF Fine, Proven, Rotated, Data
    <3>3. logins' \in Logins \cup {None} /\ UNCHANGED <<knows, confirmed, unlocked>>
      BY <1>0, <1>8 DEF HandleCreate, TypeOK
    <3>4. Page(r, e, TRUE, created)
      BY <1>00, <2>2, <3>1
    <3>. QED  BY <3>2, <3>3, <3>4, PageKeeps
  <2>. QED  BY <1>8, <2>1, <2>2 DEF HandleCreate
<1>. QED  BY <1>1, <1>2, <1>3, <1>4, <1>5, <1>6, <1>7, <1>8 DEF Handle

\* The browser, and a pending login that grows old.
LEMMA BrowserKeeps ==
  ASSUME SessionInv,
         (\E r \in Requests : Deliver(r) \/ Lose(r)) \/ Forget \/ PendingExpires
  PROVE  SessionInv'
<1>. USE DEF history, counters
<1>1. ASSUME Grows, \A c \in Copies' : c = NoData \/ c \in Copies, TypeOK'
      PROVE  SessionInv'
  <2>1. \A c \in Copies' : c \in Data /\ Fine(c)
    BY <1>1, CopiesFine, NoDataIsFine DEF SessionInv
  <2>2. \A c \in Copies' : Fine(c)'
    BY <1>1, <2>1, FineStays
  <2>. QED  BY <1>1, <2>2 DEF SessionInv, Fine, IdentityProven, TokenRotates
<1>2. NoResponse \in Response /\ NoResponse.data = NoData
  BY NoDataIsFine DEF SessionInv, NoResponse, Response
<1>3. ASSUME NEW r \in Requests, Deliver(r) \/ Lose(r) PROVE SessionInv'
  <2>1. Grows
    BY <1>3, StillGrows DEF Deliver, Lose
  <2>2. resp \in [Requests -> Response] /\ resp' = [resp EXCEPT ![r] = NoResponse]
    BY <1>3 DEF Deliver, Lose, Answered, SessionInv, TypeOK, Response
  <2>3. \A q \in Requests : resp'[q] \in {resp[q], NoResponse}
    BY <2>2
  <2>4. resp' \in [Requests -> Response]
    BY <1>2, <2>2, <2>3
  <2>5. cookie' \in {cookie, resp[r].data} /\ cookie' \in Data
    BY <1>3, <2>2 DEF Deliver, Lose, SessionInv, TypeOK, Response
  <2>6. \A c \in Copies' : c = NoData \/ c \in Copies
    BY <1>2, <2>3, <2>5 DEF Copies
  <2>7. forms' \subseteq Forms
    <3>1. CASE Lose(r)
      BY <3>1 DEF Lose, SessionInv, TypeOK
    <3>2. CASE Deliver(r)
      <4>1. resp[r].form \in Forms \cup {NoForm}
        BY <2>2 DEF Response
      <4>. QED  BY <3>2, <4>1 DEF Deliver, SessionInv, TypeOK
    <3>. QED  BY <1>3, <3>1, <3>2
  <2>8. busy' \subseteq Requests /\ expired' = expired
    BY <1>3 DEF Deliver, Lose, Answered, SessionInv, TypeOK
  <2>9. TypeOK'
    BY <2>1, <2>4, <2>5, <2>7, <2>8 DEF Grows, SessionInv, TypeOK, Response
  <2>. QED  BY <1>1, <2>1, <2>6, <2>9
<1>4. CASE Forget
  <2>1. Grows
    BY <1>4, StillGrows DEF Forget
  <2>2. TypeOK' /\ \A c \in Copies' : c = NoData \/ c \in Copies
    BY <1>4, NoDataIsFine DEF Forget, SessionInv, TypeOK, Copies
  <2>. QED  BY <1>1, <2>1, <2>2
<1>5. CASE PendingExpires
  <2>1. Grows
    BY <1>5, StillGrows DEF PendingExpires
  <2>2. logins \in Logins
    BY <1>5 DEF PendingExpires, SessionInv, TypeOK, None
  <2>3. TypeOK' /\ \A c \in Copies' : c \in Copies
    BY <1>5, <2>2 DEF PendingExpires, SessionInv, TypeOK, Copies
  <2>. QED  BY <1>1, <2>1, <2>3
<1>. QED  BY <1>3, <1>4, <1>5

\* The invariant holds at the start,
LEMMA InitSession == Init => SessionInv
<1>. SUFFICES ASSUME Init PROVE SessionInv
  OBVIOUS
<1>1. NoData \in Data
  BY DEF NoData, Data
<1>2. TypeOK
  BY <1>1, Numbers DEF Init, TypeOK, NoResponse, Tokens, None
<1>3. \A c \in Copies : c = NoData
  BY DEF Init, Copies, NoResponse
<1>. QED
  BY <1>2, <1>3, NoDataIsFine DEF SessionInv, Fine, IdentityProven, TokenRotates

\* and every step keeps it.
LEMMA SessionInductive == SessionInv /\ [Next]_vars => SessionInv'
<1>. SUFFICES ASSUME SessionInv, [Next]_vars PROVE SessionInv'
  OBVIOUS
<1>1. CASE UNCHANGED vars
  BY <1>1 DEF vars, SessionInv, TypeOK, IdentityProven, TokenRotates, Proven, Rotated, Copies
<1>. QED  BY <1>1, HandleKeeps, BrowserKeeps DEF Next

\* Types, and every copy of a session proven and rotated, for any accounts and any
\* number of requests under way.
THEOREM SessionInvariant == Spec => []SessionInv
BY InitSession, SessionInductive, PTL DEF Spec

\* handleLogin, handleTOTPLogin, handleLinkAuth: no order of responses makes a
\* cookie say more than its visitor has proved.
THEOREM CookiesSayWhatWasProved == Spec => []IdentityProven
<1>1. SessionInv => IdentityProven
  BY DEF SessionInv
<1>. QED  BY SessionInvariant, <1>1, PTL

\* Session.Login: the token of a logged-in session was made after the login.
THEOREM LoginRotatesToken == Spec => []TokenRotates
<1>1. SessionInv => TokenRotates
  BY DEF SessionInv
<1>. QED  BY SessionInvariant, <1>1, PTL

-----------------------------------------------------------------------------
(* What a cookie has room for.                                             *)

\* shrinkToFit: what is left when the messages and links are gone fits, or is cut to
\* the links there is room for.
LEMMA ShrunkFits ==
  ASSUME NEW d \in Data, NEW e \in ShrinkToFit(d)
  PROVE  Fits(e)
<1>1. CASE Size(d) <= Room
  BY <1>1 DEF ShrinkToFit, Fits
<1>. DEFINE bare == [d EXCEPT !.flash = FALSE]
<1>2. CASE ~(Size(d) <= Room) /\ Size(bare) <= Room
  BY <1>2 DEF ShrinkToFit, Fits
<1>3. CASE ~(Size(d) <= Room) /\ ~(Size(bare) <= Room)
  <2>1. PICK L \in SUBSET d.links : e = [bare EXCEPT !.links = L] /\ Cardinality(L) = Room
    BY <1>3 DEF ShrinkToFit
  <2>2. e.links = L /\ e.flash = FALSE
    BY <2>1 DEF Data
  <2>. QED  BY <2>1, <2>2, SessionAssumption DEF Fits, Size
<1>. QED  BY <1>1, <1>2, <1>3

\* Save: a response that sets a cookie sets one that fits.
LEMMA SaveFits ==
  ASSUME TypeOK, CookiesFit, NEW r \in Requests, NEW d \in Data, NEW dirty \in BOOLEAN,
         NEW form, Save(r, d, dirty, form)
  PROVE  CookiesFit'
<1>1. PICK e \in IF dirty THEN ShrinkToFit(d) ELSE {d} :
        /\ resp' = [resp EXCEPT ![r] = [set |-> dirty, data |-> e, form |-> form]]
        /\ busy' = busy \cup {r}
  BY DEF Save
<1>2. dirty => Fits(e)
  BY <1>1, ShrunkFits
<1>3. ASSUME NEW q \in busy', resp'[q].set PROVE Fits(resp'[q].data)
  <2>1. q \in Requests
    BY <1>1 DEF TypeOK
  <2>2. CASE q = r
    BY <1>1, <1>2, <1>3, <2>2 DEF TypeOK
  <2>3. CASE q # r
    BY <1>1, <1>3, <2>1, <2>3 DEF TypeOK, CookiesFit
  <2>. QED  BY <2>2, <2>3
<1>. QED  BY <1>3 DEF CookiesFit, Fits, Size

\* newPageData and a redirect save a typed copy.
LEMMA PageFits ==
  ASSUME TypeOK, CookiesFit, NEW r \in Requests, NEW d \in Data, NEW dirty \in BOOLEAN,
         NEW withProof \in BOOLEAN, Page(r, d, dirty, withProof)
  PROVE  CookiesFit'
<1>. DEFINE token == IF d.csrf = None THEN tokens + 1 ELSE d.csrf
            challenge == IF withProof THEN challenges + 1 ELSE d.pow
            e == [d EXCEPT !.flash = FALSE, !.csrf = token, !.pow = challenge]
            set == dirty \/ d.flash \/ d.csrf = None \/ withProof
            form == [csrf |-> token, pow |-> IF withProof THEN challenge ELSE None]
<1>1. /\ token \in Tokens /\ (withProof => challenge \in Challenges)
      /\ Save(r, e, set, form)
  BY DEF Page
<1>2. challenge \in Challenges \cup {None}
  BY <1>1 DEF Data
<1>3. e \in Data
  <2>. HIDE DEF token, challenge
  <2>. QED  BY <1>1, <1>2 DEF Data
<1>4. set \in BOOLEAN
  OBVIOUS
<1>5. PICK x \in Data : x = e
  BY <1>3
<1>6. PICK y \in BOOLEAN : y = set
  BY <1>4
<1>. HIDE DEF e, set, form
<1>. QED  BY <1>1, <1>5, <1>6, SaveFits

\* Every handler saves one copy at most, and a typed one.
LEMMA HandleFits ==
  ASSUME TypeOK, CookiesFit, NEW r \in Requests, Handle(r)
  PROVE  CookiesFit'
<1>1. PICK d \in Data : d = cookie
  BY DEF TypeOK
<1>2. ASSUME NEW dirty \in BOOLEAN, NEW withProof \in BOOLEAN, Page(r, cookie, dirty, withProof)
      PROVE  CookiesFit'
  BY <1>1, <1>2, PageFits
<1>3. ASSUME NEW e \in Data, Redirect(r, e) PROVE CookiesFit'
  BY <1>3, SaveFits DEF Redirect
<1>4. CASE Get(r) \/ Idle(r)
  BY <1>1, <1>2, <1>4, SaveFits DEF Get, Idle
<1>5. CASE Announce(r)
  <2>1. [d EXCEPT !.flash = TRUE] \in Data
    BY DEF Data
  <2>. QED  BY <1>1, <1>3, <1>5, <2>1 DEF Announce
<1>6. ASSUME NEW u \in Users, HandleLogin(r, u) PROVE CookiesFit'
  <2>1. logins + 1 \in Logins => BeginTwoFactor(d, u) \in Data
    BY DEF BeginTwoFactor, Data
  <2>2. Login(d, u) \in Data
    BY DEF Login, Data
  <2>. QED  BY <1>1, <1>2, <1>3, <1>6, <2>1, <2>2 DEF HandleLogin
<1>7. CASE HandleTOTPLogin(r)
  <2>1. [d EXCEPT !.pending = Nobody, !.since = None] \in Data
    BY DEF Data
  <2>2. Login(d, d.pending) \in Data
    BY DEF Login, Data
  <2>. QED  BY <1>1, <1>2, <1>3, <1>7, <2>1, <2>2 DEF HandleTOTPLogin
<1>8. CASE Logout(r)
  <2>1. NoData \in Data
    BY DEF NoData, Data
  <2>. QED  BY <1>3, <1>8, <2>1 DEF Logout
<1>9. ASSUME NEW k \in Codes, HandleLinkAuth(r, k) PROVE CookiesFit'
  <2>1. [d EXCEPT !.links = @ \cup {k}] \in Data
    BY DEF Data
  <2>. QED  BY <1>1, <1>2, <1>3, <1>9, <2>1 DEF HandleLinkAuth
<1>10. CASE HandleCreate(r)
  <2>1. PICK e \in Data : e = [d EXCEPT !.pow = None]
    BY DEF Data
  <2>2. ASSUME NEW created \in BOOLEAN, Page(r, e, TRUE, created) PROVE CookiesFit'
    BY <2>2, PageFits
  <2>. QED  BY <1>1, <1>2, <1>10, <2>1, <2>2 DEF HandleCreate
<1>. QED  BY <1>4, <1>5, <1>6, <1>7, <1>8, <1>9, <1>10 DEF Handle

\* shrinkToFit: no order of requests, each of which may queue a message or unlock a
\* link, makes a cookie larger than browsers accept.
THEOREM CookiesAlwaysFit == Spec => []CookiesFit
<1>1. Init => CookiesFit
  BY DEF Init, CookiesFit
<1>2. SessionInv /\ CookiesFit /\ [Next]_vars => CookiesFit'
  <2>. SUFFICES ASSUME TypeOK, CookiesFit, [Next]_vars PROVE CookiesFit'
    BY DEF SessionInv
  <2>1. ASSUME NEW r \in Requests, Deliver(r) \/ Lose(r) PROVE CookiesFit'
    BY <2>1 DEF Deliver, Lose, Answered, CookiesFit, TypeOK, Fits, Size
  <2>2. CASE Forget \/ PendingExpires \/ UNCHANGED vars
    BY <2>2 DEF Forget, PendingExpires, vars, CookiesFit, Fits, Size
  <2>. QED  BY <2>1, <2>2, HandleFits DEF Next
<1>. QED  BY <1>1, <1>2, SessionInvariant, PTL DEF Spec
=============================================================================

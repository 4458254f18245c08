----------------------------- MODULE Schedule -----------------------------
(***************************************************************************)
(* When a link opens and closes: the dates of internal/web/forms.go, of    *)
(* handleCreate, handleEditForm and handleEdit, and of handleAPIShorten,   *)
(* for one link and the clock.  An edit page keeps what was filled in when *)
(* it was opened until somebody saves it, and other tabs save meanwhile.   *)
(* What else a form holds is a matter of Links and Sweep.                  *)
(***************************************************************************)
EXTENDS Integers

CONSTANTS
  Minute, Hour,         \* in units of the clock; forms show minutes, expiries are hours
  Year,                 \* 8760 hours: what a visitor without an account may ask for
  MaxHours,             \* maxExpiryHours
  DefaultHours,         \* EXPIRY_HOURS
  Dates,                \* bound: the dates that are entered
  LastTime,             \* bound: of the clock
  None,                 \* a date that is not set
  Blank,                \* an empty field, or one the request does not have
  NoLink, NoTab

ASSUME ScheduleAssumption ==
  /\ Minute \in Nat \ {0} /\ Hour \in Nat \ {0} /\ Year \in Nat \ {0} /\ MaxHours \in Nat
  /\ DefaultHours \in 1 .. Year /\ Year <= MaxHours
  /\ Dates \subseteq Nat /\ LastTime \in Nat
  /\ None \notin Int /\ Blank \notin Int

VARIABLES
  now,
  link,         \* the row, or NoLink
  tab           \* an edit page that is open, or NoTab

scheduleVars == <<now, link, tab>>

\* As far as the dates go; a disabled link or a draft never is.
IsActive(row, t) ==
  /\ row.start # None => row.start <= t
  /\ row.end # None => t <= row.end
  /\ row.expires # None => t <= row.expires

Optional(times) == times \cup {None}
OnTheMinute(t) == t % Minute = 0

ScheduleInit == now = 0 /\ link = NoLink /\ tab = NoTab

-----------------------------------------------------------------------------
(* Validation.                                                             *)

\* Mutant: the hours count from now.
FromNow(start, t) == t

\* The expiry counts from a future start.
Base(start, t) == IF start # None /\ start > t THEN start ELSE t

Expiry(hours, start, t) == Base(start, t) + hours * Hour

WindowOK(start, end) == start # None /\ end # None => end > start
ExpiresAfterStart(expires, start) == expires # None /\ start # None => expires > start

\* Mutant: only a lifetime that is given is looked at.
HoursWithinLimit(user, hours) == hours # Blank => hours <= MaxHours

\* ShortenForm.Validate: permanent and long lifetimes are for accounts.
HoursAllowed(user, hours) ==
  hours # Blank => IF user THEN hours <= MaxHours ELSE hours \in 1 .. Year

GivenExpiry(hours, start) == IF hours \in {0, Blank} THEN None ELSE Expiry(hours, start, now)

\* An empty field means the default, which is not the same as never.
NewExpiry(hours, start) ==
  IF hours = Blank THEN Expiry(DefaultHours, start, now) ELSE GivenExpiry(hours, start)

Accept(user, start, end, expires) ==
  /\ WindowOK(start, end)
  /\ link' = [owned |-> user, start |-> start, end |-> end, expires |-> expires]

\* What is entered: one hour too many is refused, like everything above.
HoursEntered == {Blank} \cup 0 .. MaxHours + 1
FormDates == Optional({t \in Dates : OnTheMinute(t)})

\* handleCreate, which turns to the default when Validate is satisfied.
CreateByForm ==
  \E user \in BOOLEAN, start, end \in FormDates, hours \in HoursEntered :
    /\ HoursAllowed(user, hours) /\ ExpiresAfterStart(GivenExpiry(hours, start), start)
    /\ Accept(user, start, end, NewExpiry(hours, start))

\* handleAPIShorten, whose dates have seconds.
CreateByAPI ==
  \E start, end \in Optional(Dates), hours \in HoursEntered :
    /\ hours # Blank => hours <= MaxHours
    /\ ExpiresAfterStart(NewExpiry(hours, start), start)
    /\ Accept(TRUE, start, end, NewExpiry(hours, start))

Create ==
  /\ link = NoLink
  /\ CreateByForm \/ CreateByAPI
  /\ UNCHANGED <<now, tab>>

-----------------------------------------------------------------------------
(* The edit page.                                                          *)

\* A date as the page shows it.
Shown(t) == IF t = None THEN None ELSE t - (t % Minute)

\* Mutant: rounded down, and zero is filled in like any other number.
FlooredHours(expires) == IF expires = None \/ expires < now THEN Blank ELSE (expires - now) \div Hour

\* Rounded up, and blank when nothing is left.
HoursLeft(expires) ==
  LET hours == (expires - now + Hour - 1) \div Hour
  IN  IF expires = None THEN Blank ELSE IF hours >= 1 THEN hours ELSE Blank

\* handleEditForm.
OpenEdit ==
  /\ link # NoLink /\ link.owned
  /\ tab' = [form |-> [start |-> Shown(link.start), end |-> Shown(link.end),
                       hours |-> HoursLeft(link.expires)],
             row |-> link, opened |-> now]
  /\ UNCHANGED <<now, link>>

\* EditForm.Validate and handleEdit: an empty field keeps the expiry of the row.
Save(form) ==
  LET expires == GivenExpiry(form.hours, form.start)
  IN  /\ link # NoLink /\ link.owned
      /\ WindowOK(form.start, form.end) /\ ExpiresAfterStart(expires, form.start)
      /\ form.hours # Blank => form.hours <= MaxHours
      /\ link' = [link EXCEPT !.start = form.start, !.end = form.end,
                              !.expires = IF form.hours = Blank THEN @ ELSE expires]
      /\ UNCHANGED now

\* The page that is open is sent as it is.
SaveUntouched == tab # NoTab /\ Save(tab.form) /\ tab' = NoTab

Forms == [start : FormDates, end : FormDates, hours : HoursEntered]

\* Another page, with other dates in it.
SaveChanged == \E form \in Forms : Save(form) /\ UNCHANGED tab

Tick == now < LastTime /\ now' = now + 1 /\ UNCHANGED <<link, tab>>

ScheduleNext == Create \/ OpenEdit \/ SaveUntouched \/ SaveChanged \/ Tick

ScheduleSpec == ScheduleInit /\ [][ScheduleNext]_scheduleVars

-----------------------------------------------------------------------------
(* What the owner of a link may rely on.                                   *)

\* There is an instant from t on at which the link is active, unless its end is past.
CanOpen(row, t) ==
  \/ row.end # None /\ row.end < t
  \/ \E u \in {t, row.start} \ {None} : u >= t /\ IsActive(row, u)

\* ShortenForm.Validate, apiExpiry, EditForm.Validate ("born already expired"): a
\* schedule that is accepted together with a lifetime has an instant at which the link
\* works, whatever start was chosen and however long ago the form was filled in.
AcceptedLinksCanOpen ==
  [][link' # NoLink /\ (link = NoLink \/ link'.expires # link.expires)
       => CanOpen(link', now)]_scheduleVars

\* handleEditForm and handleEdit together: saving an edit page nobody changed never
\* makes a link permanent and never shortens its life, however long the page was open;
\* it prolongs it by less than an hour and the time from the opening of the page to the
\* save or the start; the dates lose less than a minute.
UntouchedSaveKeepsExpiry ==
  [][SaveUntouched =>
       LET old == tab.row
           prolonged == Hour + Base(link'.start, now) - tab.opened
           Kept(new, date) == IF date = None THEN new = None
                              ELSE new # None /\ new <= date /\ date - new < Minute
       IN  /\ IF tab.form.hours = Blank THEN link'.expires = link.expires
              ELSE /\ old.expires # None /\ link'.expires # None
                   /\ old.expires <= link'.expires
                   /\ link'.expires < old.expires + prolonged
           /\ Kept(link'.start, old.start) /\ Kept(link'.end, old.end)]_scheduleVars

\* "Please log in to create permanent links": a link without an owner expires, at most
\* a year after now or its start, by every way it can be created or edited.
AnonymousLinksExpire ==
  link # NoLink /\ ~link.owned =>
    link.expires # None /\ link.expires <= Base(link.start, now) + Year * Hour

Rows == [owned : BOOLEAN, start : Optional(Nat), end : Optional(Nat), expires : Optional(Nat)]
Shows == [start : Optional(Nat), end : Optional(Nat), hours : Nat \cup {Blank}]

ScheduleTypeOK ==
  /\ now \in 0 .. LastTime
  /\ link # NoLink => link \in Rows
  /\ tab # NoTab => tab \in [form : Shows, row : Rows, opened : 0 .. now]

\* Why they hold: a page still shows the dates and the lifetime of the row it was opened
\* for, and the lifetime, counted from then, ends less than an hour after the row's.
TabInv ==
  tab # NoTab =>
    LET ends == tab.opened + tab.form.hours * Hour
    IN  /\ tab.form.start = Shown(tab.row.start) /\ tab.form.end = Shown(tab.row.end)
        /\ tab.form.hours # Blank =>
             /\ tab.form.hours > 0 /\ tab.row.expires # None
             /\ tab.row.expires <= ends /\ ends < tab.row.expires + Hour

ScheduleInv == ScheduleTypeOK /\ TabInv /\ AnonymousLinksExpire

=============================================================================

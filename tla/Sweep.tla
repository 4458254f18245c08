------------------------------- MODULE Sweep -------------------------------
(***************************************************************************)
(* sweepBlockedLinks of cmd/redrx: the maintenance worker reads every link *)
(* at once, holds each against the blocklist and then deletes the ones it  *)
(* condemned, while the owners go on creating, editing and deleting links. *)
(* A statement of the database is one step here, which LinkDirectory       *)
(* allows.                                                                 *)
(***************************************************************************)
CONSTANTS
  Ids,          \* ids of links; none is used twice
  Domains,      \* destinations that parse
  Junk,         \* a destination that is no absolute http(s) URL
  Manual,       \* BLOCKED_DOMAINS: known without any list
  Failures      \* TRUE: a statement may fail and the process may restart

ASSUME SweepAssumption ==
  /\ Junk \notin Domains /\ Manual \subseteq Domains /\ Failures \in BOOLEAN

Targets == Domains \cup {Junk}
\* One rotation target stands for the list of up to fifty.  The iOS and Android
\* targets are left out: a sweep does not look at them.
Link == [long: Targets, rotate: {{}} \cup {{t} : t \in Targets}]
NoLink == [long |-> Junk, rotate |-> {}]

VARIABLES
  fresh,        \* ids no link has had yet
  live,         \* ids in the urls table
  link,         \* link[i]: the destinations of link i
  known,        \* the checker has a parsed list
  blocked,      \* what that list, or the file it will be read from, blocks
  phase,        \* where the worker is
  rows,         \* what EachURL returned
  left,         \* ids of the rows not looked at yet
  doomed,       \* ids to delete
  removed       \* history: ids this sweep has deleted

table == <<fresh, live, link>>
list == <<known, blocked>>
sweep == <<phase, rows, left, doomed, removed>>
sweepVars == <<fresh, live, link, known, blocked, phase, rows, left, doomed, removed>>

\* The table may come from an earlier release, so a destination may be junk.
SweepInit ==
  /\ live \in SUBSET Ids /\ fresh = Ids \ live
  /\ link \in {f \in [Ids -> Link] : \A i \in fresh : f[i] = NoLink}
  /\ known = FALSE /\ blocked = {}
  /\ phase = "idle" /\ left = {} /\ doomed = {} /\ removed = {}
  /\ rows = [i \in Ids |-> NoLink]

-----------------------------------------------------------------------------
(* CheckURL.                                                               *)

Unavailable(t) == t \in Domains \ Manual /\ ~known
Matches(t) == t \in Manual \/ (known /\ t \in blocked)
IsSafeURL(t) == t \in Domains /\ ~Unavailable(t) /\ ~Matches(t)

\* Somebody's check reads the list for the first time.
FirstRead ==
  /\ ~known /\ known' = TRUE
  /\ UNCHANGED <<blocked, table, sweep>>

\* Refresh runs in the goroutine of the sweep, so never in the middle of one.
NewList ==
  /\ phase = "idle"
  /\ blocked' \in SUBSET (Domains \ Manual)
  /\ UNCHANGED <<known, table, sweep>>

-----------------------------------------------------------------------------
(* The owners.                                                             *)

\* handleCreate and handleAPIShorten refuse a link with an unsafe destination.
MustBeSafe(l) ==
  IsSafeURL(l.long) /\ \A t \in l.rotate : IsSafeURL(t)

Create(i) ==
  /\ i \in fresh
  /\ \E l \in Link : MustBeSafe(l) /\ link' = [link EXCEPT ![i] = l]
  /\ fresh' = fresh \ {i} /\ live' = live \cup {i}
  /\ UNCHANGED <<list, sweep>>

\* handleEdit leaves the rotation alone.
Edit(i) ==
  /\ i \in live
  /\ \E t \in Targets : IsSafeURL(t) /\ link' = [link EXCEPT ![i].long = t]
  /\ UNCHANGED <<fresh, live, list, sweep>>

Delete(i) ==
  /\ i \in live
  /\ live' = live \ {i} /\ link' = [link EXCEPT ![i] = NoLink]
  /\ UNCHANGED <<fresh, list, sweep>>

-----------------------------------------------------------------------------
(* sweepBlockedLinks.                                                      *)

EndSweep ==
  /\ phase' = "idle" /\ left' = {} /\ doomed' = {} /\ removed' = {}
  /\ rows' = [i \in Ids |-> NoLink]

BeginSweep ==
  /\ phase = "idle"
  /\ phase' = "checking" /\ left' = live /\ rows' = link
  /\ UNCHANGED <<table, list, doomed, removed>>

\* Mutant: IsSafeURL decides, which is false for want of a list too.
NotSafe(t) == t \in Domains /\ ~IsSafeURL(t)

\* Mutant: the rotation is left out.
LongOnly(r) == {r.long}

\* The destinations a sweep looks at.
Swept(r) == {r.long} \cup r.rotate

\* A destination that does not parse is skipped, not condemned.
Condemns(t) == t \in Domains /\ Matches(t)

\* Mutant: a condemned link is deleted on the spot.
CheckAndDelete(i) ==
  /\ phase = "checking" /\ i \in left
  /\ \/ /\ \E t \in Swept(rows[i]) : Condemns(t)
        /\ left' = left \ {i} /\ live' = live \ {i} /\ removed' = removed \cup {i}
        /\ UNCHANGED <<fresh, link, list, phase, rows, doomed>>
     \/ /\ \E t \in Swept(rows[i]) : Unavailable(t)
        /\ EndSweep /\ UNCHANGED <<table, list>>
     \/ /\ \A t \in Swept(rows[i]) : ~Condemns(t) /\ ~Unavailable(t)
        /\ left' = left \ {i}
        /\ UNCHANGED <<table, list, phase, rows, doomed, removed>>

\* The first destination that matches or cannot be checked decides; the long
\* URL comes first.
CheckRow(i) ==
  /\ phase = "checking" /\ i \in left
  /\ \/ /\ \E t \in Swept(rows[i]) : Condemns(t)
        /\ ~Unavailable(rows[i].long)
        /\ left' = left \ {i} /\ doomed' = doomed \cup {i}
        /\ UNCHANGED <<phase, rows, removed>>
     \/ /\ \E t \in Swept(rows[i]) : Unavailable(t)
        /\ ~Condemns(rows[i].long)
        /\ EndSweep
     \/ /\ \A t \in Swept(rows[i]) : ~Condemns(t) /\ ~Unavailable(t)
        /\ left' = left \ {i}
        /\ UNCHANGED <<phase, rows, doomed, removed>>
  /\ UNCHANGED <<table, list>>

BeginDeleting ==
  /\ phase = "checking" /\ left = {}
  /\ phase' = "deleting"
  /\ UNCHANGED <<table, list, rows, left, doomed, removed>>

\* DeleteURL by id; a link that is gone already is fine.
Remove(i) ==
  /\ phase = "deleting" /\ i \in doomed
  /\ live' = live \ {i} /\ link' = [link EXCEPT ![i] = NoLink]
  /\ doomed' = doomed \ {i} /\ removed' = removed \cup {i}
  /\ UNCHANGED <<fresh, list, phase, rows, left>>

\* A delete that fails is logged, and the next sweep meets the link again.
RemoveFails(i) ==
  /\ Failures /\ phase = "deleting" /\ i \in doomed
  /\ doomed' = doomed \ {i}
  /\ UNCHANGED <<table, list, phase, rows, left, removed>>

Finish ==
  /\ phase = "deleting" /\ doomed = {} /\ EndSweep
  /\ UNCHANGED <<table, list>>

\* The parsed list is gone with the process; the file may be missing for a while.
Reboot ==
  /\ Failures /\ known' = FALSE /\ EndSweep
  /\ UNCHANGED <<blocked, table>>

Work == BeginSweep \/ BeginDeleting \/ Finish \/ \E i \in Ids : CheckRow(i) \/ Remove(i)

SweepNext ==
  \/ FirstRead \/ NewList \/ Work \/ Reboot
  \/ \E i \in Ids : Create(i) \/ Edit(i) \/ Delete(i) \/ RemoveFails(i)

SweepSpec == SweepInit /\ [][SweepNext]_sweepVars

\* The sweep ticker fires again and again and the worker runs when it does.
FairSweep == SweepSpec /\ WF_sweepVars(Work)

-----------------------------------------------------------------------------
(* What a sweep may do.                                                    *)

SweepTypeOK ==
  /\ fresh \subseteq Ids /\ live \subseteq Ids \ fresh
  /\ link \in [Ids -> Link] /\ rows \in [Ids -> Link]
  /\ known \in BOOLEAN /\ blocked \in SUBSET Domains
  /\ phase \in {"idle", "checking", "deleting"}
  /\ left \subseteq Ids /\ doomed \subseteq Ids /\ removed \subseteq Ids

\* Only links the worker read with a destination that a list it could consult,
\* or the operator, blocks are deleted: never one that was junk, and never one
\* for want of a list.
OnlyMatchesAreDoomed ==
  \A i \in doomed : \E t \in Swept(rows[i]) : t \in Manual \/ (known /\ t \in blocked)

\* Why: what is doomed was condemned by this sweep, and nothing is deleted before
\* every row was looked at.
SweepInv ==
  /\ SweepTypeOK /\ OnlyMatchesAreDoomed
  /\ left # {} => phase = "checking"
  /\ doomed # {} => phase # "idle"
  /\ removed # {} => phase = "deleting"

\* The error of sweepBlockedLinks: a sweep that could not consult the list for
\* one link has deleted no other.
AbortDeletesNothing == [][phase = "checking" /\ phase' = "idle" => removed = {}]_phase

\* A link that stays on the list is swept in the end, unless restarts or failing
\* deletes never stop.
Trouble == Reboot \/ \E i \in Ids : RemoveFails(i)
BlockedLinksGo ==
  <>[][~Trouble]_sweepVars =>
    \A i \in Ids :
      ~<>[](i \in live /\ known /\ \E t \in {link[i].long} \cup link[i].rotate :
              t \in blocked)

=============================================================================

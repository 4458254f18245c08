------------------------------- MODULE Links -------------------------------
(***************************************************************************)
(* Links and their click log as the handlers of internal/web and the       *)
(* statements of internal/store change them.  Several requests are in      *)
(* flight; each one is a sequence of database statements, and statements   *)
(* of different requests interleave.  What may overlap depends on the      *)
(* database:                                                               *)
(*                                                                         *)
(*   "SQLite"    the pool holds one connection (store.Open), so an open    *)
(*               transaction keeps every other statement waiting;          *)
(*   "Postgres"  25 connections at READ COMMITTED: a statement sees what   *)
(*               is committed and waits for the row locks of the           *)
(*               transactions that are open.                               *)
(*                                                                         *)
(* The schedule of a link, its password and the blocklist only decide      *)
(* whether a redirect ends early, so a redirect may end early here for no  *)
(* reason the model shows.                                                 *)
(***************************************************************************)
EXTENDS Naturals, FiniteSets

CONSTANTS
  Requests,     \* slots for requests in flight; a slot is used again
  Users,        \* accounts
  NoUser,       \* an anonymous visitor, or the owner of an anonymous link
  Codes,        \* short codes
  NoCode,       \* stands for "generate one" in a create request
  Kinds,        \* the kinds of request made in this instance
  BatchSize,    \* deleteBatchSize
  MaxId,        \* bound: ids the urls table hands out
  MaxClicks,    \* bound: clicks recorded per link
  Dialect,      \* "SQLite" or "Postgres"
  MayFail       \* TRUE: a statement may fail or its client may go away

AllKinds == {"create", "redirect", "edit", "publish", "toggle", "delete", "bulk"}

ASSUME LinksAssumption ==
  /\ NoUser \notin Users /\ NoCode \notin Codes
  /\ Kinds \subseteq AllKinds
  /\ BatchSize \in Nat \ {0} /\ MaxId \in Nat /\ MaxClicks \in Nat
  /\ Dialect \in {"SQLite", "Postgres"} /\ MayFail \in BOOLEAN

Ids == 1 .. MaxId
NoId == 0

VARIABLES
  live,         \* ids of the committed rows of urls
  row,          \* row[i]: the committed columns of link i
  lastId,       \* the AUTOINCREMENT / SERIAL counter of urls
  clicks,       \* clicks[i]: committed rows of clicks with url_id = i
  conn,         \* SQLite: {the request whose transaction holds the connection}
  pc,           \* pc[r]: the statement r executes next, or its last answer
  op,           \* op[r]: what r asked for
  todo,         \* todo[r]: ids later batches of a bulk delete take
  batch,        \* batch[r]: ids of the delete statements under way
  seen,         \* seen[r]: the link r works on, as r read it
  tx            \* tx[r]: the uncommitted writes of r's transaction

tables == <<live, row, lastId, clicks>>
request == <<op, todo, batch, seen>>
vars == <<live, row, lastId, clicks, conn, pc, op, todo, batch, seen, tx>>

Row == [code: Codes \cup {NoCode}, owner: Users \cup {NoUser},
        draft: BOOLEAN, enabled: BOOLEAN, hits: Nat]
Op == [kind: AllKinds, user: Users \cup {NoUser}, code: Codes \cup {NoCode},
       draft: BOOLEAN, ids: SUBSET Ids]
Seen == [id: Ids \cup {NoId}, draft: BOOLEAN, enabled: BOOLEAN]
Tx == [ins: Ids \cup {NoId},     \* the link of an inserted click
       bump: Ids \cup {NoId},    \* the link whose counter was written
       hits: Nat,                \* ... and the value written
       flip: Ids \cup {NoId},    \* the link whose is_enabled was written
       on: BOOLEAN,              \* ... and the value written
       wiped: [Ids -> Nat],      \* clicks deleted, by link
       gone: SUBSET Ids]         \* links deleted

NoRow == [code |-> NoCode, owner |-> NoUser, draft |-> FALSE,
          enabled |-> FALSE, hits |-> 0]
NoOp == [kind |-> "redirect", user |-> NoUser, code |-> NoCode,
         draft |-> FALSE, ids |-> {}]
NoLink == [id |-> NoId, draft |-> FALSE, enabled |-> FALSE]
NoTx == [ins |-> NoId, bump |-> NoId, hits |-> 0, flip |-> NoId, on |-> FALSE,
         wiped |-> [i \in Ids |-> 0], gone |-> {}]

Deleting == {"wipe", "drop", "check", "commitDelete"}
InTx == {"count", "commitClick", "readBack"} \cup Deleting
Statements == InTx \cup {"checkCode", "generate", "insert", "lookup", "touch", "click",
                         "load", "update", "publish", "toggle", "beginDelete"}

\* "refused": 403, 404, 409, 410 or the form again; "error": 500 or its flash;
\* "on" and "off": the is_enabled a toggle reports.
Answers == {"idle", "done", "refused", "error", "on", "off"}

Init ==
  /\ live = {} /\ row = [i \in Ids |-> NoRow] /\ lastId = 0
  /\ clicks = [i \in Ids |-> 0]
  /\ conn = {}
  /\ pc = [r \in Requests |-> "idle"]
  /\ op = [r \in Requests |-> NoOp]
  /\ todo = [r \in Requests |-> {}]
  /\ batch = [r \in Requests |-> {}]
  /\ seen = [r \in Requests |-> NoLink]
  /\ tx = [r \in Requests |-> NoTx]

-----------------------------------------------------------------------------
(* The database: the connection pool, row locks and constraints.           *)


\* BEGIN: on SQLite the transaction keeps the only connection.
Acquire(r) == conn' = IF Dialect = "SQLite" THEN {r} ELSE conn

\* DELETE ... WHERE id IN (batch), for a bulk delete also AND user_id = ?.
Rows(r) == {i \in batch[r] \cap live : op[r].kind = "bulk" => row[i].owner = op[r].user}

\* The row r's next statement touches is locked by q's open transaction.  The
\* uncommitted click of q holds FOR KEY SHARE on its link, which only a DELETE
\* conflicts with.
Updating(q, i) == i # NoId /\ (tx[q].bump = i \/ tx[q].flip = i)
WaitsFor(r, q) ==
  /\ q # r
  /\ \/ pc[r] = "insert" /\ \E i \in tx[q].gone : row[i].code = op[r].code
     \/ pc[r] = "click" /\ seen[r].id \in tx[q].gone
     \/ /\ pc[r] \in {"touch", "count", "update", "publish", "toggle"}
        /\ Updating(q, seen[r].id) \/ seen[r].id \in tx[q].gone
     \/ pc[r] = "wipe" /\ \E i \in Rows(r) : tx[q].wiped[i] > 0
     \/ pc[r] = "drop" /\ \E i \in Rows(r) : \/ Updating(q, i) \/ tx[q].ins = i
                                             \/ i \in tx[q].gone
     \/ pc[r] = "check" /\ \E i \in Rows(r) : tx[q].wiped[i] > 0

\* r has a connection and no row lock stands in its way.
Runs(r) == conn \subseteq {r} /\ \A q \in Requests : ~WaitsFor(r, q)

\* ix_urls_short_code.
Taken(c) == \E i \in live : row[i].code = c
UniqueViolation(c) == Taken(c)

\* Mutant: INTEGER PRIMARY KEY without AUTOINCREMENT takes the largest id plus one.
ReusedId == IF live = {} THEN 1
            ELSE 1 + CHOOSE i \in live : \A j \in live : j <= i

\* INTEGER PRIMARY KEY AUTOINCREMENT / SERIAL: an id is never used again.
NewId == lastId + 1

\* Mutant: foreign keys are not enforced.
NoForeignKey(r, i) == FALSE

\* FOREIGN KEY(url_id) REFERENCES urls(id), with no ON DELETE CASCADE: click
\* rows of link i would survive r's transaction.
LeavesClicks(r, i) == clicks[i] # tx[r].wiped[i]

\* The uncommitted writes of r take effect together and the connection is free.
Commit(r) ==
  /\ live' = live \ tx[r].gone
  /\ clicks' = [i \in Ids |-> (clicks[i] - tx[r].wiped[i])
                                + (IF tx[r].ins = i THEN 1 ELSE 0)]
  /\ row' = [i \in Ids |->
               IF tx[r].bump = i THEN [row[i] EXCEPT !.hits = tx[r].hits]
               ELSE IF tx[r].flip = i THEN [row[i] EXCEPT !.enabled = tx[r].on]
               ELSE row[i]]
  /\ tx' = [tx EXCEPT ![r] = NoTx]
  /\ conn' = conn \ {r}
  /\ UNCHANGED lastId

Rollback(r) ==
  /\ tx' = [tx EXCEPT ![r] = NoTx]
  /\ conn' = conn \ {r}
  /\ UNCHANGED tables

NoCommit == UNCHANGED <<live, row, lastId, clicks, conn, tx>>

-----------------------------------------------------------------------------
(* The life of a request.                                                  *)

Goto(r, label) == pc' = [pc EXCEPT ![r] = label]

\* The handler returns; its local variables are gone.
Answer(r, a) ==
  /\ pc' = [pc EXCEPT ![r] = a]
  /\ op' = [op EXCEPT ![r] = NoOp]
  /\ todo' = [todo EXCEPT ![r] = {}]
  /\ batch' = [batch EXCEPT ![r] = {}]
  /\ seen' = [seen EXCEPT ![r] = NoLink]

\* A statement that commits by itself has taken effect; its reply may be lost.
Done(r) == Answer(r, "done") \/ (MayFail /\ Answer(r, "error"))

Start(r, o, label) ==
  /\ pc[r] \in Answers /\ o.kind \in Kinds
  /\ op' = [op EXCEPT ![r] = o]
  /\ Goto(r, label)
  /\ NoCommit /\ UNCHANGED <<todo, batch, seen>>

\* r read link i.
Read(r, i) == seen' = [seen EXCEPT ![r] = [id |-> i, draft |-> row[i].draft,
                                           enabled |-> row[i].enabled]]

IsActive(i) == ~row[i].draft /\ row[i].enabled

\* The statements after a read name the link by the id that was read.
Target(r) == seen[r].id

-----------------------------------------------------------------------------
(* handleCreate and handleAPIShorten.  A request that validation or the    *)
(* blocklist refuses before the first statement never starts; the API      *)
(* validates its dates and flags between resolveShortCode and CreateURL.   *)

BeginCreate(r) ==
  \E u \in Users \cup {NoUser}, c \in Codes \cup {NoCode}, d \in BOOLEAN :
    /\ lastId + Cardinality({q \in Requests : op[q].kind = "create"}) < MaxId
    /\ d => u # NoUser
    /\ Start(r, [kind |-> "create", user |-> u, code |-> c, draft |-> d, ids |-> {}],
             IF c = NoCode THEN "generate" ELSE "checkCode")

\* resolveShortCode, custom code.
CheckCustomCode(r) ==
  /\ pc[r] = "checkCode" /\ Runs(r) /\ NoCommit
  /\ IF Taken(op[r].code)
     THEN Answer(r, "refused")
     ELSE Goto(r, "insert") /\ UNCHANGED request

\* Mutant: it draws until a code is free.
NeverExhausted == FALSE

\* GenerateUnique gives up after 20 codes that were all taken.
DrawsExhausted == \E c \in Codes : Taken(c)

GenerateCode(r) ==
  /\ pc[r] = "generate" /\ Runs(r) /\ NoCommit
  /\ \/ \E c \in Codes :
          /\ ~Taken(c)
          /\ op' = [op EXCEPT ![r].code = c]
          /\ Goto(r, "insert") /\ UNCHANGED <<todo, batch, seen>>
     \/ DrawsExhausted /\ Answer(r, "error")

\* CreateURL: one statement; the unique index settles a race for the code.
Insert(r) ==
  /\ pc[r] = "insert" /\ Runs(r) /\ UNCHANGED <<clicks, conn, tx>>
  /\ \/ Answer(r, "refused") /\ UNCHANGED <<live, row, lastId>>
     \/ /\ ~UniqueViolation(op[r].code) /\ NewId \in Ids
        /\ live' = live \cup {NewId}
        /\ lastId' = NewId
        /\ row' = [row EXCEPT ![NewId] =
                     [code |-> op[r].code, owner |-> op[r].user,
                      draft |-> op[r].draft, enabled |-> ~op[r].draft, hits |-> 0]]
        /\ Done(r)

-----------------------------------------------------------------------------
(* handleRedirect, recordClick and RecordClick.                            *)

BeginRedirect(r) ==
  \E c \in Codes :
    Start(r, [kind |-> "redirect", user |-> NoUser, code |-> c, draft |-> FALSE,
              ids |-> {}], "lookup")

\* "refused" stands for every early end: no such link, inactive, password,
\* blocklist.
Lookup(r) ==
  /\ pc[r] = "lookup" /\ Runs(r) /\ NoCommit
  /\ \/ Answer(r, "refused")
     \/ \E i \in live :
          /\ row[i].code = op[r].code /\ IsActive(i)
          /\ Read(r, i) /\ Goto(r, "touch") /\ UNCHANGED <<op, todo, batch>>

\* Clicks of link i recorded or on their way, for the bound MaxClicks.
ClicksAhead(i) ==
  row[i].hits + Cardinality({q \in Requests : pc[q] \in {"click", "count", "commitClick"}
                                              /\ seen[q].id = i})

\* TouchLastAccessed, whose success or failure nobody looks at; then the click is recorded
\* unless statistics are off or the visitor opted out.
Touch(r) ==
  /\ pc[r] = "touch" /\ Runs(r) /\ NoCommit
  /\ \/ /\ ClicksAhead(seen[r].id) < MaxClicks
        /\ Goto(r, "click") /\ UNCHANGED request
     \/ Answer(r, "done")

\* Mutant: the click row is written outside the transaction of the counter.
InsertClickAlone(r) ==
  /\ pc[r] = "click" /\ Runs(r) /\ UNCHANGED <<live, row, lastId, conn, tx>>
  /\ IF Target(r) \in live
     THEN /\ clicks' = [clicks EXCEPT ![Target(r)] = @ + 1]
          /\ Goto(r, "count") /\ UNCHANGED request
     ELSE Answer(r, "done") /\ UNCHANGED clicks

\* RecordClick, first statement: BEGIN; INSERT INTO clicks.  The foreign key
\* refuses the click of a link that is gone; the visitor is served all the same.
InsertClick(r) ==
  /\ pc[r] = "click" /\ Runs(r) /\ UNCHANGED tables
  /\ IF Target(r) \in live
     THEN /\ tx' = [tx EXCEPT ![r].ins = Target(r)]
          /\ Acquire(r) /\ Goto(r, "count") /\ UNCHANGED request
     ELSE Answer(r, "done") /\ UNCHANGED <<conn, tx>>

BumpCounter(r) ==
  /\ pc[r] = "count" /\ Runs(r) /\ UNCHANGED <<live, row, lastId, clicks, conn>>
  /\ tx' = [tx EXCEPT ![r].bump = Target(r), ![r].hits = row[Target(r)].hits + 1]
  /\ Goto(r, "commitClick") /\ UNCHANGED request

CommitClick(r) == pc[r] = "commitClick" /\ Commit(r) /\ Answer(r, "done")

-----------------------------------------------------------------------------
(* handleEdit, handlePublish, handleToggleStatus and handleDelete start    *)
(* with ownedLink; requireLogin lets only users in.                        *)

BeginOwned(r) ==
  \E k \in {"edit", "publish", "toggle", "delete"}, u \in Users, c \in Codes,
     d \in BOOLEAN :
    /\ d => k = "edit"
    /\ Start(r, [kind |-> k, user |-> u, code |-> c, draft |-> d, ids |-> {}], "load")

OwnerMay(r, i) == row[i].owner = op[r].user

AfterLoad(kind) == CASE kind = "edit" -> "update"
                     [] kind = "publish" -> "publish"
                     [] kind = "toggle" -> "toggle"
                     [] OTHER -> "beginDelete"

\* An edit is also refused when its form is invalid, a toggle when it meets a
\* draft.
Load(r) ==
  /\ pc[r] = "load" /\ Runs(r) /\ NoCommit
  /\ \/ ~Taken(op[r].code) /\ Answer(r, "refused")
     \/ \E i \in live :
          /\ row[i].code = op[r].code
          /\ \/ ~OwnerMay(r, i) /\ Answer(r, "refused")
             \/ /\ OwnerMay(r, i)
                /\ op[r].kind = "edit" \/ (op[r].kind = "toggle" /\ row[i].draft)
                /\ Answer(r, "refused")
             \/ /\ OwnerMay(r, i)
                /\ op[r].kind = "toggle" => ~row[i].draft
                /\ Read(r, i) /\ Goto(r, AfterLoad(op[r].kind))
                /\ UNCHANGED <<op, todo, batch>>

\* UpdateURL; is_enabled is not among its columns.  An edit that takes a link
\* out of draft goes on to publish it: wasDraft is what was read.
Update(r) ==
  /\ pc[r] = "update" /\ Runs(r) /\ UNCHANGED <<live, lastId, clicks, conn, tx>>
  /\ row' = IF Target(r) \in live
            THEN [row EXCEPT ![Target(r)].draft = op[r].draft] ELSE row
  /\ \/ seen[r].draft /\ ~op[r].draft /\ Goto(r, "publish") /\ UNCHANGED request
     \/ ~(seen[r].draft /\ ~op[r].draft) /\ Answer(r, "done")
     \/ MayFail /\ Answer(r, "error")

\* PublishURL, for handlePublish and for the end of handleEdit.
Publish(r) ==
  /\ pc[r] = "publish" /\ Runs(r) /\ UNCHANGED <<live, lastId, clicks, conn, tx>>
  /\ row' = IF Target(r) \in live
            THEN [row EXCEPT ![Target(r)].draft = FALSE, ![Target(r)].enabled = TRUE]
            ELSE row
  /\ Done(r)

\* Mutant: the value the handler read is written back negated.
ToggledSeen(r, i) == ~seen[r].enabled

\* The flip negates the committed value, not the one the handler read.
ToggledValue(r, i) == ~row[i].enabled

OnOff(b) == IF b THEN "on" ELSE "off"

\* SetURLEnabledToggle on Postgres: UPDATE ... RETURNING.
TogglePostgres(r) ==
  /\ pc[r] = "toggle" /\ Dialect = "Postgres" /\ Runs(r)
  /\ UNCHANGED <<live, lastId, clicks, conn, tx>>
  /\ IF Target(r) \in live
     THEN /\ row' = [row EXCEPT ![Target(r)].enabled = ToggledValue(r, Target(r))]
          /\ \/ MayFail /\ Answer(r, "error")
             \/ Answer(r, OnOff(ToggledValue(r, Target(r))))
     ELSE Answer(r, "error") /\ UNCHANGED row

\* SetURLEnabledToggle on SQLite: UPDATE and SELECT in one transaction.
FlipInTx(r) ==
  /\ pc[r] = "toggle" /\ Dialect = "SQLite" /\ Runs(r) /\ UNCHANGED tables
  /\ tx' = IF Target(r) \in live
           THEN [tx EXCEPT ![r].flip = Target(r), ![r].on = ToggledValue(r, Target(r))]
           ELSE tx
  /\ Acquire(r) /\ Goto(r, "readBack") /\ UNCHANGED request

ReadBack(r) ==
  /\ pc[r] = "readBack" /\ Runs(r)
  /\ IF Target(r) \in live
     THEN Commit(r) /\ Answer(r, OnOff(tx[r].on))
     ELSE Rollback(r) /\ Answer(r, "error")

-----------------------------------------------------------------------------
(* DeleteURL and DeleteUserURLs: click rows first, then the links, batch   *)
(* after batch, in one transaction.                                        *)

\* handleBulkDelete: any ids the form names; the SQL skips those of others.
BeginBulk(r) ==
  \E u \in Users, S \in SUBSET (1 .. lastId) \ {{}} :
    /\ pc[r] \in Answers /\ "bulk" \in Kinds
    /\ op' = [op EXCEPT ![r] = [kind |-> "bulk", user |-> u, code |-> NoCode,
                                draft |-> FALSE, ids |-> S]]
    /\ todo' = [todo EXCEPT ![r] = S]
    /\ Goto(r, "beginDelete")
    /\ NoCommit /\ UNCHANGED <<batch, seen>>

BatchOf(S) == {B \in SUBSET S : \/ Cardinality(B) = BatchSize
                                \/ B = S /\ Cardinality(S) < BatchSize}

\* The next DELETE pair takes a batch of the ids left, in any order.
NextBatch(r) ==
  \E B \in BatchOf(todo[r]) :
    /\ batch' = [batch EXCEPT ![r] = B]
    /\ todo' = [todo EXCEPT ![r] = @ \ B]
    /\ Goto(r, "wipe") /\ UNCHANGED <<op, seen>>

BeginDelete(r) ==
  /\ pc[r] = "beginDelete" /\ Runs(r) /\ UNCHANGED <<live, row, lastId, clicks, tx>>
  /\ Acquire(r)
  /\ IF op[r].kind = "bulk"
     THEN NextBatch(r)
     ELSE /\ batch' = [batch EXCEPT ![r] = {Target(r)}]
          /\ Goto(r, "wipe") /\ UNCHANGED <<op, todo, seen>>

\* DELETE FROM clicks: the rows that are committed now.
Wipe(r) ==
  /\ pc[r] = "wipe" /\ Runs(r) /\ UNCHANGED <<live, row, lastId, clicks, conn>>
  /\ tx' = [tx EXCEPT ![r].wiped =
              [i \in Ids |-> IF i \in Rows(r) THEN clicks[i] ELSE @[i]]]
  /\ Goto(r, "drop") /\ UNCHANGED request

\* DELETE FROM urls: locks the rows, then checks the foreign key.
Drop(r) ==
  /\ pc[r] = "drop" /\ Runs(r) /\ UNCHANGED <<live, row, lastId, clicks, conn>>
  /\ tx' = [tx EXCEPT ![r].gone = @ \cup Rows(r)]
  /\ Goto(r, "check") /\ UNCHANGED request

\* Mutant: each batch is committed on its own.
CommitEachBatch(r) ==
  /\ pc[r] = "check" /\ Runs(r)
  /\ IF \E i \in Rows(r) : LeavesClicks(r, i)
     THEN Rollback(r) /\ Answer(r, "error")
     ELSE /\ Commit(r)
          /\ IF todo[r] # {} THEN NextBatch(r) ELSE Answer(r, "done")

CheckReferences(r) ==
  /\ pc[r] = "check" /\ Runs(r)
  /\ IF \E i \in Rows(r) : LeavesClicks(r, i)
     THEN Rollback(r) /\ Answer(r, "error")
     ELSE /\ NoCommit
          /\ IF todo[r] # {}
             THEN NextBatch(r)
             ELSE /\ Goto(r, "commitDelete")
                  /\ batch' = [batch EXCEPT ![r] = {}]
                  /\ UNCHANGED <<op, todo, seen>>

CommitDelete(r) == pc[r] = "commitDelete" /\ Commit(r) /\ Answer(r, "done")

-----------------------------------------------------------------------------
(* What ends a request from outside.                                       *)

\* What a handler answers when its statement fails: recordClick and
\* TouchLastAccessed only log it.
FailureAnswer(r) ==
  IF pc[r] \in {"touch", "click", "count", "commitClick"} THEN "done" ELSE "error"

\* Postgres ends one transaction of a cycle that waits for itself.
Deadlocked(r) ==
  \E S \in SUBSET Requests :
    /\ r \in S
    /\ \A q \in S : /\ \E p \in S : WaitsFor(q, p)
                    /\ \E p \in S : WaitsFor(p, q)

DeadlockVictim(r) ==
  /\ Dialect = "Postgres" /\ Deadlocked(r)
  /\ Rollback(r) /\ Answer(r, FailureAnswer(r))

\* The database is unreachable, the client goes away and its context cancels
\* the statement, or the process dies: the open transaction is rolled back.
Fail(r) ==
  /\ MayFail /\ pc[r] \in Statements
  /\ Rollback(r) /\ Answer(r, FailureAnswer(r))

\* The COMMIT took effect and the connection broke before its reply.
LostAck(r) ==
  /\ MayFail /\ Dialect = "Postgres" /\ pc[r] \in {"commitClick", "commitDelete"}
  /\ Commit(r) /\ Answer(r, FailureAnswer(r))

Begin(r) == BeginCreate(r) \/ BeginRedirect(r) \/ BeginOwned(r) \/ BeginBulk(r)

Step(r) ==
  \/ CheckCustomCode(r) \/ GenerateCode(r) \/ Insert(r)
  \/ Lookup(r) \/ Touch(r) \/ InsertClick(r) \/ BumpCounter(r) \/ CommitClick(r)
  \/ Load(r) \/ Update(r) \/ Publish(r)
  \/ TogglePostgres(r) \/ FlipInTx(r) \/ ReadBack(r)
  \/ BeginDelete(r) \/ Wipe(r) \/ Drop(r) \/ CheckReferences(r) \/ CommitDelete(r)

Next == \E r \in Requests :
  Begin(r) \/ Step(r) \/ DeadlockVictim(r) \/ Fail(r) \/ LostAck(r)

Spec == Init /\ [][Next]_vars

\* database/sql hands the connection to waiting requests in FIFO order, so a
\* request that waits for it again and again gets it.
FairSpec == Spec /\ \A r \in Requests : SF_vars(Step(r))

-----------------------------------------------------------------------------
(* What the handlers and statements together guarantee.                    *)

TypeOK ==
  /\ live \subseteq Ids /\ row \in [Ids -> Row] /\ lastId \in Ids \cup {0}
  /\ clicks \in [Ids -> Nat]
  /\ conn \subseteq Requests
  /\ pc \in [Requests -> Statements \cup Answers]
  /\ op \in [Requests -> Op]
  /\ todo \in [Requests -> SUBSET Ids]
  /\ batch \in [Requests -> SUBSET (Ids \cup {NoId})]
  /\ seen \in [Requests -> Seen]
  /\ tx \in [Requests -> Tx]

\* No two links share a short code, whatever two create requests saw when they
\* asked whether it was taken (CreateURL, resolveShortCode).
CodesUnique == \A i, j \in live : row[i].code = row[j].code => i = j

\* RecordClick: the counter of a link is the number of its rows in the log, at
\* every instant another request could look and after every failure.
CounterMatchesLog == \A i \in live : row[i].hits = clicks[i]

\* RecordClick against DeleteURL and DeleteUserURLs: no click outlives its link.
NoOrphanClicks == \A i \in Ids \ live : clicks[i] = 0

\* Why they hold.  What r has written so far, by the statement it has reached:
WritesInv(r) ==
  /\ pc[r] \in {"checkCode", "insert"} => op[r].code \in Codes
  /\ tx[r].ins = IF pc[r] \in {"count", "commitClick"} THEN seen[r].id ELSE NoId
  /\ tx[r].bump = IF pc[r] = "commitClick" THEN seen[r].id ELSE NoId
  /\ tx[r].flip # NoId => pc[r] = "readBack"
  /\ pc[r] = "readBack" => Dialect = "SQLite"
  /\ tx[r].gone # {} => pc[r] \in Deleting
  /\ \A i \in Ids : tx[r].wiped[i] > 0 =>
       i \in tx[r].gone \/ (pc[r] = "drop" /\ i \in Rows(r))

\* on SQLite whoever is in a transaction has the connection;
PoolInv == Dialect = "SQLite" => \A r \in Requests : pc[r] \in InTx => conn = {r}

\* what r has written was computed from what is still committed, and once the
\* foreign key was checked the click rows of a link that goes are those that go
\* with it;
BasisInv(r) ==
  /\ pc[r] \in {"count", "commitClick"} => seen[r].id \in live
  /\ pc[r] = "commitClick" => tx[r].hits = row[seen[r].id].hits + 1
  /\ pc[r] = "readBack" /\ seen[r].id \in live =>
       tx[r].flip = seen[r].id /\ tx[r].on = ~row[seen[r].id].enabled
  /\ tx[r].gone \subseteq live
  /\ \A i \in Ids : tx[r].wiped[i] <= clicks[i]
  /\ \A i \in tx[r].gone :
       (pc[r] = "check" /\ i \in Rows(r)) \/ clicks[i] = tx[r].wiped[i]

\* two transactions do not write the same counter, do not delete the same click
\* or the same link, and none deletes the link of the other's click;
ApartInv(q, r) ==
  /\ tx[q].bump # NoId => tx[q].bump # tx[r].bump
  /\ \A i \in Ids : tx[q].wiped[i] = 0 \/ tx[r].wiped[i] = 0
  /\ tx[q].gone \cap tx[r].gone = {}
  /\ tx[q].ins \notin tx[r].gone

TxInv == \A r \in Requests :
  WritesInv(r) /\ BasisInv(r) /\ \A q \in Requests \ {r} : ApartInv(q, r)

\* and ids are handed out in order.
IdInv == live \subseteq 1 .. lastId

TablesInv == IdInv /\ CodesUnique /\ CounterMatchesLog /\ NoOrphanClicks

IndInv == TypeOK /\ TxInv /\ PoolInv /\ TablesInv

\* ownedLink and DeleteUserURLs: a link is changed or removed only by a step of
\* a request of its owner that asked for this link, even when the code was freed
\* and taken by somebody else since the request read it.
AskedFor(r, i) == op[r].code = row[i].code \/ i \in op[r].ids
OwnersOnly ==
  [][\A i \in live :
       (i \notin live' \/ row'[i].draft # row[i].draft \/ row'[i].enabled # row[i].enabled)
         => \E r \in Requests : /\ pc'[r] # pc[r] /\ op[r].user # NoUser
                                /\ op[r].user = row[i].owner /\ AskedFor(r, i)]_vars

\* Why: from the read of a link to its last statement a request works on a link of its
\* user that has the code it asked for, and it removes only such links or links its form
\* named,
Changing == {"update", "publish", "toggle", "readBack", "beginDelete"} \cup Deleting

ClaimInv(r) ==
  /\ pc[r] = "load" => op[r].user \in Users
  /\ pc[r] \in Changing =>
       /\ op[r].user \in Users
       /\ op[r].kind # "bulk" =>
            /\ Target(r) \in 1 .. lastId
            /\ row[Target(r)].owner = op[r].user /\ row[Target(r)].code = op[r].code
  /\ pc[r] \in Deleting => batch[r] \subseteq IF op[r].kind = "bulk" THEN op[r].ids ELSE {Target(r)}
  /\ \A i \in tx[r].gone : row[i].owner = op[r].user /\ AskedFor(r, i)

\* and what a bulk delete has still to remove is in a batch that is to come, or is there.
BulkInv(r) ==
  IF op[r].kind # "bulk" THEN todo[r] = {} ELSE
    /\ pc[r] \in {"beginDelete"} \cup Deleting
    /\ op[r].ids \subseteq 1 .. lastId /\ todo[r] \subseteq op[r].ids
    /\ pc[r] = "beginDelete" => todo[r] = op[r].ids
    /\ pc[r] = "commitDelete" => todo[r] = {}
    /\ \A i \in op[r].ids \cap live :
         row[i].owner = op[r].user =>
           i \in todo[r] \cup tx[r].gone \/ (pc[r] \in {"wipe", "drop"} /\ i \in batch[r])

OwnerInv == \A r \in Requests : ClaimInv(r) /\ BulkInv(r)

\* SetURLEnabledToggle: an answered toggle turned the link over, and the answer
\* is the state it left, however many toggles race.
ToggleReportsOutcome ==
  [][\A r \in Requests :
       pc[r] \in Statements /\ pc'[r] \in {"on", "off"} =>
         /\ Target(r) \in live'
         /\ row'[Target(r)].enabled = (pc'[r] = "on")
         /\ row'[Target(r)].enabled # row[Target(r)].enabled]_vars

\* DeleteUserURLs: when a step of a bulk delete removes a link it removes every
\* link the form named and the user owns, however many batches that took.
BulkAllOrNothing ==
  [][\A r \in Requests :
       op[r].kind = "bulk" /\ pc'[r] # pc[r] /\ live' # live
         => \A i \in live' \cap op[r].ids : row[i].owner # op[r].user]_vars

\* Every request is answered: no statement waits forever, no loop goes on.
EveryRequestAnswered ==
  \A r \in Requests : pc[r] \in Statements ~> pc[r] \in Answers

\* The tables read like a directory in which every operation happens at once.
Directory == INSTANCE LinkDirectory WITH log <- clicks
ImplementsDirectory == Directory!Spec

=============================================================================

----------------------------- MODULE TwoFactor -----------------------------
(***************************************************************************)
(* The second factor of one account: enrolling an authenticator, turning   *)
(* it off, and the recovery codes a login or a disabling uses up.  The     *)
(* requests are those of the owner, from several tabs and devices; each    *)
(* reads the users row once or twice and then writes through the           *)
(* statements of internal/store/users.go.                                  *)
(***************************************************************************)
EXTENDS Naturals

CONSTANTS
  Requests,     \* slots for requests in flight
  Indexes,      \* stands for the ten recovery codes of an enrollment
  MaxSecret,    \* bound: secrets generated
  MaxBatch,     \* bound: batches of recovery codes generated
  Dialect,      \* "SQLite" or "Postgres"
  MayFail       \* TRUE: a statement may fail or its client may go away

ASSUME TwoFactorAssumption ==
  /\ MaxSecret \in Nat /\ MaxBatch \in Nat
  /\ Dialect \in {"SQLite", "Postgres"} /\ MayFail \in BOOLEAN

Secrets == 1 .. MaxSecret
NoSecret == 0
Codes == [batch: 1 .. MaxBatch, index: Indexes]
NoCode == [batch |-> 0, index |-> 0]
User == [secret: Secrets \cup {NoSecret}, enabled: BOOLEAN]
Kinds == {"start", "confirm", "disable", "login"}

VARIABLES
  user,         \* totp_secret and totp_enabled of the account
  codes,        \* its rows of recovery_codes
  lastSecret,   \* secrets generated so far
  lastBatch,    \* batches of codes generated so far
  shown,        \* secrets the owner was shown and has in an authenticator
  known,        \* recovery codes the owner was shown
  pc,           \* pc[r]: the statement r executes next, or its answer
  kind,         \* kind[r]: the handler
  entered,      \* entered[r]: the recovery code r was sent
  tx,           \* tx[r]: code rows r's transaction has deleted and inserted
  lock,         \* {the request whose transaction has the users row}
  accepted      \* history: how often each code was accepted

tables == <<user, codes>>
counters == <<lastSecret, lastBatch>>
owner == <<shown, known>>
request == <<kind, entered>>
vars == <<user, codes, lastSecret, lastBatch, shown, known, pc, kind, entered, tx, lock,
          accepted>>

NoTx == [gone |-> {}, fresh |-> {}]
InTx == {"clear", "insert", "commit"}
Statements == {"setPending", "reload", "enable", "second", "consume", "disable"} \cup InTx
Answers == {"idle", "done", "refused", "error", "in"}

Init ==
  /\ user = [secret |-> NoSecret, enabled |-> FALSE] /\ codes = {}
  /\ lastSecret = 0 /\ lastBatch = 0 /\ shown = {} /\ known = {}
  /\ pc = [r \in Requests |-> "idle"]
  /\ kind = [r \in Requests |-> "login"]
  /\ entered = [r \in Requests |-> NoCode]
  /\ tx = [r \in Requests |-> NoTx] /\ lock = {}
  /\ accepted = [c \in Codes |-> 0]

-----------------------------------------------------------------------------
(* The database.                                                           *)

\* An open transaction keeps everybody out on SQLite, and on Postgres those who
\* write the users row or delete a code row it has deleted.
Waits(r, q) ==
  /\ q # r /\ q \in lock
  /\ \/ Dialect = "SQLite"
     \/ pc[r] \in {"setPending", "enable", "disable"}
     \/ pc[r] = "consume" /\ entered[r] \in tx[q].gone
Runs(r) == \A q \in Requests : ~Waits(r, q)

Goto(r, label) == pc' = [pc EXCEPT ![r] = label]

\* The handler is through; its locals are gone.
Answer(r, a) ==
  /\ Goto(r, a)
  /\ kind' = [kind EXCEPT ![r] = "login"]
  /\ entered' = [entered EXCEPT ![r] = NoCode]

Rollback(r) == tx' = [tx EXCEPT ![r] = NoTx] /\ lock' = lock \ {r}

\* COMMIT of EnableTOTP or DisableTOTP: the secret stays in one and goes in the
\* other.
Commit(r) ==
  /\ user' = IF kind[r] = "confirm" THEN [user EXCEPT !.enabled = TRUE]
             ELSE [secret |-> NoSecret, enabled |-> FALSE]
  /\ codes' = (codes \ tx[r].gone) \cup tx[r].fresh
  /\ tx' = [tx EXCEPT ![r] = NoTx] /\ lock' = lock \ {r}

-----------------------------------------------------------------------------
(* The handlers up to their first write.  wrap and handleLogin read the    *)
(* account; the password is right, or the request ends there.              *)

Begin(r) ==
  /\ pc[r] \in Answers /\ Runs(r)
  /\ \E k \in Kinds :
       /\ kind' = [kind EXCEPT ![r] = k]
       /\ pc' = [pc EXCEPT ![r] =
                   CASE k = "start" -> IF user.enabled THEN "refused" ELSE "setPending"
                     [] k = "login" -> IF user.enabled THEN "second" ELSE "in"
                     [] OTHER -> "reload"]
  /\ UNCHANGED <<tables, counters, owner, entered, tx, lock, accepted>>

\* handleTOTPStart: SetTOTPPending, and the page shows the secret.
SetPending(r) ==
  /\ pc[r] = "setPending" /\ Runs(r) /\ lastSecret < MaxSecret
  /\ lastSecret' = lastSecret + 1
  /\ user' = [secret |-> lastSecret + 1, enabled |-> FALSE]
  /\ shown' = shown \cup {lastSecret + 1}
  /\ Answer(r, "done")
  /\ UNCHANGED <<codes, lastBatch, known, tx, lock, accepted>>

\* handleTOTPConfirm reads the row again and checks the code it was sent; after a
\* wrong code the page shows the secret once more.
ReloadToConfirm(r) ==
  /\ pc[r] = "reload" /\ kind[r] = "confirm" /\ Runs(r)
  /\ IF user.secret = NoSecret \/ user.enabled
     THEN Answer(r, "refused") /\ UNCHANGED shown
     ELSE \/ /\ Answer(r, "refused")
             /\ shown' = shown \cup {user.secret}
          \/ /\ user.secret \in shown
             /\ Goto(r, "enable") /\ UNCHANGED <<request, shown>>
  /\ UNCHANGED <<tables, counters, known, tx, lock, accepted>>

\* validateSecondFactor in handleTOTPDisable and handleTOTPLogin, on the row read
\* now.  An account whose secret is gone is an error.
Factor(r, pass) ==
  /\ IF user.secret = NoSecret
     THEN Goto(r, "error") /\ UNCHANGED entered
     ELSE \/ Goto(r, "refused") /\ UNCHANGED entered
          \/ user.secret \in shown /\ Goto(r, pass) /\ UNCHANGED entered
          \/ \E c \in known :
               entered' = [entered EXCEPT ![r] = c] /\ Goto(r, "consume")
  /\ UNCHANGED <<tables, counters, owner, kind, tx, lock, accepted>>

ReloadToDisable(r) ==
  pc[r] = "reload" /\ kind[r] = "disable" /\ Runs(r) /\ Factor(r, "disable")

SecondFactor(r) == pc[r] = "second" /\ Runs(r) /\ Factor(r, "in")

\* Mutant: the number of rows deleted is not looked at.
AnyCode(r) == TRUE

Matched(r) == entered[r] \in codes

\* ConsumeRecoveryCode: one DELETE.
Consume(r) ==
  /\ pc[r] = "consume" /\ Runs(r)
  /\ codes' = codes \ {entered[r]}
  /\ IF Matched(r)
     THEN /\ accepted' = [accepted EXCEPT ![entered[r]] = @ + 1]
          /\ Goto(r, IF kind[r] = "disable" THEN "disable" ELSE "in")
     ELSE Goto(r, "refused") /\ UNCHANGED accepted
  /\ UNCHANGED <<user, counters, owner, kind, entered, tx, lock>>

-----------------------------------------------------------------------------
(* EnableTOTP and DisableTOTP: UPDATE users, DELETE FROM recovery_codes    *)
(* and, to enable, the INSERTs, in one transaction.                        *)

\* Mutant: the UPDATE is a statement of its own.
UpdateAlone(r) ==
  /\ pc[r] \in {"enable", "disable"} /\ Runs(r)
  /\ lock' = {r} /\ Goto(r, "clear")
  /\ user' = [user EXCEPT !.enabled = (kind[r] = "confirm")]
  /\ UNCHANGED <<codes, counters, owner, request, tx, accepted>>

UpdateUser(r) ==
  /\ pc[r] \in {"enable", "disable"} /\ Runs(r)
  /\ lock' = {r} /\ Goto(r, "clear")
  /\ UNCHANGED <<tables, counters, owner, request, tx, accepted>>

OldCodes == codes

ClearCodes(r) ==
  /\ pc[r] = "clear" /\ Runs(r)
  /\ tx' = [tx EXCEPT ![r].gone = OldCodes]
  /\ Goto(r, IF kind[r] = "confirm" THEN "insert" ELSE "commit")
  /\ UNCHANGED <<tables, counters, owner, request, lock, accepted>>

InsertCodes(r) ==
  /\ pc[r] = "insert" /\ Runs(r) /\ lastBatch < MaxBatch
  /\ lastBatch' = lastBatch + 1
  /\ tx' = [tx EXCEPT ![r].fresh = [batch: {lastBatch + 1}, index: Indexes]]
  /\ Goto(r, "commit")
  /\ UNCHANGED <<tables, lastSecret, owner, request, lock, accepted>>

\* The page that follows is the only one to show the new codes.
CommitTx(r) ==
  /\ pc[r] = "commit" /\ Commit(r) /\ Answer(r, "done")
  /\ known' = known \cup tx[r].fresh
  /\ UNCHANGED <<counters, shown, accepted>>

-----------------------------------------------------------------------------
(* Failures.                                                               *)

\* Mutant: the transaction is left open.
KeepOpen(r) == UNCHANGED <<tx, lock>>

\* defer tx.Rollback().
Abandon(r) == Rollback(r)

Fail(r) ==
  /\ MayFail /\ pc[r] \in Statements
  /\ Abandon(r) /\ Answer(r, "error")
  /\ UNCHANGED <<tables, counters, owner, accepted>>

\* The statement or the COMMIT took effect and nobody heard of it: a secret or
\* the codes are never shown, a code is spent for nothing.
LostAck(r) ==
  /\ MayFail /\ Runs(r) /\ Answer(r, "error")
  /\ \/ /\ pc[r] = "commit" /\ Commit(r) /\ UNCHANGED counters
     \/ /\ pc[r] = "setPending" /\ lastSecret < MaxSecret
        /\ lastSecret' = lastSecret + 1
        /\ user' = [secret |-> lastSecret + 1, enabled |-> FALSE]
        /\ UNCHANGED <<codes, lastBatch, tx, lock>>
     \/ /\ pc[r] = "consume" /\ codes' = codes \ {entered[r]}
        /\ UNCHANGED <<user, counters, tx, lock>>
  /\ UNCHANGED <<owner, accepted>>

\* The bounds end a request that would need another secret or batch.
OutOfBounds(r) ==
  /\ \/ pc[r] = "setPending" /\ lastSecret = MaxSecret
     \/ pc[r] = "insert" /\ lastBatch = MaxBatch
  /\ Rollback(r) /\ Answer(r, "error")
  /\ UNCHANGED <<tables, counters, owner, accepted>>

Step(r) ==
  \/ SetPending(r) \/ ReloadToConfirm(r) \/ ReloadToDisable(r) \/ SecondFactor(r)
  \/ Consume(r) \/ UpdateUser(r) \/ ClearCodes(r) \/ InsertCodes(r) \/ CommitTx(r)
  \/ OutOfBounds(r)

Next == \E r \in Requests : Begin(r) \/ Step(r) \/ Fail(r) \/ LostAck(r)

Spec == Init /\ [][Next]_vars
FairSpec == Spec /\ \A r \in Requests : SF_vars(Step(r))

-----------------------------------------------------------------------------
(* What the owner may rely on.                                             *)

TypeOK ==
  /\ user \in User /\ codes \in SUBSET Codes
  /\ lastSecret \in 0 .. MaxSecret /\ lastBatch \in 0 .. MaxBatch
  /\ shown \in SUBSET Secrets /\ known \in SUBSET Codes
  /\ pc \in [Requests -> Statements \cup Answers] /\ kind \in [Requests -> Kinds]
  /\ entered \in [Requests -> Codes \cup {NoCode}]
  /\ tx \in [Requests -> [gone: SUBSET Codes, fresh: SUBSET Codes]]
  /\ lock \in SUBSET Requests
  /\ accepted \in [Codes -> Nat]

\* The account's transaction is the one that holds its row, and what it will
\* commit is a new batch nobody has used in place of all there is.
TransactionOK(r) ==
  /\ r \in lock <=> pc[r] \in InTx
  /\ r \notin lock => tx[r] = NoTx
  /\ pc[r] \in {"enable", "insert"} => kind[r] = "confirm"
  /\ pc[r] = "disable" => kind[r] = "disable"
  /\ pc[r] \in InTx => kind[r] \in {"confirm", "disable"}
  /\ pc[r] \in {"insert", "commit"} => codes \subseteq tx[r].gone
  /\ IF pc[r] = "commit" /\ kind[r] = "confirm"
     THEN /\ tx[r].fresh = [batch: {lastBatch}, index: Indexes]
          /\ \A c \in codes : c.batch < lastBatch
     ELSE tx[r].fresh = {}

TransactionsOK ==
  (\A r, q \in lock : r = q) /\ (\A r \in Requests : TransactionOK(r))

\* ConsumeRecoveryCode: no code is accepted twice, by logins, disablings or both
\* at once, and none comes back when the codes are replaced.
CodesWorkOnce == \A c \in Codes : accepted[c] <= 1

\* EnableTOTP replaces the codes: those of two enrollments are never mixed.
OneBatch == \A c, d \in codes : c.batch = d.batch

\* The two with what makes them inductive: a code that can still be accepted, or
\* will be once committed, has not been accepted yet.
TwoFactorInv ==
  /\ TypeOK /\ TransactionsOK /\ CodesWorkOnce /\ OneBatch
  /\ \A c \in codes : c.batch <= lastBatch
  /\ \A c \in Codes :
       c \in codes \/ c.batch > lastBatch \/ (\E r \in Requests : c \in tx[r].fresh)
         => accepted[c] = 0

\* EnableTOTP and DisableTOTP: 2FA is switched on together with a whole new set
\* of codes, and the secret goes together with the codes.
SwitchesAreAtomic ==
  [][/\ ~user.enabled /\ user'.enabled =>
          codes' = [batch: {lastBatch}, index: Indexes] /\ codes \cap codes' = {}
     /\ user.secret # NoSecret /\ user'.secret = NoSecret => codes' = {}]_tables

\* No failure leaves the account locked.
EveryRequestAnswered ==
  \A r \in Requests : pc[r] \in Statements ~> pc[r] \in Answers

\* security_settings.html: disabling takes the password and a code, so nothing
\* but handleTOTPDisable switches 2FA off.
OnUntilDisabled ==
  [][user.enabled /\ ~user'.enabled => \E r \in Requests : kind[r] = "disable" /\ r \in lock]_user

=============================================================================

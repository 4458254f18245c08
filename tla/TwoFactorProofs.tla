-------------------------- MODULE TwoFactorProofs --------------------------
(***************************************************************************)
(* Proofs about TwoFactor for any number of requests, any bounds and both  *)
(* dialects.                                                               *)
(***************************************************************************)
EXTENDS TwoFactor, TLAPS

\* The placeholder and the batches of codes are typed.
LEMMA NoTxType == NoTx \in [gone: SUBSET Codes, fresh: SUBSET Codes]
BY DEF NoTx

\* A batch of codes is typed.
LEMMA BatchType == ASSUME NEW b \in 1 .. MaxBatch
                   PROVE  [batch: {b}, index: Indexes] \in SUBSET Codes
BY DEF Codes

\* Every code knows its batch.
LEMMA BatchOf == ASSUME NEW b, NEW c \in [batch: {b}, index: Indexes] PROVE c.batch = b
OBVIOUS

\* The invariant holds at the start.
LEMMA InitTwoFactor == Init => TwoFactorInv
<1>. SUFFICES ASSUME Init PROVE TwoFactorInv
  OBVIOUS
<1>1. TypeOK
  BY NoTxType, TwoFactorAssumption
     DEF Init, TypeOK, User, Statements, InTx, Answers, Kinds
<1>2. TransactionsOK
  BY DEF Init, TransactionsOK, TransactionOK, InTx, NoTx
<1>. QED  BY <1>1, <1>2, TwoFactorAssumption
          DEF Init, TwoFactorInv, CodesWorkOnce, OneBatch, Codes

-----------------------------------------------------------------------------
(* The steps of a request without a transaction leave everything about     *)
(* transactions alone.                                                     *)

\* What such a step may change: the request's own place, the account's row, and
\* the codes only downwards.
Plain(r) ==
  /\ pc[r] \notin InTx /\ pc' = [pc EXCEPT ![r] = pc'[r]] /\ pc'[r] \notin InTx
  /\ \A q \in Requests : q # r => kind'[q] = kind[q]
  /\ pc'[r] = "enable" => kind'[r] = "confirm"
  /\ pc'[r] = "disable" => kind'[r] = "disable"
  /\ codes' \subseteq codes
  /\ UNCHANGED <<lastBatch, tx, lock>>

\* A request outside a transaction, before and after a step, disturbs no transaction,
LEMMA PlainTransactions ==
  ASSUME TwoFactorInv, NEW r \in Requests, Plain(r) PROVE TransactionsOK'
<1>1. TypeOK /\ TransactionsOK
  BY DEF TwoFactorInv
<1>2. ASSUME NEW q \in Requests PROVE TransactionOK(q)'
  <2>1. CASE q = r
    <3>1. pc'[r] \notin {"insert", "commit"} /\ pc[r] # "commit"
      BY DEF Plain, InTx
    <3>. QED  BY <1>1, <2>1, <3>1 DEF TransactionsOK, TransactionOK, Plain
  <2>2. CASE q # r
    <3>1. pc'[q] = pc[q] /\ kind'[q] = kind[q]
      BY <1>1, <2>2 DEF Plain, TypeOK
    <3>. QED  BY <1>1, <3>1 DEF TransactionsOK, TransactionOK, Plain
  <2>. QED  BY <2>1, <2>2
<1>. QED  BY <1>1, <1>2 DEF TransactionsOK, Plain

\* nor anything else of the invariant if no code is accepted,
LEMMA PlainKeeps ==
  ASSUME TwoFactorInv, TypeOK', NEW r \in Requests, Plain(r), UNCHANGED accepted
  PROVE  TwoFactorInv'
<1>1. TransactionsOK'
  BY PlainTransactions
<1>. QED  BY <1>1 DEF TwoFactorInv, CodesWorkOnce, OneBatch, Plain

\* nor if it accepts a code by deleting it.
LEMMA ConsumeKeeps ==
  ASSUME TwoFactorInv, TypeOK', NEW r \in Requests, Plain(r),
         NEW c \in codes, codes' = codes \ {c}, accepted' = [accepted EXCEPT ![c] = @ + 1]
  PROVE  TwoFactorInv'
<1>1. TransactionsOK'
  BY PlainTransactions
<1>2. c \in Codes /\ accepted[c] = 0 /\ c.batch <= lastBatch
      /\ c.batch \in Nat /\ lastBatch \in Nat
  BY DEF TwoFactorInv, TypeOK, Codes
<1>3. \A q \in Requests : c \notin tx[q].fresh
  <2>1. SUFFICES ASSUME NEW q \in Requests, c \in tx[q].fresh PROVE FALSE
    OBVIOUS
  <2>2. q \in lock /\ pc[q] = "commit" /\ kind[q] = "confirm"
    BY <2>1 DEF TwoFactorInv, TransactionsOK, TransactionOK, InTx
  <2>3. /\ tx[q].fresh = [batch: {lastBatch}, index: Indexes]
        /\ c.batch < lastBatch
    BY <2>2 DEF TwoFactorInv, TransactionsOK, TransactionOK
  <2>4. c.batch = lastBatch
    BY <2>1, <2>3, BatchOf
  <2>. QED  BY <2>3, <2>4, <1>2
<1>4. \A d \in Codes : accepted'[d] = IF d = c THEN 1 ELSE accepted[d]
  BY <1>2 DEF TwoFactorInv, TypeOK
<1>5. CodesWorkOnce'
  BY <1>4 DEF TwoFactorInv, CodesWorkOnce
<1>6. OneBatch' /\ \A d \in codes' : d.batch <= lastBatch'
  BY DEF TwoFactorInv, OneBatch, Plain
<1>7. ASSUME NEW d \in Codes,
             d \in codes' \/ d.batch > lastBatch' \/ (\E q \in Requests : d \in tx'[q].fresh)
      PROVE  accepted'[d] = 0
  <2>1. d # c
    BY <1>2, <1>3, <1>7 DEF Plain
  <2>2. d \in codes \/ d.batch > lastBatch \/ (\E q \in Requests : d \in tx[q].fresh)
    BY <1>7 DEF Plain
  <2>. QED  BY <1>4, <2>1, <2>2 DEF TwoFactorInv
<1>. QED  BY <1>1, <1>5, <1>6, <1>7 DEF TwoFactorInv

-----------------------------------------------------------------------------
(* The steps of a transaction.                                             *)

\* An answered request is typed.
LEMMA AnswerType ==
  ASSUME TypeOK, NEW r \in Requests, NEW a \in Answers, Answer(r, a)
  PROVE  /\ pc' \in [Requests -> Statements \cup Answers]
         /\ kind' \in [Requests -> Kinds]
         /\ entered' \in [Requests -> Codes \cup {NoCode}]
         /\ pc' = [pc EXCEPT ![r] = a]
         /\ pc'[r] \notin InTx \cup {"enable", "disable"}
         /\ \A q \in Requests : q # r => kind'[q] = kind[q]
<1>1. a \notin InTx \cup {"enable", "disable"}
  BY DEF Answers, InTx
<1>. QED  BY <1>1 DEF TypeOK, Answer, Goto, Kinds

\* A commit leaves the tables typed.
LEMMA CommitKeeps ==
  ASSUME TwoFactorInv, NEW r \in Requests, pc[r] = "commit", NEW a \in Answers,
         Commit(r), Answer(r, a), UNCHANGED <<counters, accepted>>
  PROVE  /\ user' \in User /\ codes' \in SUBSET Codes
         /\ tx' \in [Requests -> [gone: SUBSET Codes, fresh: SUBSET Codes]]
         /\ lock' = {}
         /\ codes' = tx[r].fresh /\ TransactionsOK'
         /\ CodesWorkOnce' /\ OneBatch' /\ (\A c \in codes' : c.batch <= lastBatch')
         /\ \A c \in Codes :
              c \in codes' \/ c.batch > lastBatch' \/ (\E q \in Requests : c \in tx'[q].fresh)
                => accepted'[c] = 0
<1>1. TypeOK /\ TransactionsOK
  BY DEF TwoFactorInv
<1>2. lock = {r}
  BY <1>1 DEF TransactionsOK, TransactionOK, TypeOK, InTx
<1>3. codes' = tx[r].fresh
  BY <1>1 DEF Commit, TransactionsOK, TransactionOK
<1>4. tx' = [tx EXCEPT ![r] = NoTx] /\ lock' = {}
  BY <1>2 DEF Commit
<1>5. /\ tx' \in [Requests -> [gone: SUBSET Codes, fresh: SUBSET Codes]]
      /\ tx[r] \in [gone: SUBSET Codes, fresh: SUBSET Codes]
      /\ codes' \in SUBSET Codes
  BY <1>1, <1>3, <1>4, NoTxType DEF TypeOK
<1>6. user' \in User
  <2>1. user.secret \in Secrets \cup {NoSecret}
    BY <1>1 DEF TypeOK, User
  <2>. QED  BY <1>1, <2>1 DEF Commit, TypeOK, User
<1>7. \A c, d \in codes' : c.batch = lastBatch /\ d.batch = lastBatch
  <2>1. CASE kind[r] = "confirm"
    <3>1. codes' = [batch: {lastBatch}, index: Indexes]
      BY <1>1, <1>3, <2>1 DEF TransactionsOK, TransactionOK
    <3>. QED  BY <3>1, BatchOf
  <2>2. CASE kind[r] # "confirm"
    BY <1>1, <1>3, <2>2 DEF TransactionsOK, TransactionOK
  <2>. QED  BY <2>1, <2>2
<1>8. \A q \in Requests : tx'[q].fresh = {}
  <2>1. \A q \in Requests : q # r => tx[q] = NoTx
    BY <1>1, <1>2 DEF TransactionsOK, TransactionOK
  <2>. QED  BY <1>1, <1>4, <2>1 DEF TypeOK, NoTx
<1>9. TransactionsOK'
  <2>1. ASSUME NEW q \in Requests PROVE TransactionOK(q)'
    <3>1. tx'[q] = NoTx
      BY <1>1, <1>2, <1>4 DEF TransactionsOK, TransactionOK, TypeOK
    <3>2. pc'[q] \notin InTx /\ (pc'[q] = "enable" => kind'[q] = "confirm")
          /\ (pc'[q] = "disable" => kind'[q] = "disable")
      BY <1>1, <1>2, AnswerType DEF TransactionsOK, TransactionOK, TypeOK
    <3>. QED  BY <1>4, <1>8, <3>1, <3>2 DEF TransactionOK, InTx
  <2>. QED  BY <1>4, <2>1 DEF TransactionsOK
<1>10. CodesWorkOnce' /\ OneBatch' /\ \A c \in codes' : c.batch <= lastBatch'
  <2>1. lastBatch \in Nat
    BY <1>1, TwoFactorAssumption DEF TypeOK
  <2>2. \A c \in codes' : c.batch <= lastBatch
    BY <1>7, <2>1
  <2>. QED  BY <1>7, <2>2 DEF OneBatch, TwoFactorInv, CodesWorkOnce, counters
<1>11. ASSUME NEW c \in Codes,
              c \in codes' \/ c.batch > lastBatch' \/ (\E q \in Requests : c \in tx'[q].fresh)
       PROVE  accepted'[c] = 0
  BY <1>3, <1>8, <1>11 DEF TwoFactorInv, counters
<1>. QED  BY <1>3, <1>4, <1>5, <1>6, <1>9, <1>10, <1>11

\* A rollback keeps the invariant,
LEMMA RollbackKeeps ==
  ASSUME TwoFactorInv, NEW r \in Requests, NEW a \in Answers,
         Rollback(r), Answer(r, a), UNCHANGED <<tables, counters, owner, accepted>>
  PROVE  TwoFactorInv'
<1>1. TypeOK /\ TransactionsOK
  BY DEF TwoFactorInv
<1>. USE DEF tables, counters, owner
<1>2. /\ tx' = [tx EXCEPT ![r] = NoTx] /\ lock' = lock \ {r}
      /\ UNCHANGED <<user, codes, lastBatch, accepted>>
  BY DEF Rollback
<1>3. TypeOK'
  BY <1>1, <1>2, AnswerType, NoTxType DEF TypeOK
<1>4. \A q \in Requests : q # r => pc'[q] = pc[q] /\ kind'[q] = kind[q] /\ tx'[q] = tx[q]
  BY <1>1, <1>2, AnswerType DEF TypeOK
<1>5. pc'[r] \notin InTx \cup {"enable", "disable"} /\ tx'[r] = NoTx
  BY <1>1, <1>2, AnswerType DEF TypeOK
<1>6. TransactionsOK'
  <2>1. TransactionOK(r)'
    BY <1>2, <1>5 DEF TransactionOK, InTx, NoTx
  <2>2. ASSUME NEW q \in Requests, q # r PROVE TransactionOK(q)'
    BY <1>1, <1>2, <1>4, <2>2 DEF TransactionsOK, TransactionOK
  <2>. QED  BY <1>1, <1>2, <2>1, <2>2 DEF TransactionsOK
<1>7. \A q \in Requests : tx'[q].fresh \subseteq tx[q].fresh
  BY <1>4, <1>5 DEF NoTx
<1>. QED
  BY <1>2, <1>3, <1>6, <1>7 DEF TwoFactorInv, CodesWorkOnce, OneBatch

\* and so does each statement of the two switches,
LEMMA UpdateUserKeeps ==
  ASSUME TwoFactorInv, NEW r \in Requests, UpdateUser(r) PROVE TwoFactorInv'
<1>1. TypeOK /\ TransactionsOK /\ TransactionOK(r)
  BY DEF TwoFactorInv, TransactionsOK
<1>. USE DEF tables, counters, owner, request
<1>2. /\ lock' = {r} /\ pc' = [pc EXCEPT ![r] = "clear"]
      /\ pc[r] \in {"enable", "disable"} /\ Runs(r)
      /\ UNCHANGED <<user, codes, lastBatch, kind, tx, accepted>>
  BY DEF UpdateUser, Goto
<1>3. TypeOK'
  BY <1>1 DEF UpdateUser, Goto, TypeOK, Statements, InTx
<1>4. lock = {}
  <2>1. \A q \in Requests : q \in lock => q = r
    BY <1>2 DEF Runs, Waits
  <2>. QED  BY <1>1, <1>2, <2>1 DEF TransactionOK, TypeOK, InTx
<1>5. ASSUME NEW q \in Requests PROVE TransactionOK(q)'
  <2>1. CASE q = r
    BY <1>1, <1>2, <1>4, <2>1 DEF TransactionOK, TypeOK, InTx, NoTx
  <2>2. CASE q # r
    <3>1. TransactionOK(q) /\ pc'[q] = pc[q] /\ q \notin lock'
      BY <1>1, <1>2, <2>2 DEF TransactionsOK, TypeOK
    <3>. QED  BY <1>2, <1>4, <3>1 DEF TransactionOK
  <2>. QED  BY <2>1, <2>2
<1>. QED
  BY <1>2, <1>3, <1>5 DEF TwoFactorInv, TransactionsOK, CodesWorkOnce, OneBatch

\* the deletion of the old codes,
LEMMA ClearCodesKeeps ==
  ASSUME TwoFactorInv, NEW r \in Requests, ClearCodes(r) PROVE TwoFactorInv'
<1>1. TypeOK /\ TransactionsOK /\ TransactionOK(r)
  BY DEF TwoFactorInv, TransactionsOK
<1>. USE DEF tables, counters, owner, request
<1>2. /\ pc[r] = "clear" /\ tx' = [tx EXCEPT ![r].gone = codes]
      /\ pc' = [pc EXCEPT ![r] = IF kind[r] = "confirm" THEN "insert" ELSE "commit"]
      /\ UNCHANGED <<user, codes, lastBatch, kind, lock, accepted>>
  BY DEF ClearCodes, Goto, OldCodes
<1>3. TypeOK'
  BY <1>1 DEF ClearCodes, Goto, OldCodes, TypeOK, Statements, InTx
<1>4. /\ tx'[r].gone = codes /\ \A q \in Requests : tx'[q].fresh = tx[q].fresh
      /\ \A q \in Requests : q # r => tx'[q] = tx[q]
  BY <1>1, <1>2 DEF TypeOK
<1>5. ASSUME NEW q \in Requests PROVE TransactionOK(q)'
  <2>1. CASE q = r
    BY <1>1, <1>2, <1>4, <2>1 DEF TransactionOK, TypeOK, InTx
  <2>2. CASE q # r
    <3>1. TransactionOK(q) /\ pc'[q] = pc[q] /\ tx'[q] = tx[q]
      BY <1>1, <1>2, <1>4, <2>2 DEF TransactionsOK, TypeOK
    <3>. QED  BY <1>2, <3>1 DEF TransactionOK
  <2>. QED  BY <2>1, <2>2
<1>. QED
  BY <1>1, <1>2, <1>3, <1>4, <1>5 DEF TwoFactorInv, TransactionsOK, CodesWorkOnce, OneBatch

\* the insertion of the new ones,
LEMMA InsertCodesKeeps ==
  ASSUME TwoFactorInv, NEW r \in Requests, InsertCodes(r) PROVE TwoFactorInv'
<1>1. TypeOK /\ TransactionsOK /\ TransactionOK(r) /\ lastBatch \in Nat
  BY TwoFactorAssumption DEF TwoFactorInv, TransactionsOK, TypeOK
<1>. USE DEF tables, counters, owner, request
<1>2. /\ pc[r] = "insert" /\ lastBatch < MaxBatch /\ lastBatch' = lastBatch + 1
      /\ tx' = [tx EXCEPT ![r].fresh = [batch: {lastBatch + 1}, index: Indexes]]
      /\ pc' = [pc EXCEPT ![r] = "commit"]
      /\ UNCHANGED <<user, codes, kind, lock, accepted>>
  BY DEF InsertCodes, Goto
<1>3. lastBatch + 1 \in 1 .. MaxBatch
  BY <1>1, <1>2, TwoFactorAssumption
<1>4. [batch: {lastBatch + 1}, index: Indexes] \in SUBSET Codes
  BY <1>3, BatchType
<1>5. TypeOK'
  <2>1. tx' \in [Requests -> [gone: SUBSET Codes, fresh: SUBSET Codes]]
    BY <1>1, <1>2, <1>4 DEF TypeOK
  <2>2. pc' \in [Requests -> Statements \cup Answers]
    BY <1>1, <1>2 DEF TypeOK, Statements, InTx
  <2>3. lastBatch' \in 0 .. MaxBatch
    BY <1>2, <1>3
  <2>. QED  BY <1>1, <2>1, <2>2, <2>3 DEF InsertCodes, TypeOK
<1>6. /\ tx'[r].fresh = [batch: {lastBatch + 1}, index: Indexes]
      /\ tx'[r].gone = tx[r].gone
      /\ \A q \in Requests : q # r => tx'[q] = tx[q] /\ tx[q].fresh = {}
  <2>1. ASSUME NEW q \in Requests, q # r PROVE tx'[q] = tx[q] /\ tx[q].fresh = {}
    <3>1. q \notin lock
      BY <1>1, <1>2, <2>1 DEF TransactionsOK, TransactionOK, TypeOK, InTx
    <3>. QED  BY <1>1, <1>2, <2>1, <3>1 DEF TransactionsOK, TransactionOK, TypeOK, NoTx
  <2>2. tx[r] \in [gone: SUBSET Codes, fresh: SUBSET Codes]
    BY <1>1 DEF TypeOK
  <2>. QED  BY <1>1, <1>2, <2>1, <2>2 DEF TypeOK
<1>7. \A c \in codes : c.batch \in Nat /\ c.batch < lastBatch + 1
  <2>1. \A c \in codes : c.batch \in Nat /\ c.batch <= lastBatch
    BY DEF TwoFactorInv, TypeOK, Codes
  <2>. QED  BY <1>1, <2>1
<1>8. ASSUME NEW q \in Requests PROVE TransactionOK(q)'
  <2>1. CASE q = r
    BY <1>1, <1>2, <1>6, <1>7, <2>1 DEF TransactionOK, TypeOK, InTx
  <2>2. CASE q # r
    <3>1. TransactionOK(q) /\ pc'[q] = pc[q] /\ tx'[q] = tx[q] /\ pc[q] # "commit"
      BY <1>1, <1>2, <1>6, <2>2 DEF TransactionsOK, TransactionOK, TypeOK, InTx
    <3>. QED  BY <1>2, <3>1 DEF TransactionOK
  <2>. QED  BY <2>1, <2>2
<1>9. ASSUME NEW c \in Codes,
             c \in codes \/ c.batch > lastBatch' \/ (\E q \in Requests : c \in tx'[q].fresh)
      PROVE  accepted'[c] = 0
  <2>1. c.batch \in Nat
    BY DEF Codes
  <2>2. c \in codes \/ c.batch > lastBatch
    <3>1. CASE c.batch > lastBatch'
      BY <1>1, <1>2, <2>1, <3>1
    <3>2. ASSUME NEW q \in Requests, c \in tx'[q].fresh PROVE c.batch > lastBatch
      <4>1. q = r
        BY <1>6, <3>2
      <4>2. c.batch = lastBatch + 1
        BY <1>6, <3>2, <4>1, BatchOf
      <4>. QED  BY <1>1, <4>2
    <3>. QED  BY <1>9, <3>1, <3>2
  <2>. QED  BY <1>2, <2>2 DEF TwoFactorInv
<1>. QED
  BY <1>1, <1>2, <1>5, <1>7, <1>8, <1>9
     DEF TwoFactorInv, TransactionsOK, CodesWorkOnce, OneBatch

-----------------------------------------------------------------------------
(* Every step keeps the invariant.                                         *)

\* a new request,
LEMMA BeginKeeps ==
  ASSUME TwoFactorInv, NEW r \in Requests, Begin(r) PROVE TwoFactorInv'
<1>1. TypeOK
  BY DEF TwoFactorInv
<1>. USE DEF tables, counters, owner, request
<1>2. PICK k \in Kinds :
        /\ kind' = [kind EXCEPT ![r] = k]
        /\ pc' = [pc EXCEPT ![r] =
                    CASE k = "start" -> IF user.enabled THEN "refused" ELSE "setPending"
                      [] k = "login" -> IF user.enabled THEN "second" ELSE "in"
                      [] OTHER -> "reload"]
  BY DEF Begin
<1>3. pc'[r] \in {"refused", "setPending", "second", "in", "reload"}
  BY <1>1, <1>2 DEF TypeOK, Kinds
<1>4. TypeOK'
  BY <1>1, <1>2, <1>3 DEF Begin, TypeOK, Statements, Answers
<1>5. Plain(r)
  BY <1>1, <1>2, <1>3 DEF Begin, Plain, TypeOK, Answers, InTx
<1>. QED  BY <1>4, <1>5, PlainKeeps DEF Begin

\* a new enrollment,
LEMMA SetPendingKeeps ==
  ASSUME TwoFactorInv, NEW r \in Requests, SetPending(r) PROVE TwoFactorInv'
<1>1. TypeOK
  BY DEF TwoFactorInv
<1>. USE DEF tables, counters, owner, request
<1>2. lastSecret + 1 \in Secrets /\ lastSecret + 1 \in 0 .. MaxSecret
  BY <1>1, TwoFactorAssumption DEF SetPending, TypeOK, Secrets
<1>3. /\ Answer(r, "done") /\ "done" \in Answers
      /\ user' = [secret |-> lastSecret + 1, enabled |-> FALSE] /\ lastSecret' = lastSecret + 1
      /\ shown' = shown \cup {lastSecret + 1}
      /\ UNCHANGED <<codes, lastBatch, known, tx, lock, accepted>>
  BY DEF SetPending, Answers
<1>4. TypeOK'
  BY <1>1, <1>2, <1>3, AnswerType DEF TypeOK, User
<1>5. Plain(r)
  BY <1>1, <1>3, AnswerType DEF SetPending, Plain, InTx
<1>. QED  BY <1>3, <1>4, <1>5, PlainKeeps

\* a confirmation that reads its user,
LEMMA ReloadToConfirmKeeps ==
  ASSUME TwoFactorInv, NEW r \in Requests, ReloadToConfirm(r) PROVE TwoFactorInv'
<1>1. TypeOK
  BY DEF TwoFactorInv
<1>. USE DEF tables, counters, owner, request
<1>2. /\ pc[r] \notin InTx /\ kind[r] = "confirm"
      /\ UNCHANGED <<user, codes, lastSecret, lastBatch, known, tx, lock, accepted>>
  BY DEF ReloadToConfirm, InTx
<1>3. shown' \in SUBSET Secrets
  <2>1. user.secret # NoSecret => user.secret \in Secrets
    BY <1>1 DEF TypeOK, User
  <2>. QED  BY <1>1, <2>1 DEF ReloadToConfirm, TypeOK
<1>4. CASE Answer(r, "refused")
  <2>1. "refused" \in Answers
    BY DEF Answers
  <2>2. TypeOK'
    BY <1>1, <1>2, <1>3, <1>4, <2>1, AnswerType DEF TypeOK
  <2>3. Plain(r)
    BY <1>1, <1>2, <1>4, <2>1, AnswerType DEF Plain
  <2>. QED  BY <1>2, <2>2, <2>3, PlainKeeps
<1>5. CASE Goto(r, "enable") /\ UNCHANGED request
  <2>1. TypeOK'
    BY <1>1, <1>2, <1>3, <1>5 DEF TypeOK, Goto, Statements
  <2>2. Plain(r)
    BY <1>1, <1>2, <1>5 DEF Plain, Goto, TypeOK, InTx
  <2>. QED  BY <1>2, <2>1, <2>2, PlainKeeps
<1>. QED  BY <1>4, <1>5 DEF ReloadToConfirm

\* a second factor that is looked at,
LEMMA FactorKeeps ==
  ASSUME TwoFactorInv, NEW r \in Requests, pc[r] \notin InTx,
         NEW pass \in {"disable", "in"}, pass = "disable" => kind[r] = "disable",
         Factor(r, pass)
  PROVE  TwoFactorInv'
<1>1. TypeOK
  BY DEF TwoFactorInv
<1>. USE DEF tables, counters, owner, request
<1>2. PICK l \in {"error", "refused", pass, "consume"} : Goto(r, l)
  BY DEF Factor
<1>3. l \notin InTx /\ l # "enable" /\ (l = "disable" => kind[r] = "disable")
  BY <1>2 DEF InTx
<1>4. entered' \in [Requests -> Codes \cup {NoCode}]
  BY <1>1 DEF Factor, TypeOK
<1>5. UNCHANGED <<user, codes, lastSecret, lastBatch, shown, known, kind, tx, lock,
                  accepted>>
  BY DEF Factor
<1>6. TypeOK'
  BY <1>1, <1>2, <1>4, <1>5 DEF TypeOK, Goto, Statements, Answers
<1>7. Plain(r)
  BY <1>1, <1>2, <1>3, <1>5 DEF Plain, Goto, TypeOK
<1>. QED  BY <1>5, <1>6, <1>7, PlainKeeps

\* a recovery code that is used,
LEMMA ConsumeStepKeeps ==
  ASSUME TwoFactorInv, NEW r \in Requests, Consume(r) PROVE TwoFactorInv'
<1>1. TypeOK
  BY DEF TwoFactorInv
<1>. USE DEF tables, counters, owner, request
<1>2. /\ pc[r] \notin InTx /\ codes' = codes \ {entered[r]}
      /\ UNCHANGED <<user, lastSecret, lastBatch, shown, known, kind, entered, tx, lock>>
  BY DEF Consume, InTx
<1>3. PICK l \in {"disable", "in", "refused"} :
        Goto(r, l) /\ (l = "disable" => kind[r] = "disable")
  BY DEF Consume
<1>4. l \in Statements \cup Answers /\ l \notin InTx /\ l # "enable"
  BY <1>3 DEF Statements, Answers, InTx
<1>5. Plain(r)
  BY <1>1, <1>2, <1>3, <1>4 DEF Plain, Goto, TypeOK
<1>6. accepted' \in [Codes -> Nat]
  BY <1>1 DEF Consume, Matched, TypeOK
<1>7. TypeOK'
  BY <1>1, <1>2, <1>3, <1>4, <1>6 DEF TypeOK, Goto
<1>8. CASE Matched(r)
  BY <1>2, <1>5, <1>7, <1>8, ConsumeKeeps DEF Consume, Matched
<1>9. CASE ~Matched(r)
  BY <1>5, <1>7, <1>9, PlainKeeps DEF Consume
<1>. QED  BY <1>8, <1>9

\* a commit,
LEMMA CommitStepKeeps ==
  ASSUME TwoFactorInv, NEW r \in Requests, NEW a \in Answers, pc[r] = "commit",
         Commit(r), Answer(r, a), UNCHANGED <<counters, shown, accepted>>,
         known' \in {known, known \cup tx[r].fresh}
  PROVE  TwoFactorInv'
<1>1. TypeOK
  BY DEF TwoFactorInv
<1>2. known' \in SUBSET Codes
  BY <1>1 DEF TypeOK
<1>3. TypeOK'
  BY <1>1, <1>2, CommitKeeps, AnswerType DEF TypeOK, counters
<1>. QED  BY <1>3, CommitKeeps DEF TwoFactorInv

\* and a commit whose answer is lost.
LEMMA LostAckKeeps ==
  ASSUME TwoFactorInv, NEW r \in Requests, LostAck(r) PROVE TwoFactorInv'
<1>1. TypeOK /\ "error" \in Answers /\ Answer(r, "error")
  BY DEF TwoFactorInv, LostAck, Answers
<1>2. UNCHANGED <<shown, known, accepted>>
  BY DEF LostAck, owner
<1>. USE DEF counters
<1>3. CASE pc[r] = "commit" /\ Commit(r) /\ UNCHANGED counters
  BY <1>1, <1>2, <1>3, CommitStepKeeps
<1>4. CASE /\ pc[r] = "setPending" /\ lastSecret < MaxSecret
           /\ lastSecret' = lastSecret + 1
           /\ user' = [secret |-> lastSecret + 1, enabled |-> FALSE]
           /\ UNCHANGED <<codes, lastBatch, tx, lock>>
  <2>1. lastSecret + 1 \in Secrets /\ lastSecret + 1 \in 0 .. MaxSecret
    BY <1>1, <1>4, TwoFactorAssumption DEF TypeOK, Secrets
  <2>2. TypeOK'
    BY <1>1, <1>2, <1>4, <2>1, AnswerType DEF TypeOK, User
  <2>3. Plain(r)
    BY <1>1, <1>4, AnswerType DEF Plain, InTx
  <2>. QED  BY <1>2, <2>2, <2>3, PlainKeeps
<1>5. CASE /\ pc[r] = "consume" /\ codes' = codes \ {entered[r]}
           /\ UNCHANGED <<user, counters, tx, lock>>
  <2>1. TypeOK'
    BY <1>1, <1>2, <1>5, AnswerType DEF TypeOK
  <2>2. Plain(r)
    BY <1>1, <1>5, AnswerType DEF Plain, InTx
  <2>. QED  BY <1>2, <2>1, <2>2, PlainKeeps
<1>. QED  BY <1>3, <1>4, <1>5 DEF LostAck

\* Every step keeps the invariant.
LEMMA TwoFactorInductive == TwoFactorInv /\ [Next]_vars => TwoFactorInv'
<1>. SUFFICES ASSUME TwoFactorInv, [Next]_vars PROVE TwoFactorInv'
  OBVIOUS
<1>1. ASSUME NEW r \in Requests, SetPending(r) \/ ReloadToConfirm(r) \/ Begin(r)
      PROVE  TwoFactorInv'
  BY <1>1, SetPendingKeeps, ReloadToConfirmKeeps, BeginKeeps
<1>2. ASSUME NEW r \in Requests, ReloadToDisable(r) PROVE TwoFactorInv'
  BY <1>2, FactorKeeps DEF ReloadToDisable, InTx
<1>3. ASSUME NEW r \in Requests, SecondFactor(r) PROVE TwoFactorInv'
  BY <1>3, FactorKeeps DEF SecondFactor, InTx
<1>4. ASSUME NEW r \in Requests, Consume(r) PROVE TwoFactorInv'
  BY <1>4, ConsumeStepKeeps
<1>5. ASSUME NEW r \in Requests, UpdateUser(r) \/ ClearCodes(r) \/ InsertCodes(r)
      PROVE  TwoFactorInv'
  BY <1>5, UpdateUserKeeps, ClearCodesKeeps, InsertCodesKeeps
<1>6. ASSUME NEW r \in Requests, CommitTx(r) PROVE TwoFactorInv'
  <2>1. "done" \in Answers
    BY DEF Answers
  <2>. QED  BY <1>6, <2>1, CommitStepKeeps DEF CommitTx
<1>7. ASSUME NEW r \in Requests, OutOfBounds(r) \/ Fail(r) PROVE TwoFactorInv'
  <2>1. "error" \in Answers
    BY DEF Answers
  <2>. QED  BY <1>7, <2>1, RollbackKeeps DEF OutOfBounds, Fail, Abandon
<1>8. ASSUME NEW r \in Requests, LostAck(r) PROVE TwoFactorInv'
  BY <1>8, LostAckKeeps
<1>9. CASE UNCHANGED vars
  BY <1>9 DEF vars, TwoFactorInv, TypeOK, TransactionsOK, TransactionOK, CodesWorkOnce, OneBatch
<1>. QED
  BY <1>1, <1>2, <1>3, <1>4, <1>5, <1>6, <1>7, <1>8, <1>9 DEF Next, Step

\* internal/store/users.go: at all times one transaction at most has the account,
\* and what it will commit are codes nobody can have used.
THEOREM TwoFactorInvariant == Spec => []TwoFactorInv
BY InitTwoFactor, TwoFactorInductive, PTL DEF Spec

\* ConsumeRecoveryCode: no recovery code is accepted twice, whoever sends it and
\* however the logins, disablings and re-enrollments interleave or fail.
THEOREM RecoveryCodesWorkOnce == Spec => []CodesWorkOnce
<1>1. TwoFactorInv => CodesWorkOnce
  BY DEF TwoFactorInv
<1>. QED  BY TwoFactorInvariant, <1>1, PTL

\* EnableTOTP: the codes of two enrollments are never valid together.
THEOREM OneEnrollmentAtATime == Spec => []OneBatch
<1>1. TwoFactorInv => OneBatch
  BY DEF TwoFactorInv
<1>. QED  BY TwoFactorInvariant, <1>1, PTL

-----------------------------------------------------------------------------
(* The switches of EnableTOTP and DisableTOTP.                             *)

Switch ==
  /\ ~user.enabled /\ user'.enabled =>
       codes' = [batch: {lastBatch}, index: Indexes] /\ codes \cap codes' = {}
  /\ user.secret # NoSecret /\ user'.secret = NoSecret => codes' = {}

\* A commit changes the switch and the codes together,
LEMMA CommitSwitches ==
  ASSUME TwoFactorInv, NEW r \in Requests, pc[r] = "commit", Commit(r) PROVE Switch
<1>1. TypeOK /\ TransactionsOK /\ TransactionOK(r) /\ lastBatch \in Nat
  BY TwoFactorAssumption DEF TwoFactorInv, TransactionsOK, TypeOK
<1>2. codes' = tx[r].fresh
  BY <1>1 DEF Commit, TransactionOK
<1>3. CASE kind[r] = "confirm"
  <2>1. /\ tx[r].fresh = [batch: {lastBatch}, index: Indexes]
        /\ \A c \in codes : c.batch < lastBatch
    BY <1>1, <1>3 DEF TransactionOK
  <2>2. user'.secret = user.secret
    BY <1>1, <1>3 DEF Commit, TypeOK, User
  <2>3. codes \cap codes' = {}
    <3>1. \A c \in codes' : c.batch = lastBatch
      BY <1>2, <2>1, BatchOf
    <3>. QED  BY <1>1, <2>1, <3>1
  <2>. QED  BY <1>2, <2>1, <2>2, <2>3 DEF Switch
<1>4. CASE kind[r] # "confirm"
  <2>1. tx[r].fresh = {}
    BY <1>1, <1>4 DEF TransactionOK
  <2>2. user'.enabled = FALSE
    BY <1>4 DEF Commit
  <2>. QED  BY <1>2, <2>1, <2>2 DEF Switch
<1>. QED  BY <1>3, <1>4

\* and nothing else changes either.
LEMMA StepSwitches == TwoFactorInv /\ [Next]_vars => [Switch]_tables
<1>. SUFFICES ASSUME TwoFactorInv, [Next]_vars PROVE Switch \/ UNCHANGED tables
  OBVIOUS
<1>1. ASSUME user' = user PROVE Switch
  BY <1>1 DEF Switch
<1>2. ASSUME NEW r \in Requests, CommitTx(r) PROVE Switch
  BY <1>2, CommitSwitches DEF CommitTx
<1>3. ASSUME user'.enabled = FALSE, user'.secret # NoSecret PROVE Switch
  BY <1>3 DEF Switch
<1>4. lastSecret + 1 # NoSecret
  BY TwoFactorAssumption DEF TwoFactorInv, TypeOK, NoSecret
<1>5. ASSUME NEW r \in Requests, SetPending(r) PROVE Switch
  BY <1>3, <1>4, <1>5 DEF SetPending
<1>6. ASSUME NEW r \in Requests, LostAck(r) PROVE Switch
  <2>1. CASE pc[r] = "commit" /\ Commit(r)
    BY <2>1, CommitSwitches
  <2>2. CASE user' = [secret |-> lastSecret + 1, enabled |-> FALSE]
    BY <1>3, <1>4, <2>2
  <2>3. CASE UNCHANGED user
    BY <1>1, <2>3
  <2>. QED  BY <1>6, <2>1, <2>2, <2>3 DEF LostAck
<1>7. ASSUME NEW r \in Requests,
             \/ Begin(r) \/ ReloadToConfirm(r) \/ ReloadToDisable(r) \/ SecondFactor(r)
             \/ Consume(r) \/ UpdateUser(r) \/ ClearCodes(r) \/ InsertCodes(r)
             \/ OutOfBounds(r) \/ Fail(r)
      PROVE  user' = user
  BY <1>7 DEF Begin, ReloadToConfirm, ReloadToDisable, SecondFactor, Factor, Consume,
       UpdateUser, ClearCodes, InsertCodes, OutOfBounds, Fail, tables
<1>8. CASE UNCHANGED vars
  BY <1>8 DEF vars, tables
<1>. QED  BY <1>1, <1>2, <1>5, <1>6, <1>7, <1>8 DEF Next, Step

\* EnableTOTP and DisableTOTP: the switch of 2FA and the recovery codes change in
\* one step, at every point a statement may fail or its outcome may be lost.
THEOREM SwitchesWithItsCodes == Spec => SwitchesAreAtomic
<1>1. TwoFactorInv /\ [Next]_vars =>
        [/\ ~user.enabled /\ user'.enabled =>
              codes' = [batch: {lastBatch}, index: Indexes] /\ codes \cap codes' = {}
         /\ user.secret # NoSecret /\ user'.secret = NoSecret => codes' = {}]_tables
  BY StepSwitches DEF Switch
<1>. QED  BY TwoFactorInvariant, <1>1, PTL DEF Spec, SwitchesAreAtomic

=============================================================================

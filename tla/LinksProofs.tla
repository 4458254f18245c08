---------------------------- MODULE LinksProofs ----------------------------
(***************************************************************************)
(* Proofs about Links for any number of requests, users, codes and links,  *)
(* on both databases, with and without failures.                           *)
(***************************************************************************)
EXTENDS Links, TLAPS

USE DEF Ids, NoId

-----------------------------------------------------------------------------
(* Types.                                                                  *)

\* What the operators that end or continue a request do to its variables.
LEMMA GotoType ==
  ASSUME TypeOK, NEW r \in Requests, NEW l \in Statements \cup Answers, Goto(r, l)
  PROVE  /\ pc' \in [Requests -> Statements \cup Answers]
BY DEF TypeOK, Goto

\* The placeholders are typed.
LEMMA NothingTypes ==
  /\ NoOp \in Op /\ NoLink \in Seen /\ NoTx \in Tx
  /\ NoRow \in Row
BY LinksAssumption DEF NoOp, Op, AllKinds, NoLink, Seen, NoTx, Tx, NoRow, Row

\* The same of the other steps of a request: its answer,
LEMMA AnswerType ==
  ASSUME TypeOK, NEW r \in Requests, NEW a \in Answers, Answer(r, a)
  PROVE  /\ pc' \in [Requests -> Statements \cup Answers]
         /\ op' \in [Requests -> Op]
         /\ todo' \in [Requests -> SUBSET Ids]
         /\ batch' \in [Requests -> SUBSET (Ids \cup {NoId})]
         /\ seen' \in [Requests -> Seen]
BY NothingTypes DEF TypeOK, Answer

\* a rollback,
LEMMA RollbackType ==
  ASSUME TypeOK, NEW r \in Requests, Rollback(r)
  PROVE  /\ live' \subseteq Ids /\ row' \in [Ids -> Row] /\ lastId' \in Ids \cup {0}
         /\ clicks' \in [Ids -> Nat] /\ conn' \subseteq Requests /\ tx' \in [Requests -> Tx]
BY NothingTypes DEF TypeOK, Rollback, tables

\* taking the connection,
LEMMA AcquireType ==
  ASSUME TypeOK, NEW r \in Requests, Acquire(r)
  PROVE  conn' \subseteq Requests
BY DEF TypeOK, Acquire

\* a commit,
LEMMA CommitType ==
  ASSUME TypeOK, NEW r \in Requests, Commit(r),
         \A i \in Ids : tx[r].wiped[i] <= clicks[i]
  PROVE  /\ live' \subseteq Ids /\ row' \in [Ids -> Row] /\ lastId' \in Ids \cup {0}
         /\ clicks' \in [Ids -> Nat] /\ conn' \subseteq Requests /\ tx' \in [Requests -> Tx]
<1>1. tx[r] \in Tx
  BY DEF TypeOK
<1>2. clicks' \in [Ids -> Nat]
  <2>1. \A i \in Ids : clicks[i] \in Nat /\ tx[r].wiped[i] \in Nat
    BY <1>1 DEF TypeOK, Tx
  <2>2. \A i \in Ids : clicks[i] - tx[r].wiped[i] \in Nat
    BY <2>1
  <2>. QED  BY <2>2 DEF Commit
<1>3. row' \in [Ids -> Row]
  <2>1. ASSUME NEW i \in Ids
        PROVE  /\ row[i] \in Row
               /\ [row[i] EXCEPT !.hits = tx[r].hits] \in Row
               /\ [row[i] EXCEPT !.enabled = tx[r].on] \in Row
    <3>0. tx[r].hits \in Nat /\ tx[r].on \in BOOLEAN
      BY <1>1 DEF Tx
    <3>1. row[i] \in Row
      BY DEF TypeOK
    <3>2. [row[i] EXCEPT !.hits = tx[r].hits] \in Row
      BY <3>0, <3>1 DEF Row
    <3>3. [row[i] EXCEPT !.enabled = tx[r].on] \in Row
      BY <3>0, <3>1 DEF Row
    <3>. QED  BY <3>1, <3>2, <3>3
  <2>. QED  BY <2>1 DEF Commit
<1>. QED  BY <1>1, <1>2, <1>3, NothingTypes DEF TypeOK, Commit

\* a new request,
LEMMA StartType ==
  ASSUME TypeOK, NEW r \in Requests, NEW o \in Op, NEW l \in Statements, Start(r, o, l)
  PROVE  TypeOK'
BY GotoType DEF TypeOK, Start, NoCommit

\* a row read,
LEMMA ReadType ==
  ASSUME TypeOK, NEW r \in Requests, NEW i \in live, Read(r, i)
  PROVE  seen' \in [Requests -> Seen]
BY DEF TypeOK, Read, Seen, Row

\* and the next batch of a bulk delete.
LEMMA NextBatchType ==
  ASSUME TypeOK, NEW r \in Requests, NextBatch(r)
  PROVE  /\ pc' \in [Requests -> Statements \cup Answers]
         /\ op' \in [Requests -> Op]
         /\ todo' \in [Requests -> SUBSET Ids]
         /\ batch' \in [Requests -> SUBSET (Ids \cup {NoId})]
         /\ seen' \in [Requests -> Seen]
<1>1. "wipe" \in Statements
  BY DEF Statements, InTx, Deleting
<1>2. PICK B \in BatchOf(todo[r]) :
        /\ batch' = [batch EXCEPT ![r] = B]
        /\ todo' = [todo EXCEPT ![r] = @ \ B]
        /\ Goto(r, "wipe") /\ UNCHANGED <<op, seen>>
  BY DEF NextBatch
<1>3. B \subseteq Ids
  BY DEF BatchOf, TypeOK
<1>. QED  BY <1>1, <1>2, <1>3, GotoType DEF TypeOK

\* Types under each group of steps: new requests,
LEMMA BeginType == ASSUME TypeOK, NEW r \in Requests, Begin(r) PROVE TypeOK'
<1>. USE DEF Op, AllKinds, Statements, InTx, Deleting
<1>1. CASE BeginCreate(r)
  BY <1>1, StartType DEF BeginCreate
<1>2. CASE BeginRedirect(r)
  BY <1>2, StartType DEF BeginRedirect
<1>3. CASE BeginOwned(r)
  BY <1>3, StartType DEF BeginOwned
<1>4. CASE BeginBulk(r)
  <2>1. PICK u \in Users, S \in SUBSET (1 .. lastId) \ {{}} :
          /\ op' = [op EXCEPT ![r] = [kind |-> "bulk", user |-> u, code |-> NoCode,
                                      draft |-> FALSE, ids |-> S]]
          /\ todo' = [todo EXCEPT ![r] = S]
    BY <1>4 DEF BeginBulk
  <2>2. S \in SUBSET Ids
    <3>1. lastId \in Nat /\ lastId <= MaxId /\ MaxId \in Nat
      <4>1. MaxId \in Nat
        BY LinksAssumption
      <4>2. lastId \in Ids \cup {0}
        BY DEF TypeOK
      <4>. QED  BY <4>1, <4>2
    <3>. QED  BY <3>1
  <2>. QED  BY <1>4, <2>1, <2>2, GotoType DEF TypeOK, BeginBulk, NoCommit
<1>. QED  BY <1>1, <1>2, <1>3, <1>4 DEF Begin

\* creating a link,
LEMMA CreateStepType ==
  ASSUME TypeOK, NEW r \in Requests, CheckCustomCode(r) \/ GenerateCode(r) \/ Insert(r)
  PROVE  TypeOK'
<1>. USE DEF Statements, Answers, InTx, Deleting, NoCommit, request
<1>1. CASE CheckCustomCode(r)
  BY <1>1, GotoType, AnswerType DEF TypeOK, CheckCustomCode
<1>2. CASE GenerateCode(r)
  <2>1. \A c \in Codes : [op[r] EXCEPT !.code = c] \in Op
    BY DEF TypeOK, Op
  <2>. QED  BY <1>2, <2>1, GotoType, AnswerType DEF TypeOK, GenerateCode
<1>3. CASE Insert(r)
  <2>1. Answer(r, "refused") /\ UNCHANGED <<live, row, lastId>> => TypeOK'
    BY <1>3, AnswerType DEF TypeOK, Insert
  <2>2. op[r] \in Op
    BY DEF TypeOK
  <2>3. [code |-> op[r].code, owner |-> op[r].user, draft |-> op[r].draft,
         enabled |-> ~op[r].draft, hits |-> 0] \in Row
    BY <2>2 DEF Op, Row
  <2>4. ASSUME ~(Answer(r, "refused") /\ UNCHANGED <<live, row, lastId>>) PROVE TypeOK'
    <3>1. /\ live' = live \cup {NewId} /\ lastId' = NewId /\ NewId \in Ids
          /\ row' = [row EXCEPT ![NewId] =
                [code |-> op[r].code, owner |-> op[r].user, draft |-> op[r].draft,
                 enabled |-> ~op[r].draft, hits |-> 0]]
          /\ UNCHANGED <<clicks, conn, tx>> /\ Done(r)
      BY <1>3, <2>4 DEF Insert
    <3>2. PICK a \in {"done", "error"} : Answer(r, a)
      BY <3>1 DEF Done
    <3>. QED  BY <2>3, <3>1, <3>2, AnswerType DEF TypeOK
  <2>. QED  BY <2>1, <2>4
<1>. QED  BY <1>1, <1>2, <1>3

\* following one,
LEMMA RedirectStepType ==
  ASSUME TypeOK, TxInv, NEW r \in Requests,
         Lookup(r) \/ Touch(r) \/ InsertClick(r) \/ BumpCounter(r)
  PROVE  TypeOK'
<1>. USE DEF Statements, Answers, InTx, Deleting, NoCommit, request, tables
<1>1. CASE Lookup(r)
  BY <1>1, GotoType, AnswerType, ReadType DEF TypeOK, Lookup
<1>2. CASE Touch(r)
  BY <1>2, GotoType, AnswerType DEF TypeOK, Touch
<1>3. CASE InsertClick(r)
  <2>1. Target(r) \in live => [tx[r] EXCEPT !.ins = Target(r)] \in Tx
    BY DEF TypeOK, Tx
  <2>. QED  BY <1>3, <2>1, GotoType, AnswerType, AcquireType DEF TypeOK, InsertClick
<1>4. CASE BumpCounter(r)
  <2>0. Target(r) \in Ids /\ tx[r] \in Tx
    BY <1>4 DEF TypeOK, TxInv, BasisInv, BumpCounter, Target
  <2>1. row[Target(r)].hits + 1 \in Nat
    <3>1. row[Target(r)] \in Row
      BY <2>0 DEF TypeOK
    <3>. QED  BY <3>1 DEF Row
  <2>2. [tx[r] EXCEPT !.bump = Target(r), !.hits = row[Target(r)].hits + 1] \in Tx
    BY <2>0, <2>1 DEF Tx
  <2>3. tx' = [tx EXCEPT ![r] = [tx[r] EXCEPT !.bump = Target(r),
                                              !.hits = row[Target(r)].hits + 1]]
    BY <1>4 DEF BumpCounter
  <2>. QED  BY <1>4, <2>2, <2>3, GotoType DEF TypeOK, BumpCounter
<1>. QED  BY <1>1, <1>2, <1>3, <1>4

\* the changes of an owner,
LEMMA OwnedStepType ==
  ASSUME TypeOK, NEW r \in Requests,
         Load(r) \/ Update(r) \/ Publish(r) \/ TogglePostgres(r) \/ FlipInTx(r)
  PROVE  TypeOK'
<1>. USE DEF Statements, Answers, InTx, Deleting, NoCommit, request, tables
<1>0. op[r] \in Op /\ seen[r] \in Seen /\ Target(r) \in Ids \cup {NoId}
  BY DEF TypeOK, Target, Seen
<1>1. CASE Load(r)
  <2>1. CASE Answer(r, "refused")
    BY <1>1, <2>1, AnswerType DEF TypeOK, Load
  <2>2. CASE ~Answer(r, "refused")
    <3>1. PICK i \in live : Read(r, i) /\ Goto(r, AfterLoad(op[r].kind))
                              /\ UNCHANGED <<op, todo, batch>>
      BY <1>1, <2>2 DEF Load
    <3>2. AfterLoad(op[r].kind) \in Statements
      BY DEF AfterLoad
    <3>. QED  BY <1>1, <3>1, <3>2, GotoType, ReadType DEF TypeOK, Load
  <2>. QED  BY <2>1, <2>2
<1>2. CASE Update(r)
  <2>0. op[r].draft \in BOOLEAN
    BY <1>0 DEF Op
  <2>1. ASSUME NEW i \in Ids PROVE [row[i] EXCEPT !.draft = op[r].draft] \in Row
    <3>1. row[i] \in Row
      BY DEF TypeOK
    <3>. QED  BY <2>0, <3>1 DEF Row
  <2>2. row' \in [Ids -> Row]
    BY <1>2, <2>1 DEF TypeOK, Update
  <2>. QED  BY <1>2, <2>2, GotoType, AnswerType DEF TypeOK, Update
<1>3. CASE Publish(r)
  <2>1. \A i \in Ids : [[row[i] EXCEPT !.draft = FALSE] EXCEPT !.enabled = TRUE] \in Row
    BY DEF TypeOK, Row
  <2>2. row' \in [Ids -> Row]
    BY <1>3, <2>1 DEF TypeOK, Publish
  <2>3. PICK a \in {"done", "error"} : Answer(r, a)
    BY <1>3 DEF Publish, Done
  <2>. QED  BY <1>3, <2>2, <2>3, AnswerType DEF TypeOK, Publish
<1>4. CASE TogglePostgres(r)
  <2>1. ASSUME NEW i \in Ids PROVE [row[i] EXCEPT !.enabled = ToggledValue(r, i)] \in Row
    <3>1. row[i] \in Row
      BY DEF TypeOK
    <3>. QED  BY <3>1 DEF Row, ToggledValue
  <2>2. OnOff(ToggledValue(r, Target(r))) \in Answers
    BY DEF OnOff
  <2>3. row' \in [Ids -> Row]
    <3>1. CASE Target(r) \in live
      <4>1. row' = [row EXCEPT ![Target(r)] =
                      [row[Target(r)] EXCEPT !.enabled = ToggledValue(r, Target(r))]]
        BY <1>4, <3>1 DEF TogglePostgres
      <4>2. Target(r) \in Ids
        BY <3>1 DEF TypeOK
      <4>. QED  BY <2>1, <4>1, <4>2 DEF TypeOK
    <3>2. CASE Target(r) \notin live
      BY <1>4, <3>2 DEF TypeOK, TogglePostgres
    <3>. QED  BY <3>1, <3>2
  <2>4. CASE Target(r) \in live
    BY <1>4, <2>2, <2>3, <2>4, AnswerType DEF TypeOK, TogglePostgres
  <2>5. CASE Target(r) \notin live
    BY <1>4, <2>5, AnswerType DEF TypeOK, TogglePostgres
  <2>. QED  BY <2>4, <2>5
<1>5. CASE FlipInTx(r)
  <2>1. tx[r] \in Tx /\ ToggledValue(r, Target(r)) \in BOOLEAN
    BY DEF TypeOK, ToggledValue
  <2>2. [tx[r] EXCEPT !.flip = Target(r), !.on = ToggledValue(r, Target(r))] \in Tx
    BY <1>0, <2>1 DEF Tx
  <2>3. \/ tx' = tx
        \/ tx' = [tx EXCEPT ![r] = [tx[r] EXCEPT !.flip = Target(r),
                                                 !.on = ToggledValue(r, Target(r))]]
    BY <1>5 DEF FlipInTx
  <2>. QED  BY <1>5, <2>2, <2>3, GotoType, AcquireType DEF TypeOK, FlipInTx
<1>. QED  BY <1>1, <1>2, <1>3, <1>4, <1>5

\* and what ends a transaction or deletes.
LEMMA TxStepType ==
  ASSUME TypeOK, TxInv, NEW r \in Requests,
         \/ CommitClick(r) \/ ReadBack(r) \/ BeginDelete(r) \/ Wipe(r) \/ Drop(r)
         \/ CheckReferences(r) \/ CommitDelete(r) \/ LostAck(r)
  PROVE  TypeOK'
<1>. USE DEF Statements, Answers, InTx, Deleting, NoCommit, request, tables
<1>0. \A i \in Ids : tx[r].wiped[i] <= clicks[i]
  BY DEF TxInv, BasisInv
<1>1. CASE CommitClick(r)
  BY <1>0, <1>1, CommitType, AnswerType DEF TypeOK, CommitClick
<1>2. CASE ReadBack(r)
  <2>1. CASE Target(r) \in live
    <3>1. OnOff(tx[r].on) \in Answers
      BY DEF OnOff
    <3>. QED  BY <1>0, <1>2, <2>1, <3>1, CommitType, AnswerType DEF TypeOK, ReadBack
  <2>2. CASE Target(r) \notin live
    BY <1>2, <2>2, RollbackType, AnswerType DEF TypeOK, ReadBack
  <2>. QED  BY <2>1, <2>2
<1>3. CASE BeginDelete(r)
  <2>1. CASE op[r].kind = "bulk"
    BY <1>3, <2>1, NextBatchType, AcquireType DEF TypeOK, BeginDelete
  <2>2. CASE op[r].kind # "bulk"
    <3>1. Target(r) \in Ids \cup {NoId}
      BY DEF TypeOK, Target, Seen
    <3>2. /\ batch' = [batch EXCEPT ![r] = {Target(r)}]
          /\ Goto(r, "wipe") /\ Acquire(r)
          /\ UNCHANGED <<live, row, lastId, clicks, tx, op, todo, seen>>
      BY <1>3, <2>2 DEF BeginDelete
    <3>3. batch' \in [Requests -> SUBSET (Ids \cup {NoId})]
      BY <3>1, <3>2 DEF TypeOK
    <3>. QED  BY <3>2, <3>3, GotoType, AcquireType DEF TypeOK
  <2>. QED  BY <2>1, <2>2
<1>4. CASE Wipe(r)
  <2>1. tx[r] \in Tx /\ clicks \in [Ids -> Nat]
    BY DEF TypeOK
  <2>2. [tx[r] EXCEPT !.wiped = [i \in Ids |-> IF i \in Rows(r) THEN clicks[i] ELSE @[i]]] \in Tx
    BY <2>1 DEF Tx
  <2>. QED  BY <1>4, <2>2, GotoType DEF TypeOK, Wipe
<1>5. CASE Drop(r)
  <2>1. tx[r] \in Tx /\ Rows(r) \subseteq Ids
    BY DEF TypeOK, Rows
  <2>2. [tx[r] EXCEPT !.gone = @ \cup Rows(r)] \in Tx
    BY <2>1 DEF Tx
  <2>. QED  BY <1>5, <2>2, GotoType DEF TypeOK, Drop
<1>6. CASE CheckReferences(r)
  <2>1. CASE \E i \in Rows(r) : LeavesClicks(r, i)
    BY <1>6, <2>1, RollbackType, AnswerType DEF TypeOK, CheckReferences
  <2>2. CASE ~\E i \in Rows(r) : LeavesClicks(r, i)
    BY <1>6, <2>2, NextBatchType, GotoType DEF TypeOK, CheckReferences
  <2>. QED  BY <2>1, <2>2
<1>7. CASE CommitDelete(r)
  BY <1>0, <1>7, CommitType, AnswerType DEF TypeOK, CommitDelete
<1>8. CASE LostAck(r)
  BY <1>0, <1>8, CommitType, AnswerType DEF TypeOK, LostAck, FailureAnswer
<1>. QED  BY <1>1, <1>2, <1>3, <1>4, <1>5, <1>6, <1>7, <1>8

\* Every step keeps the types.
LEMMA NextType == ASSUME TypeOK, TxInv, [Next]_vars PROVE TypeOK'
<1>1. ASSUME NEW r \in Requests, Begin(r) PROVE TypeOK'
  BY <1>1, BeginType
<1>2. ASSUME NEW r \in Requests, Step(r) PROVE TypeOK'
  BY <1>2, CreateStepType, RedirectStepType, OwnedStepType, TxStepType DEF Step
<1>3. ASSUME NEW r \in Requests, DeadlockVictim(r) \/ Fail(r) PROVE TypeOK'
  <2>1. FailureAnswer(r) \in Answers
    BY DEF FailureAnswer, Answers
  <2>2. Rollback(r) /\ Answer(r, FailureAnswer(r))
    BY <1>3 DEF DeadlockVictim, Fail
  <2>. QED  BY <2>1, <2>2, RollbackType, AnswerType DEF TypeOK
<1>4. ASSUME NEW r \in Requests, LostAck(r) PROVE TypeOK'
  BY <1>4, TxStepType
<1>5. ASSUME UNCHANGED vars PROVE TypeOK'
  BY <1>5 DEF vars, TypeOK
<1>. QED  BY <1>1, <1>2, <1>3, <1>4, <1>5 DEF Next

-----------------------------------------------------------------------------
(* The inductive invariant.  Alone(r): a step of r leaves the local state   *)
(* and the transactions of the other requests as they are.                 *)

Alone(r) == \A q \in Requests \ {r} :
  /\ pc'[q] = pc[q] /\ op'[q] = op[q] /\ batch'[q] = batch[q]
  /\ seen'[q] = seen[q] /\ tx'[q] = tx[q]

Inv == TxInv /\ PoolInv /\ TablesInv

Clean(t) == /\ t.ins = NoId /\ t.bump = NoId /\ t.flip = NoId /\ t.gone = {}
            /\ \A i \in Ids : t.wiped[i] = 0

\* A request outside a transaction has written nothing.
LEMMA CleanOutside == ASSUME IndInv, NEW r \in Requests, pc[r] \notin InTx PROVE Clean(tx[r])
<1>1. WritesInv(r) /\ tx[r] \in Tx
  BY DEF IndInv, TxInv, TypeOK
<1>2. \A i \in Ids : tx[r].wiped[i] \in Nat
  BY <1>1 DEF Tx
<1>3. pc[r] \notin {"count", "commitClick", "readBack", "drop"} /\ pc[r] \notin Deleting
  BY DEF InTx, Deleting
<1>4. tx[r].ins = NoId /\ tx[r].bump = NoId /\ tx[r].flip = NoId /\ tx[r].gone = {}
  BY <1>1, <1>3 DEF WritesInv
<1>5. ASSUME NEW i \in Ids PROVE tx[r].wiped[i] = 0
  <2>1. ~(tx[r].wiped[i] > 0)
    BY <1>1, <1>3, <1>4 DEF WritesInv
  <2>. QED  BY <1>2, <2>1
<1>. QED  BY <1>4, <1>5 DEF Clean

\* A request with nothing written satisfies the invariant and is apart from all.
LEMMA CleanAfter ==
  ASSUME NEW r \in Requests, tx' \in [Requests -> Tx], clicks' \in [Ids -> Nat],
         Clean(tx'[r]), pc'[r] \notin InTx,
         pc'[r] \in {"checkCode", "insert"} => op'[r].code \in Codes
  PROVE  /\ WritesInv(r)' /\ BasisInv(r)'
         /\ \A q \in Requests \ {r} : ApartInv(q, r)' /\ ApartInv(r, q)'
<1>0. /\ tx'[r].ins = NoId /\ tx'[r].bump = NoId /\ tx'[r].flip = NoId
      /\ tx'[r].gone = {} /\ \A i \in Ids : tx'[r].wiped[i] = 0
  BY DEF Clean
<1>1. WritesInv(r)'
  <2>1. pc'[r] \notin {"count", "commitClick", "readBack", "drop"}
    BY DEF InTx, Deleting
  <2>2. ASSUME NEW i \in Ids PROVE ~(tx'[r].wiped[i] > 0)
    <3>1. tx'[r].wiped[i] = 0
      BY <1>0
    <3>. QED  BY <3>1
  <2>. QED  BY <1>0, <2>1, <2>2 DEF WritesInv
<1>2. BasisInv(r)'
  <2>1. ASSUME NEW i \in Ids PROVE tx'[r].wiped[i] <= clicks'[i]
    <3>1. clicks'[i] \in Nat
      OBVIOUS
    <3>2. tx'[r].wiped[i] = 0
      BY <1>0
    <3>. QED  BY <3>1, <3>2
  <2>2. pc'[r] \notin {"count", "commitClick", "readBack"}
    BY DEF InTx, Deleting
  <2>. QED  BY <1>0, <2>1, <2>2 DEF BasisInv
<1>3. ASSUME NEW q \in Requests \ {r} PROVE ApartInv(q, r)' /\ ApartInv(r, q)'
  <2>1. tx'[q] \in Tx
    OBVIOUS
  <2>2. tx'[q].gone \subseteq Ids
    BY <2>1 DEF Tx
  <2>3. NoId \notin tx'[q].gone
    <3>1. NoId \notin Ids
      BY LinksAssumption
    <3>. QED  BY <2>2, <3>1
  <2>. QED  BY <1>0, <2>3 DEF ApartInv
<1>. QED  BY <1>1, <1>2, <1>3

\* What depends only on two transactions lasts as long as they do not change.
LEMMA ApartSame ==
  ASSUME TxInv, NEW q \in Requests, NEW p \in Requests, q # p,
         tx'[q] = tx[q], tx'[p] = tx[p]
  PROVE  ApartInv(q, p)'
<1>1. ApartInv(q, p)
  BY DEF TxInv
<1>. QED  BY <1>1 DEF ApartInv

\* The invariant of a request that did not move, when the tables it depends on
\* did not change.
LEMMA OtherSame ==
  ASSUME TxInv, TypeOK, NEW q \in Requests,
         pc'[q] = pc[q], op'[q] = op[q], batch'[q] = batch[q], seen'[q] = seen[q],
         tx'[q] = tx[q], UNCHANGED <<live, clicks>>,
         \A i \in live : row'[i].owner = row[i].owner /\ row'[i].hits = row[i].hits,
         pc[q] = "readBack" => \A i \in live : row'[i].enabled = row[i].enabled
  PROVE  WritesInv(q)' /\ BasisInv(q)'
<1>1. WritesInv(q) /\ BasisInv(q)
  BY DEF TxInv
<1>2. Rows(q)' = Rows(q)
  BY DEF Rows
<1>3. WritesInv(q)'
  BY <1>1, <1>2 DEF WritesInv
<1>4. BasisInv(q)'
  <2>1. pc'[q] \in {"count", "commitClick"} => seen'[q].id \in live'
    BY <1>1 DEF BasisInv
  <2>2. pc'[q] = "commitClick" => tx'[q].hits = row'[seen'[q].id].hits + 1
    BY <1>1 DEF BasisInv
  <2>3. pc'[q] = "readBack" /\ seen'[q].id \in live' =>
           tx'[q].flip = seen'[q].id /\ tx'[q].on = ~row'[seen'[q].id].enabled
    BY <1>1 DEF BasisInv
  <2>4. /\ tx'[q].gone \subseteq live'
        /\ \A i \in Ids : tx'[q].wiped[i] <= clicks'[i]
    BY <1>1 DEF BasisInv
  <2>5. \A i \in tx'[q].gone :
          (pc'[q] = "check" /\ i \in Rows(q)') \/ clicks'[i] = tx'[q].wiped[i]
    BY <1>1, <1>2 DEF BasisInv
  <2>. QED  BY <2>1, <2>2, <2>3, <2>4, <2>5 DEF BasisInv
<1>. QED  BY <1>3, <1>4

\* A statement outside a transaction that reads, or writes only columns nobody
\* in a transaction depends on.
LEMMA OutsideStep ==
  ASSUME IndInv, TypeOK', NEW r \in Requests, Alone(r),
         UNCHANGED <<live, lastId, clicks, conn, tx>>,
         \A i \in live : /\ row'[i].code = row[i].code /\ row'[i].owner = row[i].owner
                         /\ row'[i].hits = row[i].hits,
         \A i \in live, q \in Requests \ {r} :
           pc[q] = "readBack" => row'[i].enabled = row[i].enabled,
         pc[r] \notin InTx, pc'[r] \notin InTx,
         pc'[r] \in {"checkCode", "insert"} => op'[r].code \in Codes
  PROVE  Inv'
<1>1. /\ WritesInv(r)' /\ BasisInv(r)'
      /\ \A q \in Requests \ {r} : ApartInv(q, r)' /\ ApartInv(r, q)'
  <2>1. Clean(tx'[r])
    BY CleanOutside
  <2>2. tx' \in [Requests -> Tx] /\ clicks' \in [Ids -> Nat]
    BY DEF TypeOK
  <2>. QED  BY <2>1, <2>2, CleanAfter
<1>2. ASSUME NEW q \in Requests \ {r} PROVE WritesInv(q)' /\ BasisInv(q)'
  BY OtherSame DEF IndInv, Alone
<1>3. ASSUME NEW q \in Requests, NEW p \in Requests, q # p PROVE ApartInv(q, p)'
  BY <1>3, ApartSame DEF IndInv
<1>4. TxInv'
  BY <1>1, <1>2, <1>3 DEF TxInv
<1>5. PoolInv'
  BY DEF IndInv, PoolInv, Alone
<1>6. TablesInv'
  <2>1. IdInv' /\ NoOrphanClicks'
    BY DEF IndInv, TablesInv, IdInv, NoOrphanClicks
  <2>2. CodesUnique'
    BY DEF IndInv, TablesInv, CodesUnique
  <2>3. CounterMatchesLog'
    BY DEF IndInv, TablesInv, CounterMatchesLog
  <2>. QED  BY <2>1, <2>2, <2>3 DEF TablesInv
<1>. QED  BY <1>4, <1>5, <1>6 DEF Inv

\* The transaction of r is rolled back.
LEMMA RollbackStep ==
  ASSUME IndInv, TypeOK', NEW r \in Requests, Alone(r), Rollback(r), pc'[r] \in Answers
  PROVE  Inv'
<1>0. pc'[r] \notin InTx /\ pc'[r] \notin {"checkCode", "insert"}
  BY DEF Answers, InTx, Deleting
<1>1. /\ WritesInv(r)' /\ BasisInv(r)'
      /\ \A q \in Requests \ {r} : ApartInv(q, r)' /\ ApartInv(r, q)'
  <2>1. tx'[r] = NoTx
    BY DEF Rollback, IndInv, TypeOK
  <2>2. Clean(tx'[r])
    BY <2>1 DEF Clean, NoTx
  <2>3. tx' \in [Requests -> Tx] /\ clicks' \in [Ids -> Nat]
    BY DEF TypeOK
  <2>. QED  BY <1>0, <2>2, <2>3, CleanAfter
<1>2. ASSUME NEW q \in Requests \ {r} PROVE WritesInv(q)' /\ BasisInv(q)'
  BY OtherSame DEF IndInv, Alone, Rollback, tables
<1>3. ASSUME NEW q \in Requests \ {r}, NEW p \in Requests \ {r}, q # p
      PROVE  ApartInv(q, p)'
  BY <1>3, ApartSame DEF IndInv, Alone
<1>4. TxInv'
  BY <1>1, <1>2, <1>3 DEF TxInv
<1>5. PoolInv'
  BY <1>0 DEF IndInv, PoolInv, Alone, Rollback
<1>6. TablesInv'
  <2>1. UNCHANGED <<live, row, lastId, clicks>>
    BY DEF Rollback, tables
  <2>. QED  BY <2>1 DEF IndInv, TablesInv, IdInv, CodesUnique, CounterMatchesLog, NoOrphanClicks
<1>. QED  BY <1>4, <1>5, <1>6 DEF Inv

\* What Answer and Goto leave alone.
LEMMA AloneAnswer ==
  ASSUME TypeOK, NEW r \in Requests, NEW a, Answer(r, a),
         \A q \in Requests \ {r} : tx'[q] = tx[q]
  PROVE  Alone(r) /\ pc'[r] = a
BY DEF TypeOK, Answer, Alone

\* And so does Goto.
LEMMA AloneGoto ==
  ASSUME TypeOK, NEW r \in Requests, NEW l, Goto(r, l),
         \A q \in Requests \ {r} : /\ op'[q] = op[q] /\ batch'[q] = batch[q]
                                   /\ seen'[q] = seen[q] /\ tx'[q] = tx[q]
  PROVE  Alone(r) /\ pc'[r] = l
BY DEF TypeOK, Goto, Alone

\* On SQLite nobody else is in a transaction when a statement of r runs.
LEMMA AloneOnSQLite ==
  ASSUME IndInv, NEW r \in Requests, Runs(r), Dialect = "SQLite"
  PROVE  \A q \in Requests \ {r} : pc[q] \notin InTx
BY DEF IndInv, PoolInv, Runs

\* A new request has written nothing.
LEMMA BeginInv == ASSUME IndInv, TypeOK', NEW r \in Requests, Begin(r) PROVE Inv'
<1>. USE DEF NoCommit, Answers, InTx, Deleting
<1>1. ASSUME NEW o, NEW l \in {"generate", "lookup", "load", "checkCode"}, Start(r, o, l),
             l = "checkCode" => o.code \in Codes
      PROVE  Inv'
  <2>1. Alone(r) /\ pc'[r] = l
    BY <1>1, AloneGoto DEF Start, IndInv, TypeOK
  <2>2. op'[r] = o
    BY <1>1 DEF Start, IndInv, TypeOK
  <2>. QED  BY <1>1, <2>1, <2>2, OutsideStep DEF Start
<1>2. CASE BeginCreate(r)
  <2>1. PICK u \in Users \cup {NoUser}, c \in Codes \cup {NoCode}, d \in BOOLEAN :
          Start(r, [kind |-> "create", user |-> u, code |-> c, draft |-> d, ids |-> {}],
                IF c = NoCode THEN "generate" ELSE "checkCode")
    BY <1>2 DEF BeginCreate
  <2>2. CASE c = NoCode
    BY <1>1, <2>1, <2>2
  <2>3. CASE c \in Codes
    BY <1>1, <2>1, <2>3, LinksAssumption
  <2>. QED  BY <2>2, <2>3
<1>3. CASE BeginRedirect(r)
  BY <1>1, <1>3 DEF BeginRedirect
<1>4. CASE BeginOwned(r)
  BY <1>1, <1>4 DEF BeginOwned
<1>5. CASE BeginBulk(r)
  <2>1. Alone(r) /\ pc'[r] = "beginDelete"
    BY <1>5, AloneGoto DEF BeginBulk, IndInv, TypeOK
  <2>. QED  BY <1>5, <2>1, OutsideStep DEF BeginBulk
<1>. QED  BY <1>2, <1>3, <1>4, <1>5 DEF Begin

\* The reads, and the statements that stand alone, other than CreateURL's.
LEMMA ReadInv ==
  ASSUME IndInv, TypeOK', NEW r \in Requests,
         CheckCustomCode(r) \/ GenerateCode(r) \/ Lookup(r) \/ Touch(r) \/ Load(r)
  PROVE  Inv'
<1>. USE DEF NoCommit, Answers, InTx, Deleting, request, Answer, IndInv
<1>1. ASSUME NEW a \in Answers, Answer(r, a), NoCommit, pc[r] \notin InTx PROVE Inv'
  BY <1>1, AloneAnswer, OutsideStep
<1>2. ASSUME NEW l \in Statements \ InTx, Goto(r, l), NoCommit, pc[r] \notin InTx,
             \A q \in Requests \ {r} : op'[q] = op[q] /\ batch'[q] = batch[q] /\ seen'[q] = seen[q],
             l \in {"checkCode", "insert"} => op'[r].code \in Codes
      PROVE  Inv'
  BY <1>2, AloneGoto, OutsideStep
<1>3. CASE CheckCustomCode(r)
  <2>1. op[r].code \in Codes
    BY <1>3 DEF CheckCustomCode, TxInv, WritesInv
  <2>. QED  BY <1>1, <1>2, <1>3, <2>1 DEF CheckCustomCode, Statements
<1>4. CASE GenerateCode(r)
  <2>1. CASE Answer(r, "error")
    BY <1>1, <1>4, <2>1 DEF GenerateCode
  <2>2. CASE ~Answer(r, "error")
    <3>1. PICK c \in Codes : op' = [op EXCEPT ![r].code = c] /\ Goto(r, "insert")
                               /\ UNCHANGED <<todo, batch, seen>>
      BY <1>4, <2>2 DEF GenerateCode
    <3>2. op'[r].code = c /\ \A q \in Requests \ {r} : op'[q] = op[q]
      BY <3>1 DEF TypeOK, Op
    <3>. QED  BY <1>2, <1>4, <3>1, <3>2 DEF GenerateCode, Statements
  <2>. QED  BY <2>1, <2>2
<1>5. ASSUME NEW i \in live, Read(r, i) PROVE \A q \in Requests \ {r} : seen'[q] = seen[q]
  BY <1>5 DEF Read, TypeOK
<1>6. CASE Lookup(r)
  BY <1>1, <1>2, <1>5, <1>6 DEF Lookup, Statements
<1>7. CASE Touch(r)
  BY <1>1, <1>2, <1>7 DEF Touch, Statements
<1>8. CASE Load(r)
  <2>1. AfterLoad(op[r].kind) \in {"update", "publish", "toggle", "beginDelete"}
    BY DEF AfterLoad
  <2>2. CASE Answer(r, "refused")
    BY <1>1, <1>8, <2>2 DEF Load
  <2>3. CASE ~Answer(r, "refused")
    <3>1. PICK i \in live : Read(r, i) /\ Goto(r, AfterLoad(op[r].kind))
                              /\ UNCHANGED <<op, todo, batch>>
      BY <1>8, <2>3 DEF Load
    <3>2. \A q \in Requests \ {r} : seen'[q] = seen[q]
      BY <1>5, <3>1
    <3>. QED  BY <1>2, <1>8, <2>1, <3>1, <3>2 DEF Load, Statements
  <2>. QED  BY <2>2, <2>3
<1>. QED  BY <1>3, <1>4, <1>6, <1>7, <1>8

\* The statements that change one row on their own.
LEMMA RowInv ==
  ASSUME IndInv, TypeOK', NEW r \in Requests, Update(r) \/ Publish(r) \/ TogglePostgres(r)
  PROVE  Inv'
<1>. USE DEF Answers, InTx, Deleting, request, Answer
<1>0. TypeOK
  BY DEF IndInv
<1>1. pc[r] \in {"update", "publish", "toggle"} /\ Runs(r)
        /\ UNCHANGED <<live, lastId, clicks, conn, tx>>
  BY DEF Update, Publish, TogglePostgres
<1>2. Alone(r) /\ pc'[r] \in Answers \cup {"publish"}
  <2>1. CASE Update(r)
    BY <1>0, <2>1, AloneAnswer, AloneGoto DEF Update
  <2>2. CASE Publish(r)
    BY <1>0, <2>2, AloneAnswer DEF Publish, Done
  <2>3. CASE TogglePostgres(r)
    BY <1>0, <2>3, AloneAnswer DEF TogglePostgres, OnOff
  <2>. QED  BY <2>1, <2>2, <2>3
<1>3. \A i \in live : /\ row'[i].code = row[i].code /\ row'[i].owner = row[i].owner
                      /\ row'[i].hits = row[i].hits
  <2>1. ASSUME NEW i \in live PROVE row[i] \in Row /\ row \in [Ids -> Row]
    BY <1>0 DEF TypeOK
  <2>2. CASE Update(r)
    BY <2>1, <2>2 DEF Update, Row
  <2>3. CASE Publish(r)
    <3>1. CASE Target(r) \in live
      <4>1. row' = [row EXCEPT ![Target(r)] =
                      [[row[Target(r)] EXCEPT !.draft = FALSE] EXCEPT !.enabled = TRUE]]
        BY <1>0, <2>1, <2>3, <3>1 DEF Publish, TypeOK
      <4>. QED  BY <2>1, <3>1, <4>1 DEF Row
    <3>2. CASE Target(r) \notin live
      BY <2>3, <3>2 DEF Publish
    <3>. QED  BY <3>1, <3>2
  <2>4. CASE TogglePostgres(r)
    <3>1. CASE Target(r) \in live
      <4>1. row' = [row EXCEPT ![Target(r)] =
                      [row[Target(r)] EXCEPT !.enabled = ToggledValue(r, Target(r))]]
        BY <2>4, <3>1 DEF TogglePostgres
      <4>. QED  BY <2>1, <3>1, <4>1 DEF Row
    <3>2. CASE Target(r) \notin live
      BY <2>4, <3>2 DEF TogglePostgres
    <3>. QED  BY <3>1, <3>2
  <2>. QED  BY <2>2, <2>3, <2>4
<1>4. \A i \in live, q \in Requests \ {r} :
        pc[q] = "readBack" => row'[i].enabled = row[i].enabled
  <2>1. ASSUME NEW q \in Requests \ {r}, pc[q] = "readBack" PROVE FALSE
    <3>1. Dialect = "SQLite"
      BY <2>1 DEF IndInv, TxInv, WritesInv
    <3>. QED  BY <1>1, <2>1, <3>1, AloneOnSQLite
  <2>. QED  BY <2>1
<1>. QED  BY <1>1, <1>2, <1>3, <1>4, OutsideStep

\* A step inside a transaction of r: the tables do not change.
LEMMA InsideStep ==
  ASSUME IndInv, TypeOK', NEW r \in Requests, Alone(r), Runs(r), UNCHANGED tables,
         (conn' = conn /\ pc[r] \in InTx) \/ Acquire(r),
         WritesInv(r)', BasisInv(r)',
         \A q \in Requests \ {r} : ApartInv(q, r)' /\ ApartInv(r, q)'
  PROVE  Inv'
<1>1. UNCHANGED <<live, row, lastId, clicks>>
  BY DEF tables
<1>2. ASSUME NEW q \in Requests \ {r} PROVE WritesInv(q)' /\ BasisInv(q)'
  BY <1>1, OtherSame DEF IndInv, Alone
<1>3. ASSUME NEW q \in Requests \ {r}, NEW p \in Requests \ {r}, q # p
      PROVE  ApartInv(q, p)'
  BY <1>3, ApartSame DEF IndInv, Alone
<1>4. TxInv'
  BY <1>2, <1>3 DEF TxInv
<1>5. PoolInv'
  <2>1. ASSUME Dialect = "SQLite", NEW q \in Requests \ {r} PROVE pc'[q] \notin InTx
    BY <2>1, AloneOnSQLite DEF Alone
  <2>2. ASSUME Dialect = "SQLite" PROVE conn' = {r}
    BY <2>2 DEF IndInv, PoolInv, Acquire
  <2>. QED  BY <2>1, <2>2 DEF PoolInv
<1>6. TablesInv'
  BY <1>1 DEF IndInv, TablesInv, IdInv, CodesUnique, CounterMatchesLog, NoOrphanClicks
<1>. QED  BY <1>4, <1>5, <1>6 DEF Inv

\* The two statements of RecordClick.
LEMMA ClickInv ==
  ASSUME IndInv, TypeOK', NEW r \in Requests, InsertClick(r) \/ BumpCounter(r)
  PROVE  Inv'
<1>. USE DEF request, Target
<1>0. /\ TypeOK /\ TxInv /\ WritesInv(r) /\ BasisInv(r) /\ tx[r] \in Tx
      /\ \A q \in Requests : tx[q] \in Tx
  BY DEF IndInv, TypeOK, TxInv
<1>1. CASE InsertClick(r) /\ Target(r) \notin live
  <2>1. Alone(r) /\ pc'[r] = "done"
    BY <1>0, <1>1, AloneAnswer DEF InsertClick
  <2>. QED  BY <1>1, <2>1, OutsideStep DEF InsertClick, InTx, Deleting, tables
<1>2. CASE InsertClick(r) /\ Target(r) \in live
  <2>1. Alone(r) /\ pc'[r] = "count" /\ seen'[r] = seen[r] /\ tx'[r] = [tx[r] EXCEPT !.ins = Target(r)]
    BY <1>0, <1>2, AloneGoto DEF InsertClick, TypeOK
  <2>2. Clean(tx[r])
    BY <1>2, CleanOutside DEF InsertClick, InTx, Deleting
  <2>3. \A q \in Requests \ {r} : Target(r) \notin tx[q].gone
    BY <1>2 DEF InsertClick, Runs, WaitsFor
  <2>4. /\ tx'[r].ins = Target(r) /\ tx'[r].bump = NoId /\ tx'[r].flip = NoId
        /\ tx'[r].gone = {} /\ \A i \in Ids : tx'[r].wiped[i] = 0
    BY <1>0, <2>1, <2>2 DEF Tx, Clean
  <2>5. WritesInv(r)'
    BY <2>1, <2>4 DEF WritesInv, Deleting
  <2>6. BasisInv(r)'
    <3>1. ASSUME NEW i \in Ids PROVE tx'[r].wiped[i] <= clicks'[i]
      <4>1. clicks'[i] \in Nat
        BY DEF TypeOK
      <4>. QED  BY <2>4, <4>1
    <3>. QED  BY <1>2, <2>1, <2>4, <3>1 DEF BasisInv, InsertClick, tables
  <2>7. ASSUME NEW q \in Requests \ {r} PROVE ApartInv(q, r)' /\ ApartInv(r, q)'
    <3>1. tx'[q] = tx[q] /\ tx[q].gone \subseteq Ids
      BY <1>0, <2>1 DEF Alone, Tx
    <3>2. Target(r) \notin tx[q].gone
      BY <2>3
    <3>. QED  BY <2>4, <3>1, <3>2 DEF ApartInv
  <2>. QED  BY <1>2, <2>1, <2>5, <2>6, <2>7, InsideStep DEF InsertClick
<1>3. CASE BumpCounter(r)
  <2>0. pc[r] = "count" /\ Runs(r) /\ UNCHANGED tables /\ conn' = conn
    BY <1>3 DEF BumpCounter, tables
  <2>1. Alone(r) /\ pc'[r] = "commitClick" /\ seen'[r] = seen[r] /\ UNCHANGED <<live, row, clicks>>
        /\ tx'[r] = [tx[r] EXCEPT !.bump = seen[r].id, !.hits = row[seen[r].id].hits + 1]
    BY <1>0, <1>3, AloneGoto DEF BumpCounter, TypeOK
  <2>2. /\ tx'[r].bump = seen[r].id /\ tx'[r].hits = row[seen[r].id].hits + 1
        /\ tx'[r].ins = tx[r].ins /\ tx'[r].flip = tx[r].flip /\ tx'[r].gone = tx[r].gone
        /\ tx'[r].wiped = tx[r].wiped /\ tx[r].ins = seen[r].id
    BY <1>0, <2>0, <2>1 DEF Tx, WritesInv
  <2>3. tx[r].flip = NoId /\ tx[r].gone = {} /\ \A i \in Ids : ~(tx[r].wiped[i] > 0)
    BY <1>0, <2>0 DEF WritesInv, Deleting
  <2>4. WritesInv(r)'
    BY <2>1, <2>2, <2>3 DEF WritesInv, Deleting
  <2>5. BasisInv(r)'
    BY <1>0, <2>0, <2>1, <2>2, <2>3 DEF BasisInv
  <2>6. ASSUME NEW q \in Requests \ {r} PROVE ApartInv(q, r)' /\ ApartInv(r, q)'
    <3>1. tx'[q] = tx[q]
      BY <2>1 DEF Alone
    <3>2. tx[q].bump # seen[r].id
      <4>1. ~WaitsFor(r, q) /\ seen[r].id # NoId
        BY <1>0, <2>0, LinksAssumption DEF Runs, BasisInv, TypeOK
      <4>. QED  BY <2>0, <4>1 DEF WaitsFor, Updating
    <3>3. ApartInv(q, r) /\ ApartInv(r, q)
      BY <1>0 DEF TxInv
    <3>. QED  BY <2>2, <3>1, <3>2, <3>3 DEF ApartInv
  <2>. QED  BY <2>0, <2>1, <2>4, <2>5, <2>6, InsideStep DEF InTx
<1>. QED  BY <1>1, <1>2, <1>3

\* The update of the toggle on SQLite.
LEMMA FlipInv == ASSUME IndInv, TypeOK', NEW r \in Requests, FlipInTx(r) PROVE Inv'
<1>0. /\ TypeOK /\ tx[r] \in Tx /\ pc[r] = "toggle" /\ Dialect = "SQLite" /\ Runs(r)
      /\ UNCHANGED <<live, row, lastId, clicks>> /\ Acquire(r) /\ UNCHANGED request
  BY DEF IndInv, TypeOK, FlipInTx, tables
<1>1. Clean(tx[r])
  BY <1>0, CleanOutside DEF InTx, Deleting
<1>2. \/ Target(r) \notin live /\ tx' = tx
      \/ /\ Target(r) \in live
         /\ tx' = [tx EXCEPT ![r] = [tx[r] EXCEPT !.flip = Target(r),
                                                  !.on = ToggledValue(r, Target(r))]]
  BY DEF FlipInTx
<1>3. Alone(r) /\ pc'[r] = "readBack" /\ seen'[r] = seen[r]
  BY <1>0, <1>2, AloneGoto DEF FlipInTx, TypeOK, request
<1>4. /\ tx'[r].ins = NoId /\ tx'[r].bump = NoId
      /\ tx'[r].gone = {} /\ \A i \in Ids : tx'[r].wiped[i] = 0
      /\ Target(r) \in live => /\ tx'[r].flip = Target(r)
                               /\ tx'[r].on = ~row[Target(r)].enabled
  <2>1. CASE Target(r) \notin live /\ tx' = tx
    BY <1>1, <2>1 DEF Clean
  <2>2. CASE /\ Target(r) \in live
             /\ tx' = [tx EXCEPT ![r] = [tx[r] EXCEPT !.flip = Target(r),
                                                      !.on = ToggledValue(r, Target(r))]]
    <3>1. tx'[r] = [tx[r] EXCEPT !.flip = Target(r), !.on = ToggledValue(r, Target(r))]
      BY <1>0, <2>2 DEF TypeOK
    <3>2. /\ tx'[r].flip = Target(r) /\ tx'[r].on = ToggledValue(r, Target(r))
          /\ tx'[r].ins = tx[r].ins /\ tx'[r].bump = tx[r].bump
          /\ tx'[r].gone = tx[r].gone /\ tx'[r].wiped = tx[r].wiped
      BY <1>0, <3>1 DEF Tx
    <3>. QED  BY <1>1, <3>2 DEF Clean, ToggledValue
  <2>. QED  BY <1>2, <2>1, <2>2
<1>5. WritesInv(r)'
  BY <1>0, <1>3, <1>4 DEF WritesInv, Deleting
<1>6. BasisInv(r)'
  <2>1. ASSUME NEW i \in Ids PROVE tx'[r].wiped[i] <= clicks'[i]
    <3>1. clicks'[i] \in Nat
      BY DEF TypeOK
    <3>. QED  BY <1>4, <3>1
  <2>. QED  BY <1>0, <1>3, <1>4, <2>1 DEF BasisInv, Target
<1>7. ASSUME NEW q \in Requests \ {r} PROVE ApartInv(q, r)' /\ ApartInv(r, q)'
  <2>1. tx'[q] = tx[q] /\ tx[q].gone \subseteq Ids
    BY <1>0, <1>3 DEF Alone, TypeOK, Tx
  <2>2. NoId \notin tx[q].gone
    BY <2>1
  <2>. QED  BY <1>4, <2>1, <2>2 DEF ApartInv
<1>. QED  BY <1>0, <1>3, <1>5, <1>6, <1>7, InsideStep DEF tables

\* Where a delete stands after NextBatch or its counterpart for one link.
LEMMA BeginDeleteInv == ASSUME IndInv, TypeOK', NEW r \in Requests, BeginDelete(r) PROVE Inv'
<1>0. /\ TypeOK /\ tx[r] \in Tx /\ pc[r] = "beginDelete" /\ Runs(r) /\ Acquire(r)
      /\ UNCHANGED <<live, row, lastId, clicks, tx>>
  BY DEF IndInv, TypeOK, BeginDelete
<1>1. Clean(tx[r])
  BY <1>0, CleanOutside DEF InTx, Deleting
<1>2. Alone(r) /\ pc'[r] = "wipe"
  <2>1. CASE op[r].kind = "bulk"
    BY <1>0, <2>1, AloneGoto DEF BeginDelete, NextBatch, TypeOK
  <2>2. CASE op[r].kind # "bulk"
    BY <1>0, <2>2, AloneGoto DEF BeginDelete, TypeOK
  <2>. QED  BY <2>1, <2>2
<1>3. /\ tx'[r].ins = NoId /\ tx'[r].bump = NoId /\ tx'[r].flip = NoId
      /\ tx'[r].gone = {} /\ \A i \in Ids : tx'[r].wiped[i] = 0
  BY <1>0, <1>1 DEF Clean
<1>4. WritesInv(r)'
  BY <1>2, <1>3 DEF WritesInv, Deleting
<1>5. BasisInv(r)'
  <2>1. ASSUME NEW i \in Ids PROVE tx'[r].wiped[i] <= clicks'[i]
    <3>1. clicks'[i] \in Nat
      BY DEF TypeOK
    <3>. QED  BY <1>3, <3>1
  <2>. QED  BY <1>2, <1>3, <2>1 DEF BasisInv
<1>6. ASSUME NEW q \in Requests \ {r} PROVE ApartInv(q, r)' /\ ApartInv(r, q)'
  BY <1>0, ApartSame DEF IndInv
<1>. QED  BY <1>0, <1>2, <1>4, <1>5, <1>6, InsideStep DEF tables

\* The deletes: the click rows,
LEMMA WipeInv == ASSUME IndInv, TypeOK', NEW r \in Requests, Wipe(r) PROVE Inv'
<1>0. /\ TypeOK /\ TxInv /\ tx[r] \in Tx /\ pc[r] = "wipe" /\ Runs(r) /\ conn' = conn
      /\ UNCHANGED <<live, row, lastId, clicks>> /\ UNCHANGED request
      /\ WritesInv(r) /\ BasisInv(r)
  BY DEF IndInv, TypeOK, Wipe, request, TxInv
<1>1. Alone(r) /\ pc'[r] = "drop" /\ Rows(r)' = Rows(r)
  <2>1. Alone(r) /\ pc'[r] = "drop"
    BY <1>0, AloneGoto DEF Wipe, TypeOK, request
  <2>. QED  BY <1>0, <2>1 DEF Rows, request
<1>2. tx'[r] = [tx[r] EXCEPT !.wiped = [i \in Ids |-> IF i \in Rows(r) THEN clicks[i]
                                                     ELSE tx[r].wiped[i]]]
  BY <1>0 DEF Wipe, TypeOK
<1>3. /\ tx'[r].ins = tx[r].ins /\ tx'[r].bump = tx[r].bump /\ tx'[r].flip = tx[r].flip
      /\ tx'[r].gone = tx[r].gone
      /\ \A i \in Ids : tx'[r].wiped[i] = IF i \in Rows(r) THEN clicks[i] ELSE tx[r].wiped[i]
  BY <1>0, <1>2 DEF Tx
<1>4. tx[r].ins = NoId /\ tx[r].bump = NoId /\ tx[r].flip = NoId
  BY <1>0 DEF WritesInv
<1>5. WritesInv(r)'
  <2>1. ASSUME NEW i \in Ids, tx'[r].wiped[i] > 0
        PROVE  i \in tx'[r].gone \/ (pc'[r] = "drop" /\ i \in Rows(r)')
    BY <1>0, <1>1, <1>3, <2>1 DEF WritesInv
  <2>. QED  BY <1>1, <1>3, <1>4, <2>1 DEF WritesInv, Deleting
<1>6. BasisInv(r)'
  <2>1. \A i \in Ids : tx'[r].wiped[i] <= clicks'[i]
    <3>1. \A i \in Ids : clicks[i] \in Nat
      BY <1>0 DEF TypeOK
    <3>. QED  BY <1>0, <1>3, <3>1 DEF BasisInv
  <2>2. \A i \in tx'[r].gone : clicks'[i] = tx'[r].wiped[i]
    <3>1. tx[r].gone \subseteq Ids
      BY <1>0 DEF Tx
    <3>. QED  BY <1>0, <1>3, <3>1 DEF BasisInv
  <2>. QED  BY <1>0, <1>1, <1>3, <2>1, <2>2 DEF BasisInv
<1>7. ASSUME NEW q \in Requests \ {r} PROVE ApartInv(q, r)' /\ ApartInv(r, q)'
  <2>1. tx'[q] = tx[q] /\ tx[q] \in Tx /\ ApartInv(q, r) /\ ApartInv(r, q)
    BY <1>0, <1>1 DEF Alone, TypeOK, TxInv
  <2>2. ASSUME NEW i \in Ids PROVE tx[q].wiped[i] = 0 \/ tx'[r].wiped[i] = 0
    <3>1. CASE i \in Rows(r)
      <4>1. tx[q].wiped[i] \in Nat
        BY <2>1 DEF Tx
      <4>2. ~(tx[q].wiped[i] > 0)
        BY <1>0, <3>1 DEF Runs, WaitsFor
      <4>. QED  BY <4>1, <4>2
    <3>2. CASE i \notin Rows(r)
      BY <1>3, <2>1, <3>2 DEF ApartInv
    <3>. QED  BY <3>1, <3>2
  <2>. QED  BY <1>3, <2>1, <2>2 DEF ApartInv
<1>. QED  BY <1>0, <1>1, <1>5, <1>6, <1>7, InsideStep DEF tables, InTx, Deleting

\* the links,
LEMMA DropInv == ASSUME IndInv, TypeOK', NEW r \in Requests, Drop(r) PROVE Inv'
<1>0. /\ TypeOK /\ TxInv /\ tx[r] \in Tx /\ pc[r] = "drop" /\ Runs(r) /\ conn' = conn
      /\ UNCHANGED <<live, row, lastId, clicks>> /\ UNCHANGED request
      /\ WritesInv(r) /\ BasisInv(r)
  BY DEF IndInv, TypeOK, Drop, request, TxInv
<1>1. Alone(r) /\ pc'[r] = "check" /\ Rows(r)' = Rows(r)
  <2>1. Alone(r) /\ pc'[r] = "check"
    BY <1>0, AloneGoto DEF Drop, TypeOK, request
  <2>. QED  BY <1>0, <2>1 DEF Rows, request
<1>2. tx'[r] = [tx[r] EXCEPT !.gone = tx[r].gone \cup Rows(r)]
  BY <1>0 DEF Drop, TypeOK
<1>3. /\ tx'[r].ins = tx[r].ins /\ tx'[r].bump = tx[r].bump /\ tx'[r].flip = tx[r].flip
      /\ tx'[r].wiped = tx[r].wiped /\ tx'[r].gone = tx[r].gone \cup Rows(r)
  BY <1>0, <1>2 DEF Tx
<1>4. tx[r].ins = NoId /\ tx[r].bump = NoId /\ tx[r].flip = NoId
  BY <1>0 DEF WritesInv
<1>5. WritesInv(r)'
  BY <1>0, <1>1, <1>3, <1>4 DEF WritesInv, Deleting
<1>6. BasisInv(r)'
  <2>1. Rows(r) \subseteq live
    BY DEF Rows
  <2>. QED  BY <1>0, <1>1, <1>3, <2>1 DEF BasisInv
<1>7. ASSUME NEW q \in Requests \ {r} PROVE ApartInv(q, r)' /\ ApartInv(r, q)'
  <2>1. tx'[q] = tx[q] /\ tx[q] \in Tx /\ ApartInv(q, r) /\ ApartInv(r, q)
    BY <1>0, <1>1 DEF Alone, TypeOK, TxInv
  <2>2. \A i \in Rows(r) : tx[q].ins # i /\ i \notin tx[q].gone
    BY <1>0 DEF Runs, WaitsFor
  <2>. QED  BY <1>3, <1>4, <2>1, <2>2 DEF ApartInv
<1>. QED  BY <1>0, <1>1, <1>5, <1>6, <1>7, InsideStep DEF tables, InTx, Deleting

\* and the check of the foreign key.
LEMMA CheckInv == ASSUME IndInv, TypeOK', NEW r \in Requests, CheckReferences(r) PROVE Inv'
<1>0. /\ TypeOK /\ TxInv /\ tx[r] \in Tx /\ pc[r] = "check" /\ Runs(r)
      /\ WritesInv(r) /\ BasisInv(r)
  BY DEF IndInv, TypeOK, CheckReferences, TxInv
<1>1. CASE \E i \in Rows(r) : LeavesClicks(r, i)
  <2>1. Rollback(r) /\ Answer(r, "error")
    BY <1>1 DEF CheckReferences
  <2>2. Alone(r) /\ pc'[r] = "error"
    BY <1>0, <2>1, AloneAnswer DEF Rollback, TypeOK
  <2>. QED  BY <2>1, <2>2, RollbackStep DEF Answers
<1>2. CASE ~\E i \in Rows(r) : LeavesClicks(r, i)
  <2>1. UNCHANGED <<live, row, lastId, clicks, conn, tx>>
    BY <1>2 DEF CheckReferences, NoCommit
  <2>2. Alone(r) /\ pc'[r] \in {"wipe", "commitDelete"}
    <3>1. CASE todo[r] # {}
      BY <1>0, <1>2, <2>1, <3>1, AloneGoto DEF CheckReferences, NextBatch, TypeOK
    <3>2. CASE todo[r] = {}
      BY <1>0, <1>2, <2>1, <3>2, AloneGoto DEF CheckReferences, TypeOK
    <3>. QED  BY <3>1, <3>2
  <2>3. WritesInv(r)'
    BY <1>0, <2>1, <2>2 DEF WritesInv, Deleting
  <2>4. BasisInv(r)'
    <3>1. ASSUME NEW i \in tx[r].gone PROVE clicks[i] = tx[r].wiped[i]
      BY <1>0, <1>2 DEF BasisInv, LeavesClicks
    <3>. QED  BY <1>0, <2>1, <2>2, <3>1 DEF BasisInv
  <2>5. ASSUME NEW q \in Requests \ {r} PROVE ApartInv(q, r)' /\ ApartInv(r, q)'
    BY <1>0, <2>1, ApartSame
  <2>. QED  BY <1>0, <2>1, <2>2, <2>3, <2>4, <2>5, InsideStep DEF tables, InTx, Deleting
<1>. QED  BY <1>1, <1>2

\* CreateURL: the new row has an id no link, click or transaction refers to.
LEMMA InsertInv == ASSUME IndInv, TypeOK', NEW r \in Requests, Insert(r) PROVE Inv'
<1>0. /\ TypeOK /\ TxInv /\ PoolInv /\ TablesInv /\ pc[r] = "insert" /\ Runs(r)
      /\ UNCHANGED <<clicks, conn, tx>>
  BY DEF IndInv, Insert
<1>1. CASE Answer(r, "refused") /\ UNCHANGED <<live, row, lastId>>
  <2>2. Alone(r) /\ pc'[r] = "refused"
    BY <1>0, <1>1, AloneAnswer
  <2>. QED  BY <1>0, <1>1, <2>2, OutsideStep DEF InTx, Deleting
<1>2. CASE ~(Answer(r, "refused") /\ UNCHANGED <<live, row, lastId>>)
  <2>0. PICK a \in {"done", "error"} : Answer(r, a)
    BY <1>2 DEF Insert, Done
  <2>1. /\ ~UniqueViolation(op[r].code)
        /\ NewId \in Ids /\ live' = live \cup {NewId} /\ lastId' = NewId
        /\ row' = [row EXCEPT ![NewId] =
                     [code |-> op[r].code, owner |-> op[r].user, draft |-> op[r].draft,
                      enabled |-> ~op[r].draft, hits |-> 0]]
    BY <1>2 DEF Insert
  <2>2. Alone(r) /\ pc'[r] \in {"done", "error"}
    BY <1>0, <2>0, AloneAnswer
  <2>3. NewId \notin live /\ lastId \in Nat /\ NewId = lastId + 1
    BY <1>0 DEF TablesInv, IdInv, NewId, TypeOK
  <2>4. /\ \A i \in live : row'[i] = row[i]
        /\ row'[NewId].code = op[r].code /\ row'[NewId].hits = 0
    BY <1>0, <2>1, <2>3 DEF TypeOK
  <2>5. ASSUME NEW q \in Requests \ {r} PROVE WritesInv(q)' /\ BasisInv(q)'
    <3>0. /\ pc'[q] = pc[q] /\ op'[q] = op[q] /\ batch'[q] = batch[q] /\ seen'[q] = seen[q]
          /\ tx'[q] = tx[q] /\ tx[q] \in Tx /\ clicks' = clicks
      BY <1>0, <2>2 DEF Alone, TypeOK
    <3>1. WritesInv(q) /\ BasisInv(q)
      BY <1>0 DEF TxInv
    <3>2. \A i \in live : i \in Rows(q)' <=> i \in Rows(q)
      BY <2>1, <2>4, <3>0 DEF Rows
    <3>3. Rows(q) \subseteq live /\ tx[q].gone \subseteq live
      BY <3>1 DEF Rows, BasisInv
    <3>4. WritesInv(q)'
      BY <3>0, <3>1, <3>2, <3>3 DEF WritesInv
    <3>5. pc[q] # "readBack"
      <4>1. ASSUME pc[q] = "readBack" PROVE FALSE
        <5>1. Dialect = "SQLite"
          BY <3>1, <4>1 DEF WritesInv
        <5>. QED  BY <1>0, <4>1, <5>1, AloneOnSQLite DEF InTx
      <4>. QED  BY <4>1
    <3>6. BasisInv(q)'
      <4>1. pc'[q] \in {"count", "commitClick"} => seen'[q].id \in live /\ seen'[q].id \in live'
        BY <2>1, <3>0, <3>1 DEF BasisInv
      <4>2. pc'[q] = "commitClick" => tx'[q].hits = row'[seen'[q].id].hits + 1
        BY <2>4, <3>0, <3>1 DEF BasisInv
      <4>3. \A i \in tx'[q].gone :
              (pc'[q] = "check" /\ i \in Rows(q)') \/ clicks'[i] = tx'[q].wiped[i]
        BY <3>0, <3>1, <3>2, <3>3 DEF BasisInv
      <4>4. tx'[q].gone \subseteq live' /\ \A i \in Ids : tx'[q].wiped[i] <= clicks'[i]
        BY <2>1, <3>0, <3>1 DEF BasisInv
      <4>. QED  BY <3>0, <3>5, <4>1, <4>2, <4>3, <4>4 DEF BasisInv
    <3>. QED  BY <3>4, <3>6
  <2>6. /\ WritesInv(r)' /\ BasisInv(r)'
        /\ \A q \in Requests \ {r} : ApartInv(q, r)' /\ ApartInv(r, q)'
    <3>1. Clean(tx'[r])
      BY <1>0, CleanOutside DEF InTx, Deleting
    <3>2. tx' \in [Requests -> Tx] /\ clicks' \in [Ids -> Nat]
      BY DEF TypeOK
    <3>. QED  BY <2>2, <3>1, <3>2, CleanAfter DEF InTx, Deleting
  <2>7. ASSUME NEW q \in Requests, NEW p \in Requests, q # p PROVE ApartInv(q, p)'
    BY <1>0, <2>7, ApartSame
  <2>8. TxInv'
    BY <2>5, <2>6, <2>7 DEF TxInv
  <2>9. PoolInv'
    BY <1>0, <2>2 DEF PoolInv, Alone, InTx, Deleting
  <2>10. IdInv' /\ NoOrphanClicks'
    <3>1. IdInv'
      <4>1. ASSUME NEW i \in live' PROVE i \in 1 .. lastId'
        <5>1. i \in 1 .. lastId \/ i = lastId + 1
          BY <1>0, <2>1, <2>3 DEF TablesInv, IdInv
        <5>2. lastId' = lastId + 1 /\ lastId \in Nat
          BY <2>1, <2>3
        <5>. QED  BY <5>1, <5>2
      <4>. QED  BY <4>1 DEF IdInv
    <3>2. NoOrphanClicks'
      BY <1>0, <2>1 DEF TablesInv, NoOrphanClicks
    <3>. QED  BY <3>1, <3>2
  <2>11. CodesUnique'
    <3>1. \A i \in live : row[i].code # op[r].code
      BY <2>1 DEF UniqueViolation, Taken
    <3>. QED  BY <1>0, <2>1, <2>4, <3>1 DEF TablesInv, CodesUnique
  <2>12. CounterMatchesLog'
    <3>1. clicks[NewId] = 0
      BY <1>0, <2>1, <2>3 DEF TablesInv, NoOrphanClicks
    <3>. QED  BY <1>0, <2>1, <2>4, <3>1 DEF TablesInv, CounterMatchesLog
  <2>. QED  BY <2>8, <2>9, <2>10, <2>11, <2>12 DEF Inv, TablesInv
<1>. QED  BY <1>1, <1>2

\* COMMIT.  What r wrote was computed from rows that are still what they were, so
\* the tables stay consistent and the other transactions can go on.
LEMMA CommitTables ==
  ASSUME IndInv, TypeOK', NEW r \in Requests, Commit(r),
         \/ pc[r] = "commitClick"
         \/ pc[r] = "readBack" /\ seen[r].id \in live
         \/ pc[r] = "commitDelete"
  PROVE  /\ TablesInv'
         /\ \A i \in Ids : clicks'[i] = IF i \in tx[r].gone THEN 0
                                       ELSE IF tx[r].ins = i THEN clicks[i] + 1 ELSE clicks[i]
         /\ \A i \in live' : row'[i].code = row[i].code /\ row'[i].owner = row[i].owner
         /\ live' = live \ tx[r].gone
<1>0. /\ TypeOK /\ TxInv /\ TablesInv /\ tx[r] \in Tx /\ WritesInv(r) /\ BasisInv(r)
  BY DEF IndInv, TypeOK, TxInv
<1>1. live' = live \ tx[r].gone /\ lastId' = lastId
  BY DEF Commit
<1>2. \A i \in Ids : clicks[i] \in Nat /\ tx[r].wiped[i] \in Nat
  BY <1>0 DEF TypeOK, Tx
<1>3. \A i \in tx[r].gone : i \in Ids /\ clicks[i] = tx[r].wiped[i] /\ tx[r].ins # i
  <2>1. tx[r].gone \subseteq Ids
    BY <1>0 DEF Tx
  <2>2. pc[r] # "check"
    OBVIOUS
  <2>3. tx[r].gone # {} => tx[r].ins = NoId
    BY <1>0 DEF WritesInv, Deleting
  <2>4. NoId \notin Ids
    OBVIOUS
  <2>. QED  BY <1>0, <2>1, <2>2, <2>3, <2>4 DEF BasisInv
<1>4. \A i \in Ids \ tx[r].gone : tx[r].wiped[i] = 0
  <2>1. ASSUME NEW i \in Ids \ tx[r].gone PROVE ~(tx[r].wiped[i] > 0)
    BY <1>0 DEF WritesInv
  <2>. QED  BY <1>2, <2>1
<1>5. ASSUME NEW i \in Ids
      PROVE  clicks'[i] = IF i \in tx[r].gone THEN 0
                          ELSE IF tx[r].ins = i THEN clicks[i] + 1 ELSE clicks[i]
  <2>1. clicks'[i] = (clicks[i] - tx[r].wiped[i]) + (IF tx[r].ins = i THEN 1 ELSE 0)
    BY DEF Commit
  <2>2. CASE i \in tx[r].gone
    BY <1>2, <1>3, <2>1, <2>2
  <2>3. CASE i \notin tx[r].gone
    BY <1>2, <1>4, <2>1, <2>3
  <2>. QED  BY <2>2, <2>3
<1>6. ASSUME NEW i \in Ids
      PROVE  /\ row'[i].code = row[i].code /\ row'[i].owner = row[i].owner
             /\ row'[i].hits = IF tx[r].bump = i THEN tx[r].hits ELSE row[i].hits
  <2>1. row[i] \in Row
    BY <1>0 DEF TypeOK
  <2>2. row'[i] = IF tx[r].bump = i THEN [row[i] EXCEPT !.hits = tx[r].hits]
                  ELSE IF tx[r].flip = i THEN [row[i] EXCEPT !.enabled = tx[r].on]
                  ELSE row[i]
    BY DEF Commit
  <2>. QED  BY <2>1, <2>2 DEF Row
<1>7. live' \subseteq Ids
  BY DEF TypeOK
<1>8. IdInv'
  BY <1>0, <1>1 DEF TablesInv, IdInv
<1>9. CodesUnique'
  BY <1>0, <1>1, <1>6, <1>7 DEF TablesInv, CodesUnique
<1>10. CounterMatchesLog'
  <2>1. ASSUME NEW i \in live' PROVE row'[i].hits = clicks'[i]
    <3>1. row[i].hits = clicks[i] /\ i \in Ids /\ i \in live /\ i \notin tx[r].gone
      BY <1>0, <1>1, <1>7 DEF TablesInv, CounterMatchesLog
    <3>2. CASE pc[r] = "commitClick"
      BY <1>0, <1>5, <1>6, <3>1, <3>2 DEF WritesInv, BasisInv
    <3>3. CASE pc[r] # "commitClick"
      <4>1. tx[r].bump = NoId /\ tx[r].ins = NoId
        BY <1>0, <3>3 DEF WritesInv
      <4>. QED  BY <1>5, <1>6, <3>1, <4>1
    <3>. QED  BY <3>2, <3>3
  <2>. QED  BY <2>1 DEF CounterMatchesLog
<1>11. NoOrphanClicks'
  <2>1. ASSUME NEW i \in Ids \ live' PROVE clicks'[i] = 0
    <3>1. CASE i \in tx[r].gone
      BY <1>5, <3>1
    <3>2. CASE i \notin tx[r].gone
      <4>1. i \notin live /\ clicks[i] = 0
        BY <1>0, <1>1, <3>2 DEF TablesInv, NoOrphanClicks
      <4>2. tx[r].ins # i
        BY <1>0, <4>1 DEF WritesInv, BasisInv
      <4>. QED  BY <1>5, <3>2, <4>1, <4>2
    <3>. QED  BY <3>1, <3>2
  <2>. QED  BY <2>1 DEF NoOrphanClicks
<1>. QED  BY <1>1, <1>5, <1>6, <1>7, <1>8, <1>9, <1>10, <1>11 DEF TablesInv

\* A commit keeps the whole invariant.
LEMMA CommitStep ==
  ASSUME IndInv, TypeOK', NEW r \in Requests, Alone(r), Commit(r), pc'[r] \in Answers,
         \/ pc[r] = "commitClick"
         \/ pc[r] = "readBack" /\ seen[r].id \in live
         \/ pc[r] = "commitDelete"
  PROVE  Inv'
<1>0. /\ TypeOK /\ TxInv /\ PoolInv /\ tx[r] \in Tx /\ WritesInv(r) /\ BasisInv(r)
      /\ conn' = conn \ {r} /\ tx'[r] = NoTx
  BY DEF IndInv, TypeOK, TxInv, Commit
<1>1. pc'[r] \notin InTx /\ pc'[r] \notin {"checkCode", "insert"}
  BY DEF Answers, InTx, Deleting
<1>2. /\ WritesInv(r)' /\ BasisInv(r)'
      /\ \A q \in Requests \ {r} : ApartInv(q, r)' /\ ApartInv(r, q)'
  <2>1. Clean(tx'[r])
    BY <1>0 DEF Clean, NoTx
  <2>2. tx' \in [Requests -> Tx] /\ clicks' \in [Ids -> Nat]
    BY DEF TypeOK
  <2>. QED  BY <1>1, <2>1, <2>2, CleanAfter
<1>3. ASSUME NEW q \in Requests \ {r} PROVE WritesInv(q)' /\ BasisInv(q)'
  <2>0. /\ pc'[q] = pc[q] /\ op'[q] = op[q] /\ batch'[q] = batch[q] /\ seen'[q] = seen[q]
        /\ tx'[q] = tx[q] /\ tx[q] \in Tx
    BY <1>0 DEF Alone, TypeOK
  <2>1. WritesInv(q) /\ BasisInv(q) /\ ApartInv(q, r) /\ ApartInv(r, q)
    BY <1>0 DEF TxInv
  <2>2. \A i \in Ids : clicks[i] \in Nat /\ tx[q].wiped[i] \in Nat /\ tx[r].wiped[i] \in Nat
    BY <1>0, <2>0 DEF TypeOK, Tx
  \* No link q depends on goes.
  <2>3. \A i \in tx[r].gone : tx[q].wiped[i] = 0 /\ i \notin tx[q].gone /\ tx[q].ins # i
    <3>1. ASSUME NEW i \in tx[r].gone PROVE tx[q].wiped[i] = 0
      <4>1. i \in Ids /\ clicks[i] = tx[r].wiped[i]
        BY <1>0 DEF BasisInv, Tx
      <4>2. tx[q].wiped[i] <= clicks[i]
        BY <2>1, <4>1 DEF BasisInv
      <4>3. tx[q].wiped[i] = 0 \/ tx[r].wiped[i] = 0
        BY <2>1, <4>1 DEF ApartInv
      <4>. QED  BY <2>2, <4>1, <4>2, <4>3
    <3>. QED  BY <2>1, <3>1 DEF ApartInv
  <2>4. \A i \in live' : i \in Rows(q)' <=> i \in Rows(q)
    BY <2>0, CommitTables DEF Rows
  <2>5. /\ live' = live \ tx[r].gone
        /\ \A i \in Ids : clicks'[i] = IF i \in tx[r].gone THEN 0
                                      ELSE IF tx[r].ins = i THEN clicks[i] + 1 ELSE clicks[i]
    BY CommitTables
  <2>6. WritesInv(q)'
    <3>1. ASSUME NEW i \in Ids, tx'[q].wiped[i] > 0
          PROVE  i \in tx'[q].gone \/ (pc'[q] = "drop" /\ i \in Rows(q)')
      <4>1. i \notin tx[r].gone
        BY <2>0, <2>3, <3>1
      <4>2. i \in tx[q].gone \/ (pc[q] = "drop" /\ i \in Rows(q))
        BY <2>0, <2>1, <3>1 DEF WritesInv
      <4>3. Rows(q) \subseteq live
        BY DEF Rows
      <4>. QED  BY <2>0, <2>4, <2>5, <4>1, <4>2, <4>3
    <3>. QED  BY <2>0, <2>1, <3>1 DEF WritesInv
  <2>7. pc[q] # "readBack"
    <3>1. ASSUME pc[q] = "readBack" PROVE FALSE
      <4>1. Dialect = "SQLite"
        BY <2>1, <3>1 DEF WritesInv
      <4>2. conn = {r} /\ conn = {q}
        BY <1>0, <3>1, <4>1 DEF PoolInv, InTx, Deleting
      <4>. QED  BY <4>2
    <3>. QED  BY <3>1
  <2>8. BasisInv(q)'
    <3>1. pc'[q] \in {"count", "commitClick"} => seen'[q].id \in live'
      BY <2>0, <2>1, <2>3, <2>5 DEF BasisInv, WritesInv
    <3>2. pc'[q] = "commitClick" => tx'[q].hits = row'[seen'[q].id].hits + 1
      <4>1. ASSUME pc[q] = "commitClick"
            PROVE  tx[q].hits = row'[seen[q].id].hits + 1
        <5>1. /\ seen[q].id \in live /\ seen[q].id \in Ids /\ tx[q].bump = seen[q].id
              /\ tx[q].hits = row[seen[q].id].hits + 1
          BY <1>0, <2>1, <4>1 DEF BasisInv, WritesInv, TypeOK
        <5>2. tx[r].bump # seen[q].id
          BY <2>1, <5>1 DEF ApartInv
        <5>3. row[seen[q].id] \in Row
          BY <1>0, <5>1 DEF TypeOK
        <5>4. row'[seen[q].id].hits = row[seen[q].id].hits
          BY <5>1, <5>2, <5>3 DEF Commit, Row
        <5>. QED  BY <5>1, <5>4
      <4>. QED  BY <2>0, <4>1
    <3>3. tx'[q].gone \subseteq live'
      BY <2>0, <2>1, <2>3, <2>5 DEF BasisInv
    <3>4. ASSUME NEW i \in Ids PROVE tx'[q].wiped[i] <= clicks'[i]
      <4>1. tx[q].wiped[i] <= clicks[i]
        BY <2>1 DEF BasisInv
      <4>. QED  BY <2>0, <2>2, <2>3, <2>5, <4>1
    <3>5. ASSUME NEW i \in tx'[q].gone
          PROVE  (pc'[q] = "check" /\ i \in Rows(q)') \/ clicks'[i] = tx'[q].wiped[i]
      <4>1. i \in Ids /\ i \in live' /\ i \notin tx[r].gone
        BY <2>0, <2>3, <3>3 DEF Tx
      <4>2. tx[r].ins # i
        BY <2>0, <2>1, <3>5 DEF ApartInv
      <4>3. (pc[q] = "check" /\ i \in Rows(q)) \/ clicks[i] = tx[q].wiped[i]
        BY <2>0, <2>1, <3>5 DEF BasisInv
      <4>. QED  BY <2>0, <2>4, <2>5, <4>1, <4>2, <4>3
    <3>. QED  BY <2>0, <2>7, <3>1, <3>2, <3>3, <3>4, <3>5 DEF BasisInv
  <2>. QED  BY <2>6, <2>8
<1>4. ASSUME NEW q \in Requests \ {r}, NEW p \in Requests \ {r}, q # p
      PROVE  ApartInv(q, p)'
  BY <1>0, <1>4, ApartSame DEF Alone
<1>5. TxInv'
  BY <1>2, <1>3, <1>4 DEF TxInv
<1>6. PoolInv'
  BY <1>0, <1>1 DEF PoolInv, Alone
<1>. QED  BY <1>5, <1>6, CommitTables DEF Inv

\* The steps that commit, roll back or give up.
LEMMA EndInv ==
  ASSUME IndInv, TypeOK', NEW r \in Requests,
         \/ CommitClick(r) \/ ReadBack(r) \/ CommitDelete(r)
         \/ DeadlockVictim(r) \/ Fail(r) \/ LostAck(r)
  PROVE  Inv'
<1>. USE DEF Answers
<1>0. TypeOK /\ FailureAnswer(r) \in Answers
  BY DEF IndInv, FailureAnswer
<1>1. ASSUME NEW a \in Answers, Rollback(r), Answer(r, a) PROVE Inv'
  BY <1>0, <1>1, AloneAnswer, RollbackStep DEF Answer, Rollback, TypeOK
<1>2. ASSUME NEW a \in Answers, Commit(r), Answer(r, a),
             \/ pc[r] = "commitClick"
             \/ pc[r] = "readBack" /\ seen[r].id \in live
             \/ pc[r] = "commitDelete"
      PROVE  Inv'
  BY <1>0, <1>2, AloneAnswer, CommitStep DEF Commit, TypeOK
<1>3. CASE ReadBack(r)
  <2>1. OnOff(tx[r].on) \in Answers
    BY DEF OnOff
  <2>. QED  BY <1>1, <1>2, <1>3, <2>1 DEF ReadBack, Target
<1>4. CASE CommitClick(r) \/ CommitDelete(r) \/ LostAck(r)
  BY <1>0, <1>2, <1>4 DEF CommitClick, CommitDelete, LostAck, Answer
<1>5. CASE DeadlockVictim(r) \/ Fail(r)
  BY <1>0, <1>1, <1>5 DEF DeadlockVictim, Fail
<1>. QED  BY <1>3, <1>4, <1>5

\* The invariant holds at the start,
LEMMA InitInv == Init => IndInv
<1>. SUFFICES ASSUME Init PROVE IndInv
  OBVIOUS
<1>. USE DEF Init
<1>1. TypeOK
  BY NothingTypes, LinksAssumption DEF TypeOK, Answers
<1>2. TxInv
  <2>1. ASSUME NEW r \in Requests PROVE WritesInv(r) /\ BasisInv(r)
    <3>1. pc[r] = "idle" /\ tx[r] = NoTx
      OBVIOUS
    <3>2. /\ NoTx.ins = NoId /\ NoTx.bump = NoId /\ NoTx.flip = NoId /\ NoTx.gone = {}
          /\ \A i \in Ids : NoTx.wiped[i] = 0
      BY DEF NoTx
    <3>3. \A i \in Ids : ~(NoTx.wiped[i] > 0) /\ NoTx.wiped[i] <= clicks[i]
      BY <3>2
    <3>. QED  BY <3>1, <3>2, <3>3 DEF WritesInv, BasisInv
  <2>2. ASSUME NEW r \in Requests, NEW q \in Requests PROVE ApartInv(q, r)
    BY DEF ApartInv, NoTx
  <2>. QED  BY <2>1, <2>2 DEF TxInv
<1>3. PoolInv
  BY DEF PoolInv, InTx, Deleting
<1>4. TablesInv
  BY DEF TablesInv, IdInv, CodesUnique, CounterMatchesLog, NoOrphanClicks
<1>. QED  BY <1>1, <1>2, <1>3, <1>4 DEF IndInv

\* and every step keeps it.
LEMMA NextInv == IndInv /\ [Next]_vars => IndInv'
<1>. SUFFICES ASSUME IndInv, [Next]_vars PROVE IndInv'
  OBVIOUS
<1>1. TypeOK'
  BY NextType DEF IndInv
<1>2. ASSUME NEW r \in Requests, Begin(r) PROVE Inv'
  BY <1>1, <1>2, BeginInv
<1>3. ASSUME NEW r \in Requests, Step(r) PROVE Inv'
  BY <1>1, <1>3, ReadInv, RowInv, InsertInv, ClickInv, FlipInv, BeginDeleteInv, WipeInv,
     DropInv, CheckInv, EndInv DEF Step
<1>4. ASSUME NEW r \in Requests, DeadlockVictim(r) \/ Fail(r) \/ LostAck(r) PROVE Inv'
  BY <1>1, <1>4, EndInv
<1>5. ASSUME UNCHANGED vars PROVE Inv'
  <2>1. TxInv'
    <3>1. ASSUME NEW q \in Requests PROVE WritesInv(q)' /\ BasisInv(q)'
      BY <1>5, OtherSame DEF IndInv, vars
    <3>2. ASSUME NEW q \in Requests, NEW p \in Requests, q # p PROVE ApartInv(q, p)'
      BY <1>5, <3>2, ApartSame DEF IndInv, vars
    <3>. QED  BY <3>1, <3>2 DEF TxInv
  <2>2. PoolInv'
    BY <1>5 DEF IndInv, PoolInv, vars
  <2>3. TablesInv'
    BY <1>5 DEF IndInv, TablesInv, IdInv, CodesUnique, CounterMatchesLog, NoOrphanClicks, vars
  <2>. QED  BY <2>1, <2>2, <2>3 DEF Inv
<1>6. Inv'
  BY <1>2, <1>3, <1>4, <1>5 DEF Next
<1>. QED  BY <1>1, <1>6 DEF IndInv, Inv

-----------------------------------------------------------------------------
(* What holds of every behaviour.                                          *)

\* The inductive invariant, of which the others are parts: the transactions in
\* flight never hold a write whose basis has changed.
THEOREM Invariant == Spec => []IndInv
BY InitInv, NextInv, PTL DEF Spec

\* RecordClick: "the counter can never drift from the log".
THEOREM CounterNeverDrifts == Spec => []CounterMatchesLog
<1>1. IndInv => CounterMatchesLog
  BY DEF IndInv, TablesInv
<1>. QED  BY <1>1, Invariant, PTL

\* No row of the click log outlives its link, whichever way links are deleted.
THEOREM ClicksGoWithTheirLink == Spec => []NoOrphanClicks
<1>1. IndInv => NoOrphanClicks
  BY DEF IndInv, TablesInv
<1>. QED  BY <1>1, Invariant, PTL

\* Two links never share a code.
THEOREM OneLinkPerCode == Spec => []CodesUnique
<1>1. IndInv => CodesUnique
  BY DEF IndInv, TablesInv
<1>. QED  BY <1>1, Invariant, PTL

-----------------------------------------------------------------------------
(* The answer of a toggle.                                                 *)

Quietly(r) == \E a \in (Statements \cup Answers) \ {"on", "off"} : pc' = [pc EXCEPT ![r] = a]

\* Only the two forms of a toggle answer "on" or "off".
LEMMA OthersQuiet ==
  ASSUME NEW r \in Requests,
         Begin(r) \/ Step(r) \/ DeadlockVictim(r) \/ Fail(r) \/ LostAck(r),
         ~TogglePostgres(r), ~(ReadBack(r) /\ Target(r) \in live)
  PROVE  Quietly(r)
<1>. USE DEF Statements, Answers, InTx, Deleting, Answer, Goto
<1>1. ASSUME NEW a \in {"done", "refused", "error"}, Answer(r, a) PROVE Quietly(r)
  BY <1>1 DEF Quietly
<1>2. ASSUME NEW l \in Statements, Goto(r, l) PROVE Quietly(r)
  BY <1>2 DEF Quietly
<1>3. CASE Begin(r)
  BY <1>2, <1>3 DEF Begin, BeginCreate, BeginRedirect, BeginOwned, BeginBulk, Start
<1>4. CASE CheckCustomCode(r) \/ GenerateCode(r) \/ Insert(r)
  BY <1>1, <1>2, <1>4 DEF CheckCustomCode, GenerateCode, Insert, Done
<1>5. CASE Lookup(r) \/ Touch(r) \/ InsertClick(r) \/ BumpCounter(r) \/ CommitClick(r)
  BY <1>1, <1>2, <1>5 DEF Lookup, Touch, InsertClick, BumpCounter, CommitClick
<1>6. CASE Load(r)
  <2>1. AfterLoad(op[r].kind) \in Statements
    BY DEF AfterLoad
  <2>. QED  BY <1>1, <1>2, <1>6, <2>1 DEF Load
<1>7. CASE Update(r) \/ Publish(r) \/ FlipInTx(r) \/ ReadBack(r)
  BY <1>1, <1>2, <1>7 DEF Update, Publish, FlipInTx, ReadBack, Done
<1>8. CASE BeginDelete(r) \/ Wipe(r) \/ Drop(r) \/ CheckReferences(r) \/ CommitDelete(r)
  BY <1>1, <1>2, <1>8 DEF BeginDelete, NextBatch, Wipe, Drop, CheckReferences, CommitDelete
<1>9. CASE DeadlockVictim(r) \/ Fail(r) \/ LostAck(r)
  <2>1. FailureAnswer(r) \in {"done", "error"}
    BY DEF FailureAnswer
  <2>. QED  BY <1>1, <1>9, <2>1 DEF DeadlockVictim, Fail, LostAck
<1>. QED  BY <1>3, <1>4, <1>5, <1>6, <1>7, <1>8, <1>9 DEF Step

\* SetURLEnabledToggle: an answered toggle turned its link over and reported the
\* state it left.
THEOREM TogglesReportWhatTheyDid == Spec => ToggleReportsOutcome
<1> DEFINE Reports(r) ==
      pc[r] \in Statements /\ pc'[r] \in {"on", "off"} =>
         /\ Target(r) \in live'
         /\ row'[Target(r)].enabled = (pc'[r] = "on")
         /\ row'[Target(r)].enabled # row[Target(r)].enabled
<1>1. ASSUME IndInv, [Next]_vars, NEW r \in Requests PROVE Reports(r)
  <2>. SUFFICES ASSUME pc[r] \in Statements, pc'[r] \in {"on", "off"} PROVE Reports(r)
    OBVIOUS
  <2>0. TypeOK /\ pc'[r] # pc[r]
    BY <1>1 DEF IndInv, Statements, InTx, Deleting
  <2>1. PICK q \in Requests :
          Begin(q) \/ Step(q) \/ DeadlockVictim(q) \/ Fail(q) \/ LostAck(q)
    BY <1>1, <2>0 DEF Next, vars
  <2>2. TogglePostgres(q) \/ (ReadBack(q) /\ Target(q) \in live)
    <3>1. ASSUME Quietly(q) PROVE FALSE
      BY <2>0, <3>1 DEF Quietly, TypeOK
    <3>. QED  BY <2>1, <3>1, OthersQuiet
  <2>3. q = r
    BY <2>0, <2>2 DEF TogglePostgres, ReadBack, Answer, TypeOK
  <2>4. CASE TogglePostgres(r)
    <3>1. Target(r) \in live
      BY <2>0, <2>4 DEF TogglePostgres, Answer, TypeOK
    <3>2. /\ row' = [row EXCEPT ![Target(r)] =
                       [row[Target(r)] EXCEPT !.enabled = ToggledValue(r, Target(r))]]
          /\ pc'[r] = OnOff(ToggledValue(r, Target(r))) /\ live' = live
      BY <2>0, <2>4, <3>1 DEF TogglePostgres, Answer, TypeOK
    <3>3. row[Target(r)] \in Row /\ row \in [Ids -> Row] /\ Target(r) \in Ids
      BY <2>0, <3>1 DEF TypeOK
    <3>4. row'[Target(r)].enabled = ~row[Target(r)].enabled
      BY <3>2, <3>3 DEF Row, ToggledValue
    <3>5. pc'[r] = "on" <=> ~row[Target(r)].enabled
      BY <3>2 DEF OnOff, ToggledValue
    <3>6. row[Target(r)].enabled \in BOOLEAN
      BY <3>3 DEF Row
    <3>. QED  BY <3>1, <3>2, <3>4, <3>5, <3>6
  <2>5. CASE ReadBack(r) /\ Target(r) \in live
    <3>0. pc[r] = "readBack" /\ Commit(r) /\ pc'[r] = OnOff(tx[r].on)
      BY <2>0, <2>5 DEF ReadBack, Answer, TypeOK
    <3>1. /\ tx[r].flip = Target(r) /\ tx[r].on = ~row[Target(r)].enabled
          /\ tx[r].bump = NoId /\ tx[r].gone = {}
      BY <1>1, <2>5, <3>0 DEF IndInv, TxInv, BasisInv, WritesInv, Deleting, Target
    <3>2. row[Target(r)] \in Row /\ Target(r) \in Ids /\ Target(r) # NoId
      <4>1. Target(r) \in Ids
        BY <2>0, <2>5 DEF TypeOK
      <4>2. row[Target(r)] \in Row
        BY <2>0, <4>1 DEF TypeOK
      <4>. QED  BY <4>1, <4>2
    <3>3. row'[Target(r)] = [row[Target(r)] EXCEPT !.enabled = tx[r].on]
      BY <3>0, <3>1, <3>2 DEF Commit
    <3>4. row'[Target(r)].enabled = ~row[Target(r)].enabled
      BY <3>1, <3>2, <3>3 DEF Row
    <3>5. pc'[r] = "on" <=> ~row[Target(r)].enabled
      BY <3>0, <3>1 DEF OnOff
    <3>6. row[Target(r)].enabled \in BOOLEAN /\ Target(r) \in live'
      BY <2>5, <3>0, <3>1, <3>2 DEF Row, Commit
    <3>. QED  BY <3>4, <3>5, <3>6
  <2>. QED  BY <2>2, <2>3, <2>4, <2>5
<1>2. IndInv /\ [Next]_vars => [\A r \in Requests : Reports(r)]_vars
  BY <1>1
<1>. QED  BY <1>2, Invariant, PTL DEF Spec, ToggleReportsOutcome

-----------------------------------------------------------------------------
(* Whose links a request changes, and what a bulk delete leaves.           *)

\* What a step of r leaves to the others: their requests, and who owns which row.
Apart(r) == Alone(r) /\ \A q \in Requests \ {r} : todo'[q] = todo[q]

RowsKept ==
  /\ lastId <= lastId' /\ live' \cap (1 .. lastId) \subseteq live
  /\ \A i \in 1 .. lastId : row'[i].owner = row[i].owner /\ row'[i].code = row[i].code

Acts(r) == Begin(r) \/ Step(r) \/ DeadlockVictim(r) \/ Fail(r) \/ LostAck(r)

\* A commit changes neither code nor owner, and only removes links.
LEMMA CommitKeeps ==
  ASSUME TypeOK, NEW r \in Requests, Commit(r)
  PROVE  RowsKept
<1>1. 1 .. lastId \subseteq Ids /\ lastId \in Nat
  BY LinksAssumption DEF TypeOK
<1>2. ASSUME NEW i \in 1 .. lastId PROVE row'[i].owner = row[i].owner /\ row'[i].code = row[i].code
  <2>1. row[i] \in Row /\ i \in Ids
    BY <1>1 DEF TypeOK
  <2>2. \/ row'[i] = [row[i] EXCEPT !.hits = tx[r].hits]
        \/ row'[i] = [row[i] EXCEPT !.enabled = tx[r].on]
        \/ row'[i] = row[i]
    BY <2>1 DEF Commit
  <2>. QED  BY <2>1, <2>2 DEF Row
<1>. QED  BY <1>1, <1>2 DEF RowsKept, Commit

\* Nor does any other statement touch the code or the owner of a row that has been one.
LEMMA ActsKeep ==
  ASSUME TypeOK, NEW r \in Requests, Acts(r)
  PROVE  RowsKept
<1>0. 1 .. lastId \subseteq Ids /\ lastId \in Nat /\ row \in [Ids -> Row]
  BY LinksAssumption DEF TypeOK
<1>1. ASSUME UNCHANGED <<live, row, lastId>> PROVE RowsKept
  BY <1>0, <1>1 DEF RowsKept
<1>2. CASE Begin(r)
  BY <1>1, <1>2 DEF Begin, BeginCreate, BeginRedirect, BeginOwned, BeginBulk, Start, NoCommit
<1>3. CASE CheckCustomCode(r) \/ GenerateCode(r) \/ Lookup(r) \/ Touch(r) \/ Load(r)
  BY <1>1, <1>3 DEF CheckCustomCode, GenerateCode, Lookup, Touch, Load, NoCommit
<1>4. CASE InsertClick(r) \/ BumpCounter(r) \/ FlipInTx(r) \/ BeginDelete(r) \/ Wipe(r) \/ Drop(r)
  BY <1>1, <1>4 DEF InsertClick, BumpCounter, FlipInTx, BeginDelete, Wipe, Drop, tables
<1>5. CASE Insert(r)
  <2>1. CASE UNCHANGED <<live, row, lastId>>
    BY <1>1, <2>1
  <2>2. CASE /\ NewId \in Ids /\ live' = live \cup {NewId} /\ lastId' = NewId
             /\ \A i \in Ids \ {NewId} : row'[i] = row[i]
    <3>1. NewId \notin 1 .. lastId /\ lastId <= NewId
      BY <1>0 DEF NewId
    <3>. QED  BY <1>0, <2>2, <3>1 DEF RowsKept
  <2>. QED  BY <1>0, <1>5, <2>1, <2>2 DEF Insert
<1>6. CASE Update(r) \/ Publish(r) \/ TogglePostgres(r)
  <2>1. live' = live /\ lastId' = lastId
    BY <1>6 DEF Update, Publish, TogglePostgres
  <2>2. ASSUME NEW i \in 1 .. lastId
        PROVE  row'[i].owner = row[i].owner /\ row'[i].code = row[i].code
    <3>0. i \in Ids /\ row[i] \in Row
      BY <1>0
    <3>1. CASE Update(r)
      BY <1>0, <3>0, <3>1 DEF Update, Row
    <3>2. CASE Publish(r)
      BY <1>0, <3>0, <3>2 DEF Publish, Row
    <3>3. CASE TogglePostgres(r)
      <4>1. \/ row' = row
            \/ row' = [row EXCEPT ![Target(r)].enabled = ToggledValue(r, Target(r))]
        BY <3>3 DEF TogglePostgres
      <4>2. row'[i] \in {row[i], [row[i] EXCEPT !.enabled = ToggledValue(r, Target(r))]}
        BY <1>0, <3>0, <4>1
      <4>. QED  BY <3>0, <4>2 DEF Row
    <3>. QED  BY <1>6, <3>1, <3>2, <3>3
  <2>. QED  BY <1>0, <2>1, <2>2 DEF RowsKept
<1>7. CASE CommitClick(r) \/ ReadBack(r) \/ CommitDelete(r) \/ LostAck(r)
  BY <1>1, <1>7, CommitKeeps
     DEF CommitClick, ReadBack, CommitDelete, LostAck, Rollback, tables
<1>8. CASE CheckReferences(r) \/ DeadlockVictim(r) \/ Fail(r)
  BY <1>1, <1>8 DEF CheckReferences, DeadlockVictim, Fail, Rollback, NoCommit, tables
<1>. QED  BY <1>2, <1>3, <1>4, <1>5, <1>6, <1>7, <1>8 DEF Acts, Step

\* A request changes no variable of another.
LEMMA ActsApart ==
  ASSUME TypeOK, NEW r \in Requests, Acts(r)
  PROVE  Apart(r)
<1>. USE DEF TypeOK, Apart, Alone, Answer, Goto, request, Acquire
<1>1. CASE Begin(r)
  BY <1>1 DEF Begin, BeginCreate, BeginRedirect, BeginOwned, BeginBulk, Start, NoCommit
<1>2. CASE CheckCustomCode(r) \/ GenerateCode(r) \/ Lookup(r) \/ Touch(r) \/ Load(r)
  BY <1>2 DEF CheckCustomCode, GenerateCode, Lookup, Touch, Load, NoCommit, Read
<1>3. CASE Insert(r) \/ Update(r) \/ Publish(r) \/ TogglePostgres(r)
  BY <1>3 DEF Insert, Update, Publish, TogglePostgres, Done
<1>4. CASE InsertClick(r) \/ BumpCounter(r) \/ FlipInTx(r)
  BY <1>4 DEF InsertClick, BumpCounter, FlipInTx
<1>5. CASE BeginDelete(r) \/ Wipe(r) \/ Drop(r)
  BY <1>5 DEF BeginDelete, NextBatch, Wipe, Drop
<1>6. CASE CheckReferences(r)
  BY <1>6 DEF CheckReferences, NextBatch, Rollback, NoCommit
<1>7. CASE CommitClick(r) \/ ReadBack(r) \/ CommitDelete(r) \/ LostAck(r)
  BY <1>7 DEF CommitClick, ReadBack, CommitDelete, LostAck, Commit, Rollback
<1>8. CASE DeadlockVictim(r) \/ Fail(r)
  BY <1>8 DEF DeadlockVictim, Fail, Rollback
<1>. QED  BY <1>1, <1>2, <1>3, <1>4, <1>5, <1>6, <1>7, <1>8 DEF Acts, Step

\* So what is known of the others stays known.
LEMMA OthersClaim ==
  ASSUME IndInv, TypeOK', OwnerInv, NEW r \in Requests, Apart(r), RowsKept,
         NEW q \in Requests \ {r}
  PROVE  ClaimInv(q)' /\ BulkInv(q)'
<1>0. /\ pc'[q] = pc[q] /\ op'[q] = op[q] /\ batch'[q] = batch[q]
      /\ seen'[q] = seen[q] /\ tx'[q] = tx[q] /\ todo'[q] = todo[q]
  BY DEF Apart, Alone
<1>1. /\ lastId \in Nat /\ lastId' \in Nat /\ lastId <= lastId'
      /\ tx[q].gone \subseteq 1 .. lastId
  <2>1. lastId \in Ids \cup {0} /\ lastId' \in Ids \cup {0}
    BY DEF IndInv, TypeOK
  <2>2. live \subseteq 1 .. lastId /\ tx[q].gone \subseteq live
    BY DEF IndInv, TablesInv, IdInv, TxInv, BasisInv
  <2>3. lastId \in Nat /\ lastId' \in Nat
    BY <2>1, LinksAssumption
  <2>. QED  BY <2>2, <2>3 DEF RowsKept
<1>2. 1 .. lastId \subseteq 1 .. lastId'
  BY <1>1
<1>3. ClaimInv(q) /\ BulkInv(q)
  BY DEF OwnerInv
<1>4. ClaimInv(q)'
  BY <1>0, <1>1, <1>2, <1>3 DEF ClaimInv, RowsKept, Target, AskedFor
<1>5. BulkInv(q)'
  BY <1>0, <1>1, <1>2, <1>3 DEF BulkInv, RowsKept
<1>. QED  BY <1>4, <1>5

\* A request that is over, or has no link yet, claims none.
LEMMA NothingClaimed ==
  ASSUME NEW r \in Requests, pc'[r] \notin {"load"} \cup Changing, op'[r].kind # "bulk",
         todo'[r] = {}, tx'[r].gone = {}
  PROVE  ClaimInv(r)' /\ BulkInv(r)'
BY DEF ClaimInv, BulkInv, Changing

\* A request that ends has nothing to commit any more.
LEMMA AnswerClaims ==
  ASSUME TypeOK, NEW r \in Requests, NEW a \in Answers, Answer(r, a), tx'[r].gone = {}
  PROVE  ClaimInv(r)' /\ BulkInv(r)'
<1>1. pc'[r] \notin {"load"} \cup Changing
  BY DEF Answer, TypeOK, Answers, Changing, Deleting
<1>2. op'[r].kind # "bulk" /\ todo'[r] = {}
  BY DEF Answer, TypeOK, NoOp
<1>. QED  BY <1>1, <1>2, NothingClaimed

\* A request that is not deleting has condemned no link, and a bulk delete is never
\* anything else.
LEMMA NotDeleting ==
  ASSUME IndInv, OwnerInv, NEW r \in Requests, pc[r] \notin Deleting
  PROVE  tx[r].gone = {} /\ (pc[r] # "beginDelete" => op[r].kind # "bulk" /\ todo[r] = {})
BY DEF IndInv, TxInv, WritesInv, OwnerInv, BulkInv

\* The statements before a link is read.
LEMMA EarlyClaims ==
  ASSUME IndInv, TypeOK', OwnerInv, NEW r \in Requests,
         \/ Begin(r) \/ CheckCustomCode(r) \/ GenerateCode(r) \/ Insert(r) \/ Lookup(r)
         \/ Touch(r) \/ InsertClick(r) \/ BumpCounter(r)
  PROVE  ClaimInv(r)' /\ BulkInv(r)'
<1>. USE DEF Goto, request, Changing, Deleting
<1>0. TypeOK /\ tx[r] \in Tx
  BY DEF IndInv, TypeOK
<1>1. ASSUME NEW a \in {"done", "refused", "error"}, Answer(r, a), tx'[r].gone = {}
      PROVE  ClaimInv(r)' /\ BulkInv(r)'
  BY <1>0, <1>1, AnswerClaims DEF Answers
<1>2. ASSUME tx' = tx PROVE pc[r] \notin Deleting => tx'[r].gone = {}
  BY <1>2, NotDeleting
<1>3. CASE Begin(r)
  <2>0. pc[r] \in Answers /\ tx' = tx /\ tx'[r].gone = {} /\ todo[r] = {}
    <3>1. pc[r] \in Answers /\ tx' = tx
      BY <1>3 DEF Begin, BeginCreate, BeginRedirect, BeginOwned, BeginBulk, Start, NoCommit
    <3>. QED  BY <1>2, <3>1, NotDeleting DEF Answers
  <2>1. CASE BeginCreate(r) \/ BeginRedirect(r)
    <3>1. pc'[r] \in {"generate", "checkCode", "lookup"} /\ op'[r].kind # "bulk" /\ todo' = todo
      <4>1. \E o : \E l \in {"generate", "checkCode", "lookup"} :
              o.kind \in {"create", "redirect"} /\ Start(r, o, l)
        BY <2>1 DEF BeginCreate, BeginRedirect
      <4>. QED  BY <1>0, <4>1 DEF Start, TypeOK
    <3>. QED  BY <2>0, <3>1, NothingClaimed
  <2>2. CASE BeginOwned(r)
    <3>1. pc'[r] = "load" /\ op'[r].user \in Users /\ op'[r].kind # "bulk" /\ todo' = todo
      BY <1>0, <2>2 DEF BeginOwned, Start, TypeOK
    <3>. QED  BY <2>0, <3>1 DEF ClaimInv, BulkInv
  <2>3. CASE BeginBulk(r)
    <3>1. /\ pc'[r] = "beginDelete" /\ op'[r].user \in Users /\ op'[r].kind = "bulk"
          /\ op'[r].ids \subseteq 1 .. lastId' /\ todo'[r] = op'[r].ids
      BY <1>0, <2>3 DEF BeginBulk, TypeOK, NoCommit
    <3>. QED  BY <2>0, <3>1 DEF ClaimInv, BulkInv
  <2>. QED  BY <1>3, <2>1, <2>2, <2>3 DEF Begin
<1>4. CASE CheckCustomCode(r) \/ GenerateCode(r)
  <2>1. tx'[r].gone = {} /\ op[r].kind # "bulk" /\ todo[r] = {}
    BY <1>4, NotDeleting DEF CheckCustomCode, GenerateCode, NoCommit
  <2>2. ASSUME pc'[r] = "insert", op'[r].kind = op[r].kind, todo' = todo PROVE ClaimInv(r)' /\ BulkInv(r)'
    BY <2>1, <2>2, NothingClaimed
  <2>3. (\E c \in Codes : op' = [op EXCEPT ![r].code = c]) => op'[r].kind = op[r].kind
    BY <1>0 DEF TypeOK, Op
  <2>. QED
    BY <1>0, <1>1, <1>4, <2>1, <2>2, <2>3 DEF CheckCustomCode, GenerateCode, TypeOK
<1>5. CASE Insert(r)
  <2>1. tx'[r].gone = {}
    BY <1>5, NotDeleting DEF Insert
  <2>. QED  BY <1>1, <1>5, <2>1 DEF Insert, Done
<1>6. CASE Lookup(r) \/ Touch(r)
  <2>1. tx'[r].gone = {} /\ op[r].kind # "bulk" /\ todo[r] = {}
    BY <1>6, NotDeleting DEF Lookup, Touch, NoCommit
  <2>. QED  BY <1>0, <1>1, <1>6, <2>1, NothingClaimed DEF Lookup, Touch, TypeOK
<1>7. CASE InsertClick(r) \/ BumpCounter(r)
  <2>1. tx[r].gone = {} /\ op[r].kind # "bulk" /\ todo[r] = {}
    BY <1>7, NotDeleting DEF InsertClick, BumpCounter
  <2>2. tx'[r].gone = {}
    <3>1. CASE InsertClick(r)
      <4>1. tx' = tx \/ tx' = [tx EXCEPT ![r].ins = Target(r)]
        BY <3>1 DEF InsertClick
      <4>. QED  BY <1>0, <2>1, <4>1 DEF TypeOK, Tx
    <3>2. CASE BumpCounter(r)
      BY <1>0, <2>1, <3>2 DEF BumpCounter, TypeOK, Tx
    <3>. QED  BY <1>7, <3>1, <3>2
  <2>. QED  BY <1>0, <1>1, <1>7, <2>1, <2>2, NothingClaimed DEF InsertClick, BumpCounter, TypeOK
<1>. QED  BY <1>3, <1>4, <1>5, <1>6, <1>7

\* ownedLink, and the statements that change the link it read.
LEMMA OwnedClaims ==
  ASSUME IndInv, TypeOK', OwnerInv, RowsKept, NEW r \in Requests,
         Load(r) \/ Update(r) \/ Publish(r) \/ TogglePostgres(r) \/ FlipInTx(r)
  PROVE  ClaimInv(r)' /\ BulkInv(r)'
<1>. USE DEF Goto, request, Changing, Deleting
<1>0. TypeOK /\ tx[r] \in Tx
  BY DEF IndInv, TypeOK
<1>1. /\ tx[r].gone = {} /\ op[r].kind # "bulk" /\ todo[r] = {} /\ op[r].user \in Users
      /\ pc[r] \in {"load", "update", "publish", "toggle"}
  <2>1. pc[r] \in {"load", "update", "publish", "toggle"}
    BY DEF Load, Update, Publish, TogglePostgres, FlipInTx
  <2>. QED  BY <2>1, NotDeleting DEF OwnerInv, ClaimInv
<1>2. tx'[r].gone = {}
  <2>1. CASE FlipInTx(r)
    BY <1>0, <1>1, <2>1 DEF FlipInTx, TypeOK, Tx
  <2>. QED  BY <1>1, <2>1 DEF Load, Update, Publish, TogglePostgres, NoCommit
<1>3. ASSUME NEW a \in Answers, Answer(r, a) PROVE ClaimInv(r)' /\ BulkInv(r)'
  BY <1>0, <1>2, <1>3, AnswerClaims
<1>4. ASSUME op'[r] = op[r], todo'[r] = todo[r],
             pc'[r] \in {"update", "publish", "toggle", "readBack", "beginDelete"},
             Target(r)' \in 1 .. lastId', row'[Target(r)'].owner = op[r].user,
             row'[Target(r)'].code = op[r].code
      PROVE  ClaimInv(r)' /\ BulkInv(r)'
  BY <1>1, <1>2, <1>4 DEF ClaimInv, BulkInv
<1>5. CASE Load(r)
  <2>1. ASSUME NEW i \in live, row[i].code = op[r].code, OwnerMay(r, i), Read(r, i),
               Goto(r, AfterLoad(op[r].kind)), UNCHANGED <<op, todo, batch>>
        PROVE  ClaimInv(r)' /\ BulkInv(r)'
    <3>1. pc'[r] \in {"update", "publish", "toggle", "beginDelete"} /\ Target(r)' = i
      BY <1>0, <2>1 DEF AfterLoad, TypeOK, Read, Target
    <3>2. i \in 1 .. lastId' /\ row'[i] = row[i]
      BY <1>5 DEF IndInv, TablesInv, IdInv, Load, NoCommit
    <3>. QED  BY <1>4, <2>1, <3>1, <3>2 DEF OwnerMay
  <2>. QED  BY <1>3, <1>5, <2>1 DEF Load, Answers
<1>6. ASSUME pc[r] \in {"update", "publish", "toggle"}, op'[r] = op[r], todo'[r] = todo[r],
             seen'[r] = seen[r], pc'[r] \in {"publish", "readBack"}
      PROVE  ClaimInv(r)' /\ BulkInv(r)'
  <2>1. /\ Target(r) \in 1 .. lastId
        /\ row[Target(r)].owner = op[r].user /\ row[Target(r)].code = op[r].code
    BY <1>1, <1>6 DEF OwnerInv, ClaimInv
  <2>2. Target(r) \in 1 .. lastId' /\ Target(r)' = Target(r)
    <3>1. lastId \in Nat /\ lastId' \in Nat
      BY <1>0, LinksAssumption DEF TypeOK
    <3>2. lastId <= lastId'
      BY DEF RowsKept
    <3>. QED  BY <1>6, <2>1, <3>1, <3>2 DEF Target
  <2>. QED  BY <1>4, <1>6, <2>1, <2>2 DEF RowsKept
<1>7. CASE Update(r)
  BY <1>0, <1>3, <1>6, <1>7 DEF Update, TypeOK, Answers
<1>8. CASE Publish(r)
  BY <1>3, <1>8 DEF Publish, Done, Answers
<1>9. CASE TogglePostgres(r)
  BY <1>3, <1>9 DEF TogglePostgres, OnOff, Answers
<1>10. CASE FlipInTx(r)
  BY <1>0, <1>6, <1>10 DEF FlipInTx, TypeOK
<1>. QED  BY <1>5, <1>7, <1>8, <1>9, <1>10

\* The statements of a delete: a batch is part of what was asked for, and only the links
\* of its user are dropped.
LEMMA DeleteClaims ==
  ASSUME IndInv, TypeOK', OwnerInv, RowsKept, NEW r \in Requests,
         BeginDelete(r) \/ Wipe(r) \/ Drop(r) \/ CheckReferences(r)
  PROVE  ClaimInv(r)' /\ BulkInv(r)'
<1>. USE DEF Goto, request, Changing, Deleting
<1>0. /\ TypeOK /\ tx[r] \in Tx /\ ClaimInv(r) /\ BulkInv(r)
      /\ lastId \in Nat /\ op[r].ids \in SUBSET Ids
  BY LinksAssumption DEF IndInv, TypeOK, OwnerInv, Op
<1>1. CASE Rollback(r) /\ Answer(r, "error")
  <2>1. tx'[r].gone = {}
    BY <1>0, <1>1 DEF Rollback, TypeOK, NoTx
  <2>. QED  BY <1>0, <1>1, <2>1, AnswerClaims DEF Answers
<1>2. CASE ~(Rollback(r) /\ Answer(r, "error"))
  <2>1. UNCHANGED <<live, row, lastId, op, seen>>
    BY <1>2 DEF BeginDelete, NextBatch, Wipe, Drop, CheckReferences, NoCommit
  <2>2. /\ op[r].user \in Users
        /\ op[r].kind # "bulk" =>
             /\ Target(r) \in 1 .. lastId
             /\ row[Target(r)].owner = op[r].user /\ row[Target(r)].code = op[r].code
    BY <1>0 DEF ClaimInv, BeginDelete, Wipe, Drop, CheckReferences
  <2>3. ASSUME NextBatch(r), op[r].kind = "bulk"
        PROVE  /\ pc'[r] = "wipe" /\ batch'[r] \subseteq todo[r] /\ todo'[r] = todo[r] \ batch'[r]
    BY <1>0, <2>3 DEF NextBatch, BatchOf, TypeOK
  <2>4. CASE BeginDelete(r)
    <3>1. tx' = tx /\ tx[r].gone = {}
      BY <2>4, NotDeleting DEF BeginDelete
    <3>2. CASE op[r].kind = "bulk"
      <4>1. todo[r] = op[r].ids
        BY <1>0, <2>4, <3>2 DEF BulkInv, BeginDelete
      <4>2. NextBatch(r)
        BY <2>4, <3>2 DEF BeginDelete
      <4>. QED  BY <1>0, <2>1, <2>2, <2>3, <3>1, <3>2, <4>1, <4>2 DEF ClaimInv, BulkInv
    <3>3. CASE op[r].kind # "bulk"
      <4>1. batch'[r] = {Target(r)} /\ pc'[r] = "wipe" /\ todo' = todo
        BY <1>0, <2>4, <3>3 DEF BeginDelete, TypeOK
      <4>. QED  BY <1>0, <2>1, <2>2, <3>1, <3>3, <4>1 DEF ClaimInv, BulkInv, Target
    <3>. QED  BY <3>2, <3>3
  <2>5. CASE Wipe(r)
    <3>1. tx'[r].gone = tx[r].gone
      BY <1>0, <2>5 DEF Wipe, TypeOK, Tx
    <3>2. pc[r] = "wipe" /\ pc'[r] = "drop" /\ UNCHANGED <<op, todo, batch, seen>>
      BY <1>0, <2>5 DEF Wipe, TypeOK
    <3>3. ClaimInv(r)'
      BY <1>0, <2>1, <3>1, <3>2 DEF ClaimInv, Target, AskedFor
    <3>4. BulkInv(r)'
      BY <1>0, <2>1, <3>1, <3>2 DEF BulkInv
    <3>. QED  BY <3>3, <3>4
  <2>6. CASE Drop(r)
    <3>1. tx'[r].gone = tx[r].gone \cup Rows(r)
      BY <1>0, <2>6 DEF Drop, TypeOK, Tx
    <3>2. pc[r] = "drop" /\ pc'[r] = "check" /\ UNCHANGED <<op, todo, batch, seen>>
      BY <1>0, <2>6 DEF Drop, TypeOK
    <3>3. \A i \in Rows(r) : row[i].owner = op[r].user /\ AskedFor(r, i)
      BY <1>0, <2>2, <3>2 DEF Rows, ClaimInv, AskedFor
    <3>4. ClaimInv(r)'
      BY <1>0, <2>1, <3>1, <3>2, <3>3 DEF ClaimInv, Target, AskedFor
    <3>5. op[r].kind = "bulk" =>
            \A i \in batch[r] \cap live : row[i].owner = op[r].user => i \in Rows(r)
      BY DEF Rows
    <3>6. BulkInv(r)'
      BY <1>0, <2>1, <3>1, <3>2, <3>5 DEF BulkInv
    <3>. QED  BY <3>4, <3>6
  <2>7. CASE CheckReferences(r)
    <3>1. tx' = tx /\ pc[r] = "check"
      BY <1>2, <2>7 DEF CheckReferences, NoCommit
    <3>2. CASE todo[r] # {} /\ NextBatch(r)
      <4>1. CASE op[r].kind = "bulk"
        BY <1>0, <2>1, <2>2, <2>3, <3>1, <3>2, <4>1 DEF ClaimInv, BulkInv, Target, AskedFor
      <4>2. CASE op[r].kind # "bulk"
        <5>1. todo[r] = {}
          BY <1>0, <4>2 DEF BulkInv
        <5>. QED  BY <3>2, <5>1
      <4>. QED  BY <4>1, <4>2
    <3>3. CASE /\ todo[r] = {} /\ Goto(r, "commitDelete") /\ batch' = [batch EXCEPT ![r] = {}]
               /\ UNCHANGED <<op, todo, seen>>
      BY <1>0, <2>1, <2>2, <3>1, <3>3 DEF ClaimInv, BulkInv, Target, AskedFor, TypeOK
    <3>. QED  BY <1>2, <2>7, <3>2, <3>3 DEF CheckReferences
  <2>. QED  BY <2>4, <2>5, <2>6, <2>7
<1>. QED  BY <1>1, <1>2

\* A request that ends, whatever becomes of its transaction.
LEMMA EndClaims ==
  ASSUME IndInv, NEW r \in Requests,
         \/ CommitClick(r) \/ ReadBack(r) \/ CommitDelete(r)
         \/ DeadlockVictim(r) \/ Fail(r) \/ LostAck(r)
  PROVE  ClaimInv(r)' /\ BulkInv(r)'
<1>0. TypeOK /\ FailureAnswer(r) \in Answers /\ OnOff(tx[r].on) \in Answers
  BY DEF IndInv, FailureAnswer, OnOff, Answers
<1>1. tx' = [tx EXCEPT ![r] = NoTx]
  BY DEF CommitClick, ReadBack, CommitDelete, DeadlockVictim, Fail, LostAck, Commit, Rollback
<1>2. tx'[r].gone = {}
  BY <1>0, <1>1 DEF TypeOK, NoTx
<1>3. \E a \in Answers : Answer(r, a)
  BY <1>0 DEF CommitClick, ReadBack, CommitDelete, DeadlockVictim, Fail, LostAck, Answers
<1>. QED  BY <1>0, <1>2, <1>3, AnswerClaims

\* Every step keeps it.
LEMMA OwnerInductive == IndInv /\ OwnerInv /\ [Next]_vars => OwnerInv'
<1>. SUFFICES ASSUME IndInv, OwnerInv, [Next]_vars PROVE OwnerInv'
  OBVIOUS
<1>0. TypeOK /\ TypeOK'
  BY NextType DEF IndInv
<1>1. ASSUME NEW r \in Requests, Acts(r) PROVE OwnerInv'
  <2>1. RowsKept /\ Apart(r)
    BY <1>0, <1>1, ActsKeep, ActsApart
  <2>2. ClaimInv(r)' /\ BulkInv(r)'
    BY <1>0, <1>1, <2>1, EarlyClaims, OwnedClaims, DeleteClaims, EndClaims DEF Acts, Step
  <2>3. ASSUME NEW q \in Requests \ {r} PROVE ClaimInv(q)' /\ BulkInv(q)'
    BY <1>0, <2>1, OthersClaim
  <2>. QED  BY <2>2, <2>3 DEF OwnerInv
<1>2. CASE UNCHANGED vars
  BY <1>2 DEF vars, OwnerInv, ClaimInv, BulkInv, Target, AskedFor
<1>. QED  BY <1>1, <1>2 DEF Next, Acts

\* From the read of a link to the last statement a request works on a link of its user,
\* even if the code was freed and taken meanwhile, and a bulk delete forgets no link.
THEOREM OwnerInvariant == Spec => []OwnerInv
<1>1. Init => OwnerInv
  BY DEF Init, OwnerInv, ClaimInv, BulkInv, Changing, Deleting, NoOp, NoTx
<1>. QED  BY <1>1, OwnerInductive, Invariant, PTL DEF Spec

\* What a commit changes, link by link.
LEMMA CommitTouches ==
  ASSUME IndInv, NEW r \in Requests, Commit(r), NEW i \in live,
         pc[r] = "readBack" => Target(r) \in live,
         i \notin live' \/ row'[i].draft # row[i].draft \/ row'[i].enabled # row[i].enabled
  PROVE  (pc[r] = "readBack" /\ i = Target(r)) \/ i \in tx[r].gone
<1>0. /\ TypeOK /\ WritesInv(r) /\ BasisInv(r)
      /\ i \in Ids /\ row[i] \in Row /\ i # NoId
  <2>1. i \in Ids
    BY DEF IndInv, TypeOK
  <2>2. i # NoId
    BY <2>1
  <2>. QED  BY <2>1, <2>2 DEF IndInv, TypeOK, TxInv
<1>1. CASE i \notin live'
  BY <1>1 DEF Commit
<1>2. CASE row'[i].draft # row[i].draft \/ row'[i].enabled # row[i].enabled
  <2>1. \/ row'[i] = [row[i] EXCEPT !.hits = tx[r].hits]
        \/ tx[r].flip = i \/ row'[i] = row[i]
    BY <1>0 DEF Commit
  <2>2. tx[r].flip = i
    BY <1>0, <1>2, <2>1 DEF Row
  <2>. QED  BY <1>0, <2>2 DEF WritesInv, BasisInv, Target
<1>. QED  BY <1>1, <1>2

\* The statements that change or remove a link, and the links they do it to.
LEMMA WhoTouches ==
  ASSUME IndInv, NEW r \in Requests, Acts(r), NEW i \in live,
         i \notin live' \/ row'[i].draft # row[i].draft \/ row'[i].enabled # row[i].enabled
  PROVE  /\ pc'[r] # pc[r]
         /\ \/ pc[r] \in {"update", "publish", "toggle", "readBack"} /\ i = Target(r)
            \/ i \in tx[r].gone
<1>0. TypeOK /\ i \in Ids /\ row \in [Ids -> Row] /\ IdInv
  BY DEF IndInv, TypeOK, TablesInv
<1>. DEFINE Goal == /\ pc'[r] # pc[r]
                    /\ \/ pc[r] \in {"update", "publish", "toggle", "readBack"} /\ i = Target(r)
                       \/ i \in tx[r].gone
<1>1. ASSUME live' = live, row' = row PROVE FALSE
  BY <1>1
<1>2. CASE Begin(r)
  BY <1>1, <1>2 DEF Begin, BeginCreate, BeginRedirect, BeginOwned, BeginBulk, Start, NoCommit
<1>3. CASE CheckCustomCode(r) \/ GenerateCode(r) \/ Lookup(r) \/ Touch(r) \/ Load(r)
  BY <1>1, <1>3 DEF CheckCustomCode, GenerateCode, Lookup, Touch, Load, NoCommit
<1>4. CASE InsertClick(r) \/ BumpCounter(r) \/ FlipInTx(r) \/ BeginDelete(r) \/ Wipe(r) \/ Drop(r)
  BY <1>1, <1>4 DEF InsertClick, BumpCounter, FlipInTx, BeginDelete, Wipe, Drop, tables
<1>5. CASE CheckReferences(r) \/ DeadlockVictim(r) \/ Fail(r)
  BY <1>1, <1>5 DEF CheckReferences, DeadlockVictim, Fail, Rollback, NoCommit, tables
<1>6. CASE Insert(r)
  <2>1. lastId \in Nat /\ i \in 1 .. lastId
    BY <1>0, LinksAssumption DEF TypeOK, IdInv
  <2>2. i # NewId
    BY <2>1 DEF NewId
  <2>3. row'[i] = row[i] /\ i \in live'
    BY <1>0, <1>6, <2>2 DEF Insert
  <2>. QED  BY <2>3
<1>7. CASE Update(r) \/ Publish(r) \/ TogglePostgres(r)
  <2>1. pc[r] \in {"update", "publish", "toggle"} /\ pc'[r] # pc[r] /\ live' = live
    <3>1. CASE Update(r)
      BY <1>0, <3>1 DEF Update, Answer, Goto, TypeOK
    <3>2. CASE Publish(r)
      BY <1>0, <3>2 DEF Publish, Done, Answer, TypeOK
    <3>3. CASE TogglePostgres(r)
      BY <1>0, <3>3 DEF TogglePostgres, Answer, OnOff, TypeOK
    <3>. QED  BY <1>7, <3>1, <3>2, <3>3
  <2>2. i # Target(r) => row'[i] = row[i]
    BY <1>0, <1>7 DEF Update, Publish, TogglePostgres
  <2>. QED  BY <2>1, <2>2
<1>8. CASE (CommitClick(r) \/ ReadBack(r) \/ CommitDelete(r) \/ LostAck(r)) /\ Commit(r)
  <2>1. /\ pc[r] \in {"commitClick", "readBack", "commitDelete"}
        /\ pc[r] = "readBack" => Target(r) \in live
    <3>1. CASE ReadBack(r)
      <4>1. Target(r) \notin live => row' = row /\ live' = live
        BY <3>1 DEF ReadBack, Rollback, tables
      <4>. QED  BY <1>1, <3>1, <4>1 DEF ReadBack
    <3>. QED  BY <1>8, <3>1 DEF CommitClick, CommitDelete, LostAck
  <2>2. \E a \in Answers : Answer(r, a)
    BY <1>8 DEF CommitClick, ReadBack, CommitDelete, LostAck, FailureAnswer, OnOff, Answers
  <2>3. pc'[r] # pc[r]
    BY <1>0, <2>1, <2>2 DEF Answer, Answers, TypeOK
  <2>. QED  BY <1>8, <2>1, <2>3, CommitTouches
<1>9. CASE (CommitClick(r) \/ ReadBack(r) \/ CommitDelete(r) \/ LostAck(r)) /\ ~Commit(r)
  BY <1>1, <1>9 DEF CommitClick, ReadBack, CommitDelete, LostAck, Rollback, tables
<1>. QED
  BY <1>2, <1>3, <1>4, <1>5, <1>6, <1>7, <1>8, <1>9 DEF Acts, Step

\* ownedLink, DeleteUserURLs: a link is changed or removed only by a request of its
\* owner that asked for this link.
THEOREM OnlyOwnersChangeLinks == Spec => OwnersOnly
<1>. DEFINE Justified ==
       \A i \in live :
         (i \notin live' \/ row'[i].draft # row[i].draft \/ row'[i].enabled # row[i].enabled)
           => \E r \in Requests : /\ pc'[r] # pc[r] /\ op[r].user # NoUser
                                  /\ op[r].user = row[i].owner /\ AskedFor(r, i)
<1>1. ASSUME IndInv, OwnerInv, [Next]_vars, ~UNCHANGED vars PROVE Justified
  <2>. SUFFICES ASSUME NEW i \in live,
                       \/ i \notin live' \/ row'[i].draft # row[i].draft
                       \/ row'[i].enabled # row[i].enabled
                PROVE  \E r \in Requests : /\ pc'[r] # pc[r] /\ op[r].user # NoUser
                                           /\ op[r].user = row[i].owner /\ AskedFor(r, i)
    OBVIOUS
  <2>1. PICK r \in Requests : Acts(r)
    BY <1>1 DEF Next, Acts
  <2>2. /\ pc'[r] # pc[r]
        /\ \/ pc[r] \in {"update", "publish", "toggle", "readBack"} /\ i = Target(r)
           \/ i \in tx[r].gone
    BY <1>1, <2>1, WhoTouches
  <2>3. ClaimInv(r) /\ BulkInv(r) /\ WritesInv(r)
    BY <1>1 DEF OwnerInv, IndInv, TxInv
  <2>4. CASE i \in tx[r].gone
    BY <2>2, <2>3, <2>4, LinksAssumption DEF ClaimInv, Changing, WritesInv
  <2>5. CASE pc[r] \in {"update", "publish", "toggle", "readBack"} /\ i = Target(r)
    BY <2>2, <2>3, <2>5, LinksAssumption DEF ClaimInv, BulkInv, Changing, Deleting, AskedFor
  <2>. QED  BY <2>2, <2>4, <2>5
<1>2. IndInv /\ OwnerInv /\ [Next]_vars => [Justified]_vars
  BY <1>1
<1>. QED  BY <1>2, Invariant, OwnerInvariant, PTL DEF Spec, OwnersOnly

\* DeleteUserURLs: a bulk delete that removes a link removes every link it was asked to
\* remove and may, in one step, however many batches that took.
THEOREM BulkDeletesAtOnce == Spec => BulkAllOrNothing
<1>. DEFINE Whole ==
       \A r \in Requests :
         op[r].kind = "bulk" /\ pc'[r] # pc[r] /\ live' # live
           => \A i \in live' \cap op[r].ids : row[i].owner # op[r].user
<1>1. ASSUME IndInv, OwnerInv, [Next]_vars, ~UNCHANGED vars PROVE Whole
  <2>. SUFFICES ASSUME NEW r \in Requests, op[r].kind = "bulk", pc'[r] # pc[r], live' # live,
                       NEW i \in live' \cap op[r].ids
                PROVE  row[i].owner # op[r].user
    OBVIOUS
  <2>0. TypeOK /\ BulkInv(r)
    BY <1>1 DEF IndInv, OwnerInv
  <2>1. PICK q \in Requests : Acts(q)
    BY <1>1 DEF Next, Acts
  <2>2. q = r
    BY <2>0, <2>1, ActsApart DEF Apart, Alone
  <2>3. pc[r] \in {"beginDelete"} \cup Deleting
    BY <2>0 DEF BulkInv
  <2>4. CommitDelete(r) \/ LostAck(r)
    <3>1. ASSUME live' = live PROVE FALSE
      BY <3>1
    <3>2. ~(Begin(r) \/ Insert(r) \/ CommitClick(r) \/ ReadBack(r))
      BY <2>3 DEF Deleting, Answers, Begin, BeginCreate, BeginRedirect, BeginOwned,
                  BeginBulk, Start, Insert, CommitClick, ReadBack
    <3>3. ~(CheckCustomCode(r) \/ GenerateCode(r) \/ Lookup(r) \/ Touch(r) \/ Load(r))
      BY <3>1 DEF CheckCustomCode, GenerateCode, Lookup, Touch, Load, NoCommit
    <3>4. ~(\/ InsertClick(r) \/ BumpCounter(r) \/ FlipInTx(r) \/ BeginDelete(r) \/ Wipe(r)
            \/ Drop(r) \/ Update(r) \/ Publish(r) \/ TogglePostgres(r))
      BY <3>1 DEF InsertClick, BumpCounter, FlipInTx, BeginDelete, Wipe, Drop, Update,
                  Publish, TogglePostgres, tables
    <3>5. ~(CheckReferences(r) \/ DeadlockVictim(r) \/ Fail(r))
      BY <3>1 DEF CheckReferences, DeadlockVictim, Fail, Rollback, NoCommit, tables
    <3>. QED  BY <2>1, <2>2, <3>2, <3>3, <3>4, <3>5 DEF Acts, Step
  <2>5. pc[r] = "commitDelete" /\ live' = live \ tx[r].gone
    BY <2>3, <2>4 DEF CommitDelete, LostAck, Commit, Deleting
  <2>. QED  BY <2>0, <2>5 DEF BulkInv
<1>2. IndInv /\ OwnerInv /\ [Next]_vars => [Whole]_vars
  BY <1>1
<1>. QED  BY <1>2, Invariant, OwnerInvariant, PTL DEF Spec, BulkAllOrNothing

-----------------------------------------------------------------------------
(* Refinement: the tables read like a LinkDirectory.                       *)

\* A commit is one operation of the directory.
LEMMA CommitIsOne ==
  ASSUME IndInv, TypeOK', NEW r \in Requests, Commit(r),
         \/ pc[r] = "commitClick"
         \/ pc[r] = "readBack" /\ seen[r].id \in live
         \/ pc[r] = "commitDelete"
  PROVE  Directory!Next
<1>0. /\ TypeOK /\ TxInv /\ tx[r] \in Tx /\ WritesInv(r) /\ BasisInv(r) /\ lastId' = lastId
      /\ row \in [Ids -> Row] /\ \A i \in Ids : row[i] \in Row
  BY DEF IndInv, TypeOK, TxInv, Commit
<1>1. /\ live' = live \ tx[r].gone
      /\ clicks' \in [Ids -> Nat] /\ clicks \in [Ids -> Nat] /\ tx[r].gone \subseteq live
      /\ \A i \in Ids : clicks'[i] = IF i \in tx[r].gone THEN 0
                                    ELSE IF tx[r].ins = i THEN clicks[i] + 1 ELSE clicks[i]
  BY <1>0, CommitTables DEF TypeOK, BasisInv
<1>2. row' = [i \in Ids |->
                IF tx[r].bump = i THEN [row[i] EXCEPT !.hits = tx[r].hits]
                ELSE IF tx[r].flip = i THEN [row[i] EXCEPT !.enabled = tx[r].on]
                ELSE row[i]]
  BY DEF Commit
<1>. NoId \notin Ids
  BY DEF Ids, NoId
<1>3. CASE pc[r] = "commitClick"
  <2>0. PICK i \in Ids : i = seen[r].id /\ i \in live
    BY <1>0, <1>3 DEF BasisInv, TypeOK
  <2>1. /\ tx[r].bump = i /\ tx[r].ins = i /\ tx[r].flip = NoId
        /\ tx[r].gone = {} /\ tx[r].hits = row[i].hits + 1
    BY <1>0, <1>3, <2>0 DEF WritesInv, BasisInv, Deleting
  <2>2. row' = [row EXCEPT ![i] = [row[i] EXCEPT !.hits = row[i].hits + 1]]
    <3>1. row' = [j \in Ids |-> IF i = j THEN [row[j] EXCEPT !.hits = row[i].hits + 1]
                               ELSE row[j]]
      <4>1. ASSUME NEW j \in Ids
            PROVE  row'[j] = IF i = j THEN [row[j] EXCEPT !.hits = row[i].hits + 1]
                             ELSE row[j]
        BY <1>2, <2>1
      <4>. QED  BY <1>2, <4>1, Zenon
    <3>. QED  BY <3>1, <1>0
  <2>3. clicks' = [clicks EXCEPT ![i] = clicks[i] + 1]
    <3>1. \A j \in Ids : clicks'[j] = [clicks EXCEPT ![i] = clicks[i] + 1][j]
      BY <1>1, <2>1, <2>0
    <3>. QED  BY <1>1, <3>1
  <2>4. Directory!Click(i)
    BY <1>0, <1>1, <2>1, <2>2, <2>3 DEF Directory!Click
  <2>. QED  BY <2>0, <2>4 DEF Directory!Next
<1>4. CASE pc[r] = "readBack" /\ seen[r].id \in live
  <2>0. PICK i \in Ids : i = seen[r].id /\ i \in live
    BY <1>0, <1>4 DEF TypeOK
  <2>1. /\ tx[r].flip = i /\ tx[r].ins = NoId /\ tx[r].bump = NoId
        /\ tx[r].gone = {} /\ tx[r].on = ~row[i].enabled
    BY <1>0, <1>4, <2>0 DEF WritesInv, BasisInv, Deleting
  <2>2. row' = [row EXCEPT ![i] = [row[i] EXCEPT !.enabled = ~row[i].enabled]]
    <3>1. row' = [j \in Ids |-> IF i = j THEN [row[j] EXCEPT !.enabled = ~row[i].enabled]
                               ELSE row[j]]
      <4>1. ASSUME NEW j \in Ids
            PROVE  row'[j] = IF i = j THEN [row[j] EXCEPT !.enabled = ~row[i].enabled]
                             ELSE row[j]
        BY <1>2, <2>1
      <4>. QED  BY <1>2, <4>1, Zenon
    <3>. QED  BY <3>1, <1>0
  <2>3. clicks' = clicks
    <3>1. \A j \in Ids : clicks'[j] = clicks[j]
      BY <1>1, <2>1
    <3>2. /\ clicks' = [j \in Ids |-> clicks'[j]]
          /\ clicks = [j \in Ids |-> clicks[j]]
      BY <1>1
    <3>3. [j \in Ids |-> clicks'[j]] = [j \in Ids |-> clicks[j]]
      BY <3>1
    <3>. QED  BY <3>2, <3>3
  <2>4. Directory!Toggle(i)
    BY <1>0, <1>1, <2>1, <2>2, <2>3 DEF Directory!Toggle
  <2>. QED  BY <2>0, <2>4 DEF Directory!Next
<1>5. CASE pc[r] = "commitDelete"
  <2>1. tx[r].ins = NoId /\ tx[r].bump = NoId /\ tx[r].flip = NoId
    BY <1>0, <1>5 DEF WritesInv
  <2>2. row' = row
    BY <1>0, <1>2, <2>1
  <2>3. clicks' = [i \in Ids |-> IF i \in tx[r].gone THEN 0 ELSE clicks[i]]
    BY <1>1, <2>1
  <2>4. Directory!Remove(tx[r].gone)
    BY <1>0, <1>1, <2>2, <2>3 DEF Directory!Remove, Directory!Ids
  <2>. QED  BY <1>1, <2>4 DEF Directory!Next
<1>. QED  BY <1>3, <1>4, <1>5

\* A statement that stands alone is one operation of the directory.
LEMMA StatementIsOne ==
  ASSUME IndInv, TypeOK', NEW r \in Requests,
         Insert(r) \/ Update(r) \/ Publish(r) \/ TogglePostgres(r)
  PROVE  Directory!Next \/ UNCHANGED <<live, row, lastId, clicks>>
<1>0. /\ TypeOK /\ WritesInv(r) /\ op[r] \in Op
      /\ row \in [Ids -> Row] /\ live \subseteq Ids /\ \A i \in Ids : row[i] \in Row
  BY DEF IndInv, TypeOK, TxInv
<1>1. CASE Insert(r)
  <2>1. CASE UNCHANGED <<live, row, lastId>>
    BY <1>1, <2>1 DEF Insert
  <2>2. CASE ~UNCHANGED <<live, row, lastId>>
    <3>1. /\ op[r].code \in Codes /\ op[r].user \in Users \cup {NoUser} /\ op[r].draft \in BOOLEAN
      BY <1>0, <1>1 DEF WritesInv, Insert, Op
    <3>2. \A i \in live : row[i].code # op[r].code
      BY <1>1, <2>2 DEF Insert, UniqueViolation, Taken
    <3>3. Directory!Create(op[r].code, op[r].user, op[r].draft)
      BY <1>1, <2>2, <3>2 DEF Insert, NewId, Directory!Create, Directory!Ids
    <3>. QED  BY <3>1, <3>3 DEF Directory!Next
  <2>. QED  BY <2>1, <2>2
<1>2. CASE Update(r)
  <2>1. CASE Target(r) \in live
    <3>1. op[r].draft \in BOOLEAN
      BY <1>0 DEF Op
    <3>2. Directory!Edit(Target(r), op[r].draft)
      BY <1>2, <2>1 DEF Update, Directory!Edit
    <3>. QED  BY <2>1, <3>1, <3>2 DEF Directory!Next
  <2>2. CASE Target(r) \notin live
    BY <1>2, <2>2 DEF Update
  <2>. QED  BY <2>1, <2>2
<1>3. CASE Publish(r)
  <2>1. CASE Target(r) \in live
    <3>1. Directory!Publish(Target(r))
      BY <1>3, <2>1 DEF Publish, Directory!Publish
    <3>. QED  BY <2>1, <3>1 DEF Directory!Next
  <2>2. CASE Target(r) \notin live
    BY <1>3, <2>2 DEF Publish
  <2>. QED  BY <2>1, <2>2
<1>4. CASE TogglePostgres(r)
  <2>1. CASE Target(r) \in live
    <3>1. row' = [row EXCEPT ![Target(r)] =
                    [row[Target(r)] EXCEPT !.enabled = ~row[Target(r)].enabled]]
      BY <1>4, <2>1 DEF TogglePostgres, ToggledValue
    <3>2. Directory!Toggle(Target(r))
      BY <1>4, <2>1, <3>1 DEF TogglePostgres, Directory!Toggle
    <3>. QED  BY <2>1, <3>2 DEF Directory!Next
  <2>2. CASE Target(r) \notin live
    BY <1>4, <2>2 DEF TogglePostgres
  <2>. QED  BY <2>1, <2>2
<1>. QED  BY <1>1, <1>2, <1>3, <1>4

\* Every step of a request is one operation of the directory or none at all.
LEMMA StepIsOne ==
  ASSUME IndInv, TypeOK', [Next]_vars
  PROVE  Directory!Next \/ UNCHANGED <<live, row, lastId, clicks>>
<1>. USE DEF NoCommit, tables, Rollback, Start
<1>1. ASSUME NEW r \in Requests, Begin(r) PROVE UNCHANGED <<live, row, lastId, clicks>>
  BY <1>1 DEF Begin, BeginCreate, BeginRedirect, BeginOwned, BeginBulk
<1>2. ASSUME NEW r \in Requests,
             \/ CheckCustomCode(r) \/ GenerateCode(r) \/ Lookup(r) \/ Touch(r) \/ Load(r)
             \/ InsertClick(r) \/ BumpCounter(r) \/ FlipInTx(r) \/ BeginDelete(r) \/ Wipe(r)
             \/ Drop(r) \/ CheckReferences(r) \/ DeadlockVictim(r) \/ Fail(r)
             \/ (ReadBack(r) /\ Target(r) \notin live)
      PROVE  UNCHANGED <<live, row, lastId, clicks>>
  BY <1>2 DEF CheckCustomCode, GenerateCode, Lookup, Touch, Load, InsertClick, BumpCounter,
              FlipInTx, BeginDelete, Wipe, Drop, CheckReferences, DeadlockVictim, Fail, ReadBack
<1>3. ASSUME NEW r \in Requests,
             \/ CommitClick(r) \/ CommitDelete(r) \/ LostAck(r)
             \/ (ReadBack(r) /\ Target(r) \in live)
      PROVE  Directory!Next
  BY <1>3, CommitIsOne DEF CommitClick, CommitDelete, LostAck, ReadBack, Target
<1>4. CASE UNCHANGED vars
  BY <1>4 DEF vars
<1>5. ASSUME NEW r \in Requests, Begin(r) \/ Step(r) \/ DeadlockVictim(r) \/ Fail(r) \/ LostAck(r)
      PROVE  Directory!Next \/ UNCHANGED <<live, row, lastId, clicks>>
  BY <1>1, <1>2, <1>3, <1>5, StatementIsOne DEF Step
<1>. QED  BY <1>4, <1>5 DEF Next

\* RecordClick, DeleteURL, DeleteUserURLs and SetURLEnabledToggle: whatever their
\* statements interleave with, everybody who reads the tables sees each of them
\* happen at once or not at all.
THEOREM LinksImplementDirectory == Spec => ImplementsDirectory
<1>1. Init => Directory!Init
  BY DEF Init, NoRow, Directory!Init, Directory!Ids
<1>2. IndInv /\ IndInv' /\ [Next]_vars => [Directory!Next]_Directory!vars
  BY StepIsOne DEF IndInv, Directory!vars
<1>. QED  BY <1>1, <1>2, Invariant, PTL DEF Spec, ImplementsDirectory, Directory!Spec
=============================================================================

--------------------------- MODULE LinkDirectory ---------------------------
(***************************************************************************)
(* What the link tables promise to everybody who reads them: a directory   *)
(* in which each operation happens at once.  There are no requests, no     *)
(* transactions and no locks here; Links is shown to implement this.       *)
(***************************************************************************)
EXTENDS Naturals

CONSTANTS Users, NoUser, Codes, NoCode, MaxId

Ids == 1 .. MaxId

VARIABLES
  live,         \* links that exist
  row,          \* row[i]: what a reader sees of link i
  lastId,       \* the last id given to a link
  log           \* log[i]: clicks on record for link i

vars == <<live, row, lastId, log>>

Init ==
  /\ live = {} /\ lastId = 0
  /\ row = [i \in Ids |-> [code |-> NoCode, owner |-> NoUser, draft |-> FALSE,
                           enabled |-> FALSE, hits |-> 0]]
  /\ log = [i \in Ids |-> 0]

\* A link is born under a code no other link has, with an id never used before.
Create(c, u, d) ==
  /\ \A i \in live : row[i].code # c
  /\ lastId + 1 \in Ids
  /\ lastId' = lastId + 1
  /\ live' = live \cup {lastId + 1}
  /\ row' = [row EXCEPT ![lastId + 1] = [code |-> c, owner |-> u, draft |-> d,
                                         enabled |-> ~d, hits |-> 0]]
  /\ UNCHANGED log

\* A click goes on record and into the counter at once.
Click(i) ==
  /\ row' = [row EXCEPT ![i].hits = @ + 1]
  /\ log' = [log EXCEPT ![i] = @ + 1]
  /\ UNCHANGED <<live, lastId>>

\* Saved as a draft or taken out of draft; whether it is enabled stays.
Edit(i, d) ==
  /\ row' = [row EXCEPT ![i].draft = d]
  /\ UNCHANGED <<live, lastId, log>>

Publish(i) ==
  /\ row' = [row EXCEPT ![i].draft = FALSE, ![i].enabled = TRUE]
  /\ UNCHANGED <<live, lastId, log>>

Toggle(i) ==
  /\ row' = [row EXCEPT ![i].enabled = ~@]
  /\ UNCHANGED <<live, lastId, log>>

\* Links go together with everything on record about them.
Remove(S) ==
  /\ live' = live \ S
  /\ log' = [i \in Ids |-> IF i \in S THEN 0 ELSE log[i]]
  /\ UNCHANGED <<row, lastId>>

Next ==
  \/ \E c \in Codes, u \in Users \cup {NoUser}, d \in BOOLEAN : Create(c, u, d)
  \/ \E i \in live : \/ Click(i) \/ Publish(i) \/ Toggle(i)
                     \/ \E d \in BOOLEAN : Edit(i, d)
  \/ \E S \in SUBSET live : Remove(S)

Spec == Init /\ [][Next]_vars

=============================================================================

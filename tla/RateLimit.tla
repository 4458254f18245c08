----------------------------- MODULE RateLimit -----------------------------
(***************************************************************************)
(* The fixed-window limiter of internal/ratelimit.  Allow reads the clock  *)
(* once and hits one counter per clause, each named by the window its      *)
(* reading falls in; a backend, the process's own map or Redis, counts the *)
(* hits and forgets a counter by a clock of its own, later than Allow's.   *)
(***************************************************************************)
EXTENDS Naturals, Sequences

CONSTANTS
  Calls,        \* calls of Allow in flight; a slot is used again
  Clients,      \* scope and address: who is limited
  Specs,        \* limit strings: [ok |-> it parses, rules |-> its clauses]
  SafeDefault,  \* safeDefaultRules
  Margin,       \* what Redis keeps a counter beyond its window
  MayFail,      \* TRUE: Redis may fail
  MaxDelay,     \* bound: the ticks from Allow's reading to its last hit
  MaxTime,      \* bound: the clock
  LastCall,     \* bound: the time after which no call is made
  MaxCalls      \* bound: calls made

\* opTimeout bounds the delay for Redis; for the map nothing but this bound does.
ASSUME RateLimitAssumption ==
  /\ Margin \in Nat /\ MaxDelay \in Nat /\ MaxTime \in Nat /\ LastCall \in Nat
  /\ MaxCalls \in Nat
  /\ MayFail \in BOOLEAN /\ Clients # {}
  /\ MaxDelay <= Margin
  /\ SafeDefault # <<>>
  /\ \A rs \in {s.rules : s \in Specs} \cup {SafeDefault} :
       /\ rs \in Seq([limit: Nat, window: Nat])
       /\ \A i \in DOMAIN rs : MaxDelay < rs[i].window

VARIABLES
  clock,
  redis,        \* the backend is Redis, not the map
  spec,         \* the configured limit string
  counts,       \* the backend's counters, by key: [n, expires]
  tick,         \* {the time the reaper's ticker sent}
  pc,           \* pc[c]: where call c is
  who,          \* who[c]: the client c is for
  at,           \* at[c]: what c read from the clock
  nth,          \* nth[c]: the clause c is at
  made,         \* calls made so far
  hits,         \* history: calls that hit a clause in a window,
  passed        \* and those it let through

backend == <<counts, tick>>
calls == <<pc, who, at, nth, made>>
history == <<hits, passed>>
vars == <<clock, redis, spec, counts, tick, pc, who, at, nth, made, hits, passed>>

Done == {"idle", "allowed", "denied"}

\* Mutant: a string that does not parse sets no limit.
ParseOnly(s) == s.rules

\* A limit string that does not parse does not disable the limit.
MustParse(s) == IF s.ok THEN s.rules ELSE SafeDefault

rules == MustParse(spec)

Times == 0 .. MaxTime
\* What a counter is for, and, in the history, which clause of the string it is.
Clauses == UNION {DOMAIN MustParse(s) : s \in Specs}
Widths == UNION {{MustParse(s)[i].window : i \in DOMAIN MustParse(s)} : s \in Specs}
Keys == [client: Clients, window: Widths, bucket: Times]
Windows == [client: Clients, clause: Clauses, bucket: Times]

\* buildRateLimitBackend falls back to the map when Redis does not answer.
Init ==
  /\ clock = 0 /\ redis \in BOOLEAN
  /\ spec \in Specs
  /\ counts = <<>> /\ tick = {}
  /\ pc = [c \in Calls |-> "idle"]
  /\ who = [c \in Calls |-> CHOOSE i \in Clients : TRUE]
  /\ at = [c \in Calls |-> 0] /\ nth = [c \in Calls |-> 1] /\ made = 0
  /\ hits = [w \in Windows |-> 0] /\ passed = [w \in Windows |-> 0]

-----------------------------------------------------------------------------
(* Allow.                                                                  *)

Truncate(t, window) == t - (t % window)

Rule(c) == rules[nth[c]]

\* Mutant: the windows of a clause share a counter.
SharedKey(c) == [client |-> who[c], window |-> Rule(c).window, bucket |-> 0]

Key(c) == [client |-> who[c], window |-> Rule(c).window,
           bucket |-> Truncate(at[c], Rule(c).window)]

WindowOf(c, i) == [client |-> who[c], clause |-> i,
                   bucket |-> Truncate(at[c], rules[i].window)]
Window(c) == WindowOf(c, nth[c])

Allow(c, i) ==
  /\ pc[c] \in Done /\ made < MaxCalls /\ clock <= LastCall
  /\ made' = made + 1
  /\ who' = [who EXCEPT ![c] = i]
  /\ at' = [at EXCEPT ![c] = clock]
  /\ nth' = [nth EXCEPT ![c] = 1]
  /\ pc' = [pc EXCEPT ![c] = IF rules = <<>> THEN "allowed" ELSE "counting"]
  /\ UNCHANGED <<clock, redis, spec, backend, history>>

\* The clause is satisfied, or could not be asked: the next one, if any.
Advance(c) ==
  IF nth[c] < Len(rules)
  THEN nth' = [nth EXCEPT ![c] = @ + 1] /\ UNCHANGED pc
  ELSE pc' = [pc EXCEPT ![c] = "allowed"] /\ UNCHANGED nth

\* now.After(e.expires).
Expired(entry, t) == t > entry.expires

Live(key) == key \in DOMAIN counts /\ ~Expired(counts[key], clock)

Lifetime(window) == IF redis THEN window + Margin ELSE window

\* A live counter of the map keeps its time; Redis sets it anew with each hit.
Counter(key) ==
  IF Live(key)
  THEN [n |-> counts[key].n + 1,
        expires |-> IF redis THEN clock + Lifetime(key.window) ELSE counts[key].expires]
  ELSE [n |-> 1, expires |-> clock + Lifetime(key.window)]

Store(key, entry) ==
  counts' = [k \in DOMAIN counts \cup {key} |-> IF k = key THEN entry ELSE counts[k]]

\* Mutant: the hit that reaches the limit is denied, and one more is let through.
OverByOne(n, limit) == n > limit + 1

Exceeds(n, limit) == n > limit

Incr(c) ==
  /\ pc[c] = "counting"
  /\ LET entry == Counter(Key(c)) IN
       /\ Store(Key(c), entry)
       /\ hits' = [hits EXCEPT ![Window(c)] = @ + 1]
       /\ IF Exceeds(entry.n, Rule(c).limit)
          THEN pc' = [pc EXCEPT ![c] = "denied"] /\ UNCHANGED <<nth, passed>>
          ELSE passed' = [passed EXCEPT ![Window(c)] = @ + 1] /\ Advance(c)
  /\ UNCHANGED <<clock, redis, spec, tick, who, at, made>>

\* Redis answers in time or the clause is skipped, whether it counted or not.
IncrFails(c) ==
  /\ redis /\ MayFail /\ pc[c] = "counting"
  /\ \/ UNCHANGED <<counts, hits>>
     \/ /\ Store(Key(c), Counter(Key(c)))
        /\ hits' = [hits EXCEPT ![Window(c)] = @ + 1]
  /\ Advance(c)
  /\ UNCHANGED <<clock, redis, spec, tick, who, at, made, passed>>

-----------------------------------------------------------------------------
(* The reaper, Redis' own expiry, and the clock.                           *)

ReaperTick ==
  /\ ~redis /\ tick # {clock}
  /\ tick' = {clock}
  /\ UNCHANGED <<clock, redis, spec, counts, calls, history>>

\* Mutant: the test is the wrong way round.
DropLive(t) ==
  counts' = [k \in {l \in DOMAIN counts : Expired(counts[l], t)} |-> counts[k]]

Drop(t) ==
  counts' = [k \in {l \in DOMAIN counts : ~Expired(counts[l], t)} |-> counts[k]]

\* reap holds the tick until the mutex is free.
Reap ==
  /\ tick # {}
  /\ \E t \in tick : Drop(t)
  /\ tick' = {}
  /\ UNCHANGED <<clock, redis, spec, calls, history>>

Expire ==
  /\ redis /\ \E k \in DOMAIN counts : Expired(counts[k], clock)
  /\ Drop(clock)
  /\ UNCHANGED <<clock, redis, spec, tick, calls, history>>

Pass ==
  /\ clock < MaxTime
  /\ \A c \in Calls : pc[c] = "counting" => clock - at[c] < MaxDelay
  /\ clock' = clock + 1
  /\ UNCHANGED <<redis, spec, backend, calls, history>>

Step(c) == (\E i \in Clients : Allow(c, i)) \/ Incr(c) \/ IncrFails(c)

Next == (\E c \in Calls : Step(c)) \/ ReaperTick \/ Reap \/ Expire \/ Pass

Spec == Init /\ [][Next]_vars

\* The reaper's goroutine runs, its ticker ticks, Redis expires what it must.
FairSpec ==
  Spec /\ WF_vars(ReaperTick) /\ WF_vars(Reap) /\ WF_vars(Expire)
       /\ \A c \in Calls : WF_vars(Incr(c))

-----------------------------------------------------------------------------
(* What the limits are worth.                                              *)

TypeOK ==
  /\ clock \in Times /\ redis \in BOOLEAN
  /\ spec \in Specs
  /\ DOMAIN counts \subseteq Keys
  /\ \A k \in DOMAIN counts : counts[k] \in [n: Nat \ {0}, expires: Nat]
  /\ tick \in SUBSET Times
  /\ pc \in [Calls -> Done \cup {"counting"}]
  /\ who \in [Calls -> Clients] /\ at \in [Calls -> Times] /\ nth \in [Calls -> Nat]
  /\ hits \in [Windows -> Nat] /\ passed \in [Windows -> Nat]

\* Allow over both backends: in no window does a clause let more calls of a client
\* through than its limit.  The map counts from the first hit and not from the
\* start of the window, so with calls that are more than a tick late it may start
\* over once in a window.
Rounds == IF redis \/ MaxDelay <= 1 THEN 1 ELSE 2

WithinLimit ==
  \A w \in Windows :
    w.clause \in DOMAIN rules => passed[w] <= Rounds * rules[w.clause].limit

\* A clause shares its counter with the clauses of the string that have its window.
OwnCounter(i) == \A j \in DOMAIN rules : rules[j].window = rules[i].window => j = i

\* A call is denied for its own client's hits on the clause and window that deny
\* it, of which there are more than the limit: never for another client's, another
\* window's, or another clause's that has a counter of its own.
DenialsJustified ==
  \A c \in Calls :
    pc[c] = "denied" /\ OwnCounter(nth[c]) => hits[Window(c)] > Rule(c).limit

\* MustParse, Allow: unless Redis failed, a call is let through only when every
\* clause was asked and let it; a string that does not parse has clauses too.
LimitsApply ==
  \A c \in Calls :
    pc[c] = "allowed" /\ (spec.ok => spec.rules # <<>>) /\ ~(redis /\ MayFail) =>
      /\ rules # <<>>
      /\ \A i \in DOMAIN rules : passed[WindowOf(c, i)] > 0

\* Why they hold.  A call is never later than MaxDelay, and has passed every clause
\* before the one it is at.
CallInv(c) ==
  /\ at[c] <= clock
  /\ pc[c] \in {"counting", "denied"} => nth[c] \in DOMAIN rules
  /\ pc[c] = "counting" => clock <= at[c] + MaxDelay
  /\ pc[c] \in {"counting", "allowed"} /\ ~(redis /\ MayFail) =>
       \A i \in DOMAIN rules :
         pc[c] = "allowed" \/ i < nth[c] => passed[WindowOf(c, i)] > 0

KeyOf(w) == [client |-> w.client, window |-> rules[w.clause].window, bucket |-> w.bucket]

\* What a window let through is in its counter until no call can come for the window
\* any more;
OneRound(w) ==
  LET key == KeyOf(w)
      over == w.bucket + Lifetime(key.window)
  IN  /\ passed[w] <= rules[w.clause].limit
      /\ IF key \in DOMAIN counts
         THEN counts[key].expires >= over /\ passed[w] <= counts[key].n
         ELSE passed[w] = 0 \/ clock > over

\* or, when calls may be late for the map, it is in the second of two counters, whose
\* end tells it from the first one.
TwoRounds(w) ==
  LET key == KeyOf(w)
      limit == rules[w.clause].limit
      first == w.bucket + key.window
      second == first + key.window
  IN  /\ passed[w] <= 2 * limit
      /\ key \in DOMAIN counts =>
           /\ counts[key].expires >= first
           /\ counts[key].expires > second => passed[w] <= limit + counts[key].n
           /\ counts[key].expires <= second => passed[w] <= limit /\ passed[w] <= counts[key].n
      /\ key \notin DOMAIN counts =>
           passed[w] = 0 \/ (clock > first /\ passed[w] <= limit) \/ clock > second

\* Every hit in a counter of one clause is one of its window.
HitsInv(w) ==
  OwnCounter(w.clause) /\ KeyOf(w) \in DOMAIN counts => counts[KeyOf(w)].n <= hits[w]

WindowInv(w) == HitsInv(w) /\ IF Rounds = 1 THEN OneRound(w) ELSE TwoRounds(w)

RateInv ==
  /\ TypeOK
  /\ \A t \in tick : t <= clock
  /\ \A c \in Calls : CallInv(c)
  /\ \A w \in Windows :
       w.clause \in DOMAIN rules => WindowInv(w)
  /\ DenialsJustified

\* reap's comment: the map cannot grow without bound; once a counter has expired,
\* a time comes when none that is expired is left.
CountersGo == (\E k \in DOMAIN counts : ~Live(k)) ~> (\A k \in DOMAIN counts : Live(k))

=============================================================================

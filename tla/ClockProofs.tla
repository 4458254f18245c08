---------------------------- MODULE ClockProofs ----------------------------
(***************************************************************************)
(* Proofs about the parts of redrx that read a clock.  About RateLimit,    *)
(* for any limit strings, windows, clients and calls, over the map and     *)
(* over Redis, and the addresses the calls are made for, whatever the      *)
(* proxies and the headers; about Schedule, for any dates, lifetimes and   *)
(* units of time, and the statistics page, for any click and any instant.  *)
(***************************************************************************)
EXTENDS MCRateLimit, MCSchedule, Integers, SequenceTheorems, FiniteSetTheorems, TLAPS

-----------------------------------------------------------------------------
(* The limiter.                                                            *)

\* The instant a window starts at lies at most a window before any of its instants.
LEMMA Truncated ==
  ASSUME NEW t \in Nat, NEW window \in Nat, window > 0
  PROVE  /\ Truncate(t, window) \in Nat
         /\ Truncate(t, window) <= t
         /\ t < Truncate(t, window) + window
<1>1. t % window \in 0 .. window - 1
  OBVIOUS
<1>2. t % window <= t
  OBVIOUS
<1>. QED  BY <1>1, <1>2 DEF Truncate

\* What the assumptions say of the clauses that are applied.
LEMMA RulesTyped ==
  ASSUME TypeOK
  PROVE  /\ rules \in Seq([limit: Nat, window: Nat])
         /\ \A i \in DOMAIN rules :
              /\ rules[i].limit \in Nat /\ rules[i].window \in Nat
              /\ MaxDelay < rules[i].window
              /\ i \in Clauses /\ rules[i].window \in Widths
<1>1. spec \in Specs /\ rules \in {s.rules : s \in Specs} \cup {SafeDefault}
  BY DEF TypeOK, rules, MustParse
<1>2. rules \in Seq([limit: Nat, window: Nat]) /\ \A i \in DOMAIN rules : MaxDelay < rules[i].window
  BY <1>1, RateLimitAssumption
<1>3. ASSUME NEW i \in DOMAIN rules 
      PROVE rules[i].limit \in Nat /\ rules[i].window \in Nat
  <2>1. i \in 1 .. Len(rules)
    BY <1>2
  <2>2. rules[i] \in [limit: Nat, window: Nat]
    BY <1>2, <2>1, ElementOfSeq
  <2>. QED  BY <2>2
<1>4. ASSUME NEW i \in DOMAIN rules PROVE i \in Clauses /\ rules[i].window \in Widths
  BY <1>1 DEF rules, Clauses, Widths
<1>. QED  BY <1>2, <1>3, <1>4

\* The windows of a call, and the key of the one it is at.
LEMMA WindowsTyped ==
  ASSUME TypeOK, NEW c \in Calls, NEW i \in DOMAIN rules
  PROVE  /\ WindowOf(c, i) \in Windows
         /\ WindowOf(c, i).client = who[c] /\ WindowOf(c, i).clause = i
         /\ WindowOf(c, i).bucket \in Nat
         /\ WindowOf(c, i).bucket <= at[c]
         /\ at[c] < WindowOf(c, i).bucket + rules[i].window
         /\ KeyOf(WindowOf(c, i)) \in Keys
         /\ KeyOf(WindowOf(c, i)) = [client |-> who[c], window |-> rules[i].window,
                                      bucket |-> Truncate(at[c], rules[i].window)]
<1>1. /\ rules[i].window \in Nat /\ rules[i].window > 0
      /\ i \in Clauses /\ rules[i].window \in Widths
  BY RulesTyped, RateLimitAssumption
<1>2. at[c] \in Nat /\ at[c] <= MaxTime /\ who[c] \in Clients
  BY RateLimitAssumption DEF TypeOK, Times
<1>3. /\ Truncate(at[c], rules[i].window) \in Nat
      /\ Truncate(at[c], rules[i].window) <= at[c]
      /\ at[c] < Truncate(at[c], rules[i].window) + rules[i].window
  BY <1>1, <1>2, Truncated
<1>4. Truncate(at[c], rules[i].window) \in Times
  BY <1>2, <1>3, RateLimitAssumption DEF Times
<1>. QED  BY <1>1, <1>2, <1>3, <1>4 DEF WindowOf, Windows, KeyOf, Keys

\* A call that is about to hit comes early enough for its window.
LEMMA HitInTime ==
  ASSUME TypeOK, NEW c \in Calls, CallInv(c), pc[c] = "counting"
  PROVE  /\ nth[c] \in DOMAIN rules
         /\ Key(c) = KeyOf(Window(c)) /\ Key(c) \in Keys /\ Window(c) \in Windows
         /\ Window(c).clause = nth[c] /\ Rule(c) = rules[nth[c]]
         /\ Key(c).window = Rule(c).window /\ Key(c).bucket = Window(c).bucket
         /\ Key(c).bucket \in Nat /\ Key(c).window \in Nat
         /\ Key(c).bucket <= clock
         /\ clock < Key(c).bucket + Key(c).window + MaxDelay
         /\ MaxDelay < Key(c).window
<1>1. nth[c] \in DOMAIN rules /\ at[c] <= clock /\ clock <= at[c] + MaxDelay
  BY DEF CallInv
<1>2. at[c] \in Nat /\ clock \in Nat /\ MaxDelay \in Nat
  BY RateLimitAssumption DEF TypeOK, Times
<1>3. rules[nth[c]].window \in Nat /\ MaxDelay < rules[nth[c]].window
  BY <1>1, RulesTyped
<1>. QED  BY <1>1, <1>2, <1>3, WindowsTyped DEF Window, Key, Rule, WindowOf, KeyOf

\* The limit string and the backend are chosen once.
LEMMA LimitsStay ==
  ASSUME [Next]_vars
  PROVE  spec' = spec /\ redis' = redis /\ rules' = rules /\ Rounds' = Rounds
<1>1. spec' = spec /\ redis' = redis
  BY DEF Next, Step, vars, Allow, Incr, IncrFails, ReaperTick, Reap, Expire, Pass
<1>. QED  BY <1>1 DEF rules, MustParse, Rounds

-----------------------------------------------------------------------------
(* What the invariant says of one window, before and after a step.         *)

\* The numbers of a window.
LEMMA WindowNumbers ==
  ASSUME TypeOK, NEW w \in Windows, w.clause \in DOMAIN rules
  PROVE  /\ clock \in Nat /\ passed[w] \in Nat /\ hits[w] \in Nat
         /\ w.bucket \in Nat /\ KeyOf(w).window \in Nat /\ KeyOf(w).bucket = w.bucket
         /\ rules[w.clause].limit \in Nat /\ KeyOf(w).window = rules[w.clause].window
         /\ Lifetime(KeyOf(w).window) \in Nat
         /\ KeyOf(w) \in DOMAIN counts =>
              counts[KeyOf(w)].n \in Nat \ {0} /\ counts[KeyOf(w)].expires \in Nat
<1>1. /\ clock \in Nat /\ w.bucket \in Nat /\ Lifetime(KeyOf(w).window) \in Nat
      /\ rules[w.clause].limit \in Nat /\ rules[w.clause].window \in Nat
  <2>1. rules[w.clause].limit \in Nat /\ rules[w.clause].window \in Nat
    BY RulesTyped
  <2>2. Lifetime(KeyOf(w).window) \in Nat
    BY <2>1, RateLimitAssumption DEF Lifetime, KeyOf
  <2>3. clock \in Nat /\ w.bucket \in Nat
    BY RateLimitAssumption DEF TypeOK, Times, Windows
  <2>. QED  BY <2>1, <2>2, <2>3
<1>2. passed[w] \in Nat /\ hits[w] \in Nat
  BY DEF TypeOK
<1>3. KeyOf(w) \in DOMAIN counts =>
        counts[KeyOf(w)].n \in Nat \ {0} /\ counts[KeyOf(w)].expires \in Nat
  BY DEF TypeOK
<1>. QED  BY <1>1, <1>2, <1>3 DEF KeyOf

\* A window of which neither the counter nor the history changes.
LEMMA SameWindow ==
  ASSUME TypeOK, clock' \in Nat, clock <= clock', rules' = rules, redis' = redis,
         Rounds' = Rounds,
         NEW w \in Windows, w.clause \in DOMAIN rules, WindowInv(w),
         KeyOf(w) \in DOMAIN counts <=> KeyOf(w) \in DOMAIN counts',
         KeyOf(w) \in DOMAIN counts => counts'[KeyOf(w)] = counts[KeyOf(w)],
         passed'[w] = passed[w], hits'[w] = hits[w]
  PROVE  WindowInv(w)'
<1>1. KeyOf(w)' = KeyOf(w) /\ OwnCounter(w.clause)' = OwnCounter(w.clause)
  BY DEF KeyOf, OwnCounter
<1>2. Lifetime(KeyOf(w).window)' = Lifetime(KeyOf(w).window)
  BY <1>1 DEF Lifetime
<1>3. HitsInv(w)'
  BY <1>1 DEF WindowInv, HitsInv
<1>4. /\ clock \in Nat /\ w.bucket \in Nat /\ KeyOf(w).window \in Nat
      /\ Lifetime(KeyOf(w).window) \in Nat
  BY WindowNumbers
<1>5. OneRound(w) => OneRound(w)'
  BY <1>1, <1>2, <1>4 DEF OneRound
<1>6. TwoRounds(w) => TwoRounds(w)'
  BY <1>1, <1>4 DEF TwoRounds
<1>. QED  BY <1>3, <1>5, <1>6 DEF WindowInv

\* A counter that has expired is dropped, by the map's reaper or by Redis.
LEMMA DropKeeps ==
  ASSUME TypeOK, rules' = rules, redis' = redis, Rounds' = Rounds, clock' = clock,
         passed' = passed, hits' = hits,
         NEW t \in Nat, t <= clock, Drop(t),
         NEW w \in Windows, w.clause \in DOMAIN rules, WindowInv(w)
  PROVE  WindowInv(w)'
<1>1. CASE KeyOf(w) \in DOMAIN counts' \/ KeyOf(w) \notin DOMAIN counts
  <2>1. KeyOf(w) \in DOMAIN counts <=> KeyOf(w) \in DOMAIN counts'
    BY <1>1 DEF Drop
  <2>2. KeyOf(w) \in DOMAIN counts => counts'[KeyOf(w)] = counts[KeyOf(w)]
    BY <2>1 DEF Drop
  <2>3. clock \in Nat
    BY RateLimitAssumption DEF TypeOK, Times
  <2>. QED  BY <2>1, <2>2, <2>3, SameWindow
<1>2. CASE KeyOf(w) \in DOMAIN counts /\ KeyOf(w) \notin DOMAIN counts'
  <2>1. clock > counts[KeyOf(w)].expires
    <3>1. t > counts[KeyOf(w)].expires
      BY <1>2 DEF Drop, Expired
    <3>. QED  BY <3>1, <1>2, WindowNumbers
  <2>2. KeyOf(w)' = KeyOf(w) /\ Lifetime(KeyOf(w).window)' = Lifetime(KeyOf(w).window)
    BY DEF KeyOf, Lifetime
  <2>3. HitsInv(w)'
    BY <1>2, <2>2 DEF HitsInv
  <2>4. OneRound(w) => OneRound(w)'
    BY <1>2, <2>1, <2>2, WindowNumbers DEF OneRound
  <2>5. TwoRounds(w) => TwoRounds(w)'
    BY <1>2, <2>1, <2>2, WindowNumbers DEF TwoRounds
  <2>. QED  BY <2>3, <2>4, <2>5 DEF WindowInv
<1>. QED  BY <1>1, <1>2

\* What a hit does to the backend and the history, whether the answer arrives or not.
HitBy(c) ==
  /\ Store(Key(c), Counter(Key(c)))
  /\ hits' = [hits EXCEPT ![Window(c)] = @ + 1]

\* The windows let more through only with the call that hits, and within its limit.
LetThrough(c) ==
  \/ passed' = passed
  \/ /\ ~Exceeds(Counter(Key(c)).n, Rule(c).limit)
     /\ passed' = [passed EXCEPT ![Window(c)] = @ + 1]

\* The entry a hit leaves: of a counter that is live, or of a new one.
LEMMA HitEntry ==
  ASSUME TypeOK, NEW c \in Calls, CallInv(c), pc[c] = "counting", HitBy(c)
  PROVE  /\ Key(c) \in DOMAIN counts' /\ DOMAIN counts' = DOMAIN counts \cup {Key(c)}
         /\ counts'[Key(c)] = Counter(Key(c))
         /\ \A k \in DOMAIN counts : k # Key(c) => counts'[k] = counts[k]
         /\ counts'[Key(c)].n \in Nat \ {0} /\ counts'[Key(c)].expires \in Nat
         /\ counts'[Key(c)] \in [n: Nat \ {0}, expires: Nat]
         /\ \/ /\ Key(c) \in DOMAIN counts /\ clock <= counts[Key(c)].expires
               /\ counts'[Key(c)].n = counts[Key(c)].n + 1
               /\ IF redis THEN counts'[Key(c)].expires = clock + Lifetime(Key(c).window)
                           ELSE counts'[Key(c)].expires = counts[Key(c)].expires
            \/ /\ Key(c) \notin DOMAIN counts \/ clock > counts[Key(c)].expires
               /\ counts'[Key(c)].n = 1
               /\ counts'[Key(c)].expires = clock + Lifetime(Key(c).window)
<1>1. /\ DOMAIN counts' = DOMAIN counts \cup {Key(c)}
      /\ counts'[Key(c)] = Counter(Key(c))
      /\ \A k \in DOMAIN counts : k # Key(c) => counts'[k] = counts[k]
  BY DEF HitBy, Store
<1>2. clock \in Nat /\ Lifetime(Key(c).window) \in Nat
  BY HitInTime, RateLimitAssumption DEF TypeOK, Times, Lifetime
<1>3. Key(c) \in DOMAIN counts => counts[Key(c)].n \in Nat \ {0} /\ counts[Key(c)].expires \in Nat
  BY DEF TypeOK
<1>4. CASE Live(Key(c))
  BY <1>1, <1>2, <1>3, <1>4 DEF Counter, Live, Expired
<1>5. CASE ~Live(Key(c))
  BY <1>1, <1>2, <1>3, <1>5 DEF Counter, Live, Expired
<1>. QED  BY <1>4, <1>5

\* A hit, for the windows that have its counter,
LEMMA HitKeepsOne ==
  ASSUME TypeOK, rules' = rules, redis' = redis, Rounds' = Rounds, clock' = clock,
         NEW c \in Calls, CallInv(c), pc[c] = "counting", HitBy(c), LetThrough(c),
         NEW w \in Windows, w.clause \in DOMAIN rules, WindowInv(w), KeyOf(w) = Key(c)
  PROVE  WindowInv(w)'
<1>. DEFINE key == Key(c)
<1>0. KeyOf(w)' = KeyOf(w) /\ Lifetime(KeyOf(w).window)' = Lifetime(KeyOf(w).window)
      /\ OwnCounter(w.clause)' = OwnCounter(w.clause)
  BY DEF KeyOf, Lifetime, OwnCounter
<1>1. /\ key.bucket <= clock /\ clock < key.bucket + key.window + MaxDelay
      /\ MaxDelay < key.window /\ MaxDelay \in Nat /\ Margin \in Nat /\ MaxDelay <= Margin
      /\ key.bucket \in Nat /\ key.window \in Nat /\ redis \in BOOLEAN
  BY HitInTime, RateLimitAssumption DEF TypeOK
<1>2. /\ clock \in Nat /\ passed[w] \in Nat /\ hits[w] \in Nat
      /\ w.bucket = key.bucket /\ rules[w.clause].limit \in Nat
      /\ key.window = rules[w.clause].window
      /\ key \in DOMAIN counts => counts[key].n \in Nat \ {0} /\ counts[key].expires \in Nat
  BY WindowNumbers
<1>3. Lifetime(key.window) = IF redis THEN key.window + Margin ELSE key.window
  BY DEF Lifetime
<1>4. /\ key \in DOMAIN counts'
      /\ counts'[key].n \in Nat \ {0} /\ counts'[key].expires \in Nat
      /\ counts'[key] = Counter(key)
      /\ \/ /\ key \in DOMAIN counts /\ clock <= counts[key].expires
            /\ counts'[key].n = counts[key].n + 1
            /\ IF redis THEN counts'[key].expires = clock + Lifetime(key.window)
                        ELSE counts'[key].expires = counts[key].expires
         \/ /\ key \notin DOMAIN counts \/ clock > counts[key].expires
            /\ counts'[key].n = 1
            /\ counts'[key].expires = clock + Lifetime(key.window)
  BY HitEntry
<1>5. w = Window(c) => hits'[w] = hits[w] + 1
  BY DEF HitBy, TypeOK
<1>6. /\ passed'[w] \in Nat
      /\ \/ passed'[w] = passed[w]
         \/ passed'[w] = passed[w] + 1 /\ counts'[key].n <= rules[w.clause].limit
  <2>1. CASE passed' = passed
    BY <1>2, <2>1
  <2>2. CASE /\ ~Exceeds(Counter(Key(c)).n, Rule(c).limit)
             /\ passed' = [passed EXCEPT ![Window(c)] = @ + 1]
    <3>1. CASE w = Window(c)
      <4>1. passed'[w] = passed[w] + 1
        BY <2>2, <3>1 DEF TypeOK
      <4>2. Rule(c) = rules[w.clause]
        BY <3>1, HitInTime
      <4>3. ~(counts'[key].n > rules[w.clause].limit)
        BY <1>4, <2>2, <4>2 DEF Exceeds
      <4>. QED  BY <1>2, <1>4, <4>1, <4>3
    <3>2. CASE w # Window(c)
      BY <1>2, <2>2, <3>2 DEF TypeOK
    <3>. QED  BY <3>1, <3>2
  <2>. QED  BY <2>1, <2>2 DEF LetThrough
<1>7. HitsInv(w)'
  <2>. SUFFICES ASSUME OwnCounter(w.clause) PROVE counts'[key].n <= hits'[w]
    BY <1>0 DEF HitsInv
  <2>1. w = Window(c)
    <3>1. nth[c] \in DOMAIN rules /\ Window(c) \in Windows /\ Window(c).clause = nth[c]
      BY HitInTime
    <3>2. KeyOf(Window(c)) = KeyOf(w)
      BY HitInTime
    <3>3. /\ Window(c).client = w.client /\ Window(c).bucket = w.bucket
          /\ rules[nth[c]].window = rules[w.clause].window
      BY <3>1, <3>2 DEF KeyOf
    <3>4. nth[c] = w.clause
      BY <3>1, <3>3 DEF OwnCounter
    <3>. QED  BY <3>1, <3>3, <3>4 DEF Windows
  <2>2. key \in DOMAIN counts => counts[key].n <= hits[w]
    BY DEF WindowInv, HitsInv
  <2>. QED  BY <1>2, <1>4, <1>5, <2>1, <2>2
<1>8. Rounds = 1 /\ OneRound(w) => OneRound(w)'
  <2>. SUFFICES ASSUME Rounds = 1, OneRound(w) PROVE OneRound(w)'
    OBVIOUS
  <2>1. redis \/ MaxDelay <= 1
    BY <1>1 DEF Rounds
  <2>2. clock <= key.bucket + Lifetime(key.window) /\ Lifetime(key.window) \in Nat
    BY <1>1, <1>2, <1>3, <2>1
  <2>3. /\ passed[w] <= rules[w.clause].limit
        /\ IF key \in DOMAIN counts
           THEN /\ counts[key].expires >= key.bucket + Lifetime(key.window)
                /\ passed[w] <= counts[key].n
           ELSE passed[w] = 0 \/ clock > key.bucket + Lifetime(key.window)
    BY <1>2 DEF OneRound
  <2>4. passed'[w] <= rules[w.clause].limit /\ passed'[w] <= counts'[key].n
    BY <1>1, <1>2, <1>4, <1>6, <2>2, <2>3
  <2>5. counts'[key].expires >= key.bucket + Lifetime(key.window)
    BY <1>1, <1>2, <1>4, <2>2, <2>3
  <2>. QED  BY <1>0, <1>2, <1>4, <2>4, <2>5 DEF OneRound
<1>9. Rounds # 1 /\ TwoRounds(w) => TwoRounds(w)'
  <2>. SUFFICES ASSUME Rounds # 1, TwoRounds(w) PROVE TwoRounds(w)'
    OBVIOUS
  <2>. DEFINE first == key.bucket + key.window
              second == first + key.window
              limit == rules[w.clause].limit
  <2>1. ~redis /\ Lifetime(key.window) = key.window /\ clock < second
    BY <1>1, <1>2, <1>3 DEF Rounds
  <2>2. /\ passed[w] <= 2 * limit
        /\ key \in DOMAIN counts =>
             /\ counts[key].expires >= first
             /\ counts[key].expires > second => passed[w] <= limit + counts[key].n
             /\ counts[key].expires <= second => passed[w] <= limit /\ passed[w] <= counts[key].n
        /\ key \notin DOMAIN counts =>
             passed[w] = 0 \/ (clock > first /\ passed[w] <= limit) \/ clock > second
    BY <1>2 DEF TwoRounds
  <2>3. counts'[key].expires >= first
    BY <1>1, <1>2, <1>4, <2>1, <2>2
  <2>4. counts'[key].expires <= second =>
          passed'[w] <= limit /\ passed'[w] <= counts'[key].n
    BY <1>1, <1>2, <1>4, <1>6, <2>1, <2>2
  <2>5. counts'[key].expires > second => passed'[w] <= limit + counts'[key].n
    BY <1>1, <1>2, <1>4, <1>6, <2>1, <2>2
  <2>6. passed'[w] <= 2 * limit
    BY <1>1, <1>2, <1>4, <1>6, <2>1, <2>2
  <2>. QED  BY <1>0, <1>2, <1>4, <2>3, <2>4, <2>5, <2>6 DEF TwoRounds
<1>. QED  BY <1>7, <1>8, <1>9 DEF WindowInv

\* and for all of them.
LEMMA HitKeeps ==
  ASSUME TypeOK, rules' = rules, redis' = redis, Rounds' = Rounds, clock' = clock,
         NEW c \in Calls, CallInv(c), pc[c] = "counting", HitBy(c), LetThrough(c),
         NEW w \in Windows, w.clause \in DOMAIN rules, WindowInv(w)
  PROVE  WindowInv(w)'
<1>1. CASE KeyOf(w) = Key(c)
  BY <1>1, HitKeepsOne
<1>2. CASE KeyOf(w) # Key(c)
  <2>1. w # Window(c)
    BY <1>2, HitInTime
  <2>2. passed'[w] = passed[w] /\ hits'[w] = hits[w]
    BY <2>1 DEF LetThrough, HitBy, TypeOK
  <2>3. clock \in Nat
    BY RateLimitAssumption DEF TypeOK, Times
  <2>4. /\ DOMAIN counts' = DOMAIN counts \cup {Key(c)}
        /\ \A k \in DOMAIN counts : k # Key(c) => counts'[k] = counts[k]
    BY HitEntry
  <2>. QED  BY <1>2, <2>2, <2>3, <2>4, SameWindow
<1>. QED  BY <1>1, <1>2

-----------------------------------------------------------------------------
(* Every step.                                                             *)

\* The bounds.
LEMMA Bounds == MaxTime \in Nat /\ MaxDelay \in Nat /\ Margin \in Nat /\ Times \subseteq Nat
BY RateLimitAssumption DEF Times

\* The invariant holds at the start.
LEMMA InitRate == Init => RateInv
<1>. SUFFICES ASSUME Init PROVE RateInv
  OBVIOUS
<1>1. TypeOK
  <2>1. (CHOOSE i \in Clients : TRUE) \in Clients
    BY RateLimitAssumption
  <2>. QED  BY <2>1, Bounds DEF Init, TypeOK, Times, Done
<1>2. ASSUME NEW c \in Calls PROVE CallInv(c)
  BY DEF Init, CallInv
<1>3. ASSUME NEW w \in Windows, w.clause \in DOMAIN rules PROVE WindowInv(w)
  <2>1. passed[w] = 0 /\ DOMAIN counts = {}
    BY <1>3 DEF Init
  <2>2. rules[w.clause].limit \in Nat
    BY <1>1, <1>3, WindowNumbers
  <2>. QED  BY <2>1, <2>2 DEF WindowInv, HitsInv, OneRound, TwoRounds
<1>4. DenialsJustified
  BY DEF Init, DenialsJustified
<1>. QED  BY <1>1, <1>2, <1>3, <1>4 DEF Init, RateInv

\* The clauses of a call that goes on, after one that let it through or failed.
LEMMA AdvanceTyped ==
  ASSUME TypeOK, NEW c \in Calls, CallInv(c), pc[c] = "counting", Advance(c)
  PROVE  /\ pc' \in [Calls -> Done \cup {"counting"}] /\ nth' \in [Calls -> Nat]
         /\ \A d \in Calls : d # c => pc'[d] = pc[d] /\ nth'[d] = nth[d]
         /\ \/ /\ pc'[c] = "counting" /\ nth'[c] = nth[c] + 1
               /\ nth'[c] \in DOMAIN rules
            \/ pc'[c] = "allowed" /\ nth'[c] = nth[c] /\ nth[c] = Len(rules)
<1>1. rules \in Seq([limit: Nat, window: Nat]) /\ nth[c] \in DOMAIN rules
  BY HitInTime, RulesTyped
<1>2. nth[c] \in 1 .. Len(rules) /\ DOMAIN rules = 1 .. Len(rules) /\ Len(rules) \in Nat
  BY <1>1
<1>3. CASE nth[c] < Len(rules)
  <2>1. nth' = [nth EXCEPT ![c] = nth[c] + 1] /\ pc' = pc
    BY <1>3 DEF Advance
  <2>. QED  BY <1>2, <1>3, <2>1 DEF TypeOK
<1>4. CASE ~(nth[c] < Len(rules))
  <2>1. pc' = [pc EXCEPT ![c] = "allowed"] /\ nth' = nth
    BY <1>4 DEF Advance
  <2>2. nth[c] = Len(rules)
    BY <1>2, <1>4
  <2>. QED  BY <2>1, <2>2 DEF TypeOK, Done
<1>. QED  BY <1>3, <1>4

\* Types.
LEMMA TypeInductive == RateInv /\ [Next]_vars => TypeOK'
<1>. SUFFICES ASSUME RateInv, [Next]_vars PROVE TypeOK'
  OBVIOUS
<1>0. TypeOK /\ (\A c \in Calls : CallInv(c))
  BY DEF RateInv
<1>. USE <1>0, Bounds
<1>1. ASSUME NEW c \in Calls, NEW i \in Clients, Allow(c, i) PROVE TypeOK'
  BY <1>1 DEF Allow, TypeOK, Times, Done, backend, history
<1>2. ASSUME NEW c \in Calls, pc[c] = "counting", HitBy(c) PROVE
        /\ DOMAIN counts' \subseteq Keys
        /\ \A k \in DOMAIN counts' : counts'[k] \in [n: Nat \ {0}, expires: Nat]
        /\ hits' \in [Windows -> Nat]
  <2>1. DOMAIN counts \subseteq Keys
        /\ \A k \in DOMAIN counts : counts[k] \in [n: Nat \ {0}, expires: Nat]
    BY DEF TypeOK
  <2>2. Key(c) \in Keys /\ DOMAIN counts' = DOMAIN counts \cup {Key(c)}
        /\ counts'[Key(c)] \in [n: Nat \ {0}, expires: Nat]
        /\ \A k \in DOMAIN counts : k # Key(c) => counts'[k] = counts[k]
    BY <1>2, HitEntry, HitInTime
  <2>3. hits' \in [Windows -> Nat]
    <3>1. Window(c) \in Windows
      BY <1>2, HitInTime
    <3>. QED  BY <1>2, <3>1 DEF HitBy, TypeOK
  <2>. QED  BY <2>1, <2>2, <2>3
<1>3. ASSUME NEW c \in Calls, Incr(c) PROVE TypeOK'
  <2>1. pc[c] = "counting" /\ HitBy(c)
    BY <1>3 DEF Incr, HitBy
  <2>2. \/ pc' = [pc EXCEPT ![c] = "denied"] /\ nth' = nth /\ passed' = passed
        \/ passed' = [passed EXCEPT ![Window(c)] = @ + 1] /\ Advance(c)
    BY <1>3 DEF Incr
  <2>3. pc' \in [Calls -> Done \cup {"counting"}] /\ nth' \in [Calls -> Nat]
    BY <2>1, <2>2, AdvanceTyped DEF TypeOK, Done
  <2>4. passed' \in [Windows -> Nat]
    BY <2>2 DEF TypeOK
  <2>5. UNCHANGED <<clock, redis, spec, tick, who, at>>
    BY <1>3 DEF Incr
  <2>. QED  BY <1>2, <2>1, <2>3, <2>4, <2>5 DEF TypeOK
<1>4. ASSUME NEW c \in Calls, IncrFails(c) PROVE TypeOK'
  <2>1. pc[c] = "counting" /\ Advance(c) /\ (UNCHANGED <<counts, hits>> \/ HitBy(c))
    BY <1>4 DEF IncrFails, HitBy
  <2>2. pc' \in [Calls -> Done \cup {"counting"}] /\ nth' \in [Calls -> Nat]
    BY <2>1, AdvanceTyped
  <2>3. UNCHANGED <<clock, redis, spec, tick, who, at, passed>>
    BY <1>4 DEF IncrFails
  <2>. QED  BY <1>2, <2>1, <2>2, <2>3 DEF TypeOK
<1>5. CASE ReaperTick
  BY <1>5 DEF ReaperTick, TypeOK, calls, history
<1>6. ASSUME NEW t, Drop(t), UNCHANGED <<clock, redis, spec, calls, history>>,
             tick' \in SUBSET Times PROVE TypeOK'
  BY <1>6 DEF Drop, TypeOK, calls, history
<1>7. CASE Reap
  BY <1>6, <1>7 DEF Reap, TypeOK
<1>8. CASE Expire
  BY <1>6, <1>8 DEF Expire, TypeOK
<1>9. CASE Pass
  BY <1>9 DEF Pass, TypeOK, Times, backend, calls, history
<1>10. CASE UNCHANGED vars
  BY <1>10 DEF vars, TypeOK
<1>. QED
  BY <1>1, <1>3, <1>4, <1>5, <1>7, <1>8, <1>9, <1>10 DEF Next, Step

\* A call that another one's step, or the clock, leaves where it is; what was let
\* through before stays let through.
LEMMA SameCall ==
  ASSUME TypeOK, rules' = rules, redis' = redis, clock' \in Nat, clock <= clock',
         NEW c \in Calls, CallInv(c),
         pc'[c] = pc[c], nth'[c] = nth[c], at'[c] = at[c], who'[c] = who[c],
         pc[c] = "counting" => clock' <= at[c] + MaxDelay,
         \A w \in Windows : passed[w] > 0 => passed'[w] > 0
  PROVE  CallInv(c)'
<1>1. clock \in Nat /\ at[c] \in Nat
  BY Bounds DEF TypeOK
<1>2. ASSUME NEW i \in DOMAIN rules PROVE
        WindowOf(c, i)' = WindowOf(c, i) /\ WindowOf(c, i) \in Windows
  BY <1>2, WindowsTyped DEF WindowOf
<1>. QED  BY <1>1, <1>2 DEF CallInv

\* Which calls a step leaves alone.
LEMMA OtherCalls ==
  ASSUME NEW c \in Calls, Step(c), TypeOK, NEW d \in Calls, d # c
  PROVE  pc'[d] = pc[d] /\ nth'[d] = nth[d] /\ at'[d] = at[d] /\ who'[d] = who[d]
BY DEF Step, Allow, Incr, IncrFails, Advance, TypeOK

\* What was let through stays.
LEMMA PassedStays ==
  ASSUME TypeOK, [Next]_vars, NEW w \in Windows, passed[w] > 0
  PROVE  passed'[w] > 0
<1>1. passed[w] \in Nat
  BY DEF TypeOK
<1>2. passed' = passed \/ \E c \in Calls : passed' = [passed EXCEPT ![Window(c)] = @ + 1]
  BY DEF Next, Step, vars, Allow, Incr, IncrFails, ReaperTick, Reap, Expire, Pass, history
<1>. QED  BY <1>1, <1>2 DEF TypeOK

\* The call that makes the step.
LEMMA StepKeepsCall ==
  ASSUME RateInv, NEW c \in Calls, Step(c)
  PROVE  CallInv(c)'
<1>0. TypeOK /\ CallInv(c) /\ [Next]_vars
  BY DEF RateInv, Next
<1>1. rules' = rules /\ redis' = redis
  BY <1>0, LimitsStay
<1>2. clock' = clock /\ clock \in Nat /\ MaxDelay \in Nat
  BY Bounds DEF TypeOK, RateInv, Step, Allow, Incr, IncrFails
<1>3. rules \in Seq([limit: Nat, window: Nat])
  BY <1>0, RulesTyped
<1>4. ASSUME NEW i \in Clients, Allow(c, i) PROVE CallInv(c)'
  <2>1. pc'[c] = (IF rules = <<>> THEN "allowed" ELSE "counting") /\ nth'[c] = 1 /\ at'[c] = clock
    BY <1>0, <1>4 DEF Allow, TypeOK
  <2>2. rules # <<>> => 1 \in DOMAIN rules
    BY <1>3
  <2>3. rules = <<>> => DOMAIN rules = {}
    OBVIOUS
  <2>4. DOMAIN rules \subseteq Nat /\ \A i2 \in DOMAIN rules : i2 >= 1
    BY <1>3
  <2>. QED  BY <1>1, <1>2, <2>1, <2>2, <2>3, <2>4 DEF CallInv
<1>5. ASSUME Incr(c) \/ IncrFails(c) PROVE CallInv(c)'
  <2>0. /\ pc[c] = "counting" /\ at'[c] = at[c] /\ who'[c] = who[c]
        /\ at[c] <= clock /\ clock <= at[c] + MaxDelay /\ nth[c] \in DOMAIN rules
    BY <1>0, <1>5 DEF Incr, IncrFails, CallInv
  <2>1. ASSUME NEW i \in DOMAIN rules PROVE
          /\ WindowOf(c, i)' = WindowOf(c, i) /\ WindowOf(c, i) \in Windows
          /\ passed[WindowOf(c, i)] > 0 => passed'[WindowOf(c, i)] > 0
    BY <1>0, <1>1, <2>0, <2>1, WindowsTyped, PassedStays DEF WindowOf
  <2>2. ASSUME Advance(c), ~(redis /\ MayFail) => passed'[Window(c)] > 0 PROVE CallInv(c)'
    <3>1. \/ pc'[c] = "counting" /\ nth'[c] = nth[c] + 1 /\ nth'[c] \in DOMAIN rules
          \/ pc'[c] = "allowed" /\ nth'[c] = nth[c] /\ nth[c] = Len(rules)
      BY <1>0, <2>0, <2>2, AdvanceTyped
    <3>2. nth[c] \in 1 .. Len(rules) /\ DOMAIN rules = 1 .. Len(rules) /\ Len(rules) \in Nat
      BY <1>3, <2>0
    <3>3. ASSUME ~(redis /\ MayFail), NEW i \in DOMAIN rules, i <= nth[c]
          PROVE  passed'[WindowOf(c, i)] > 0
      <4>1. CASE i = nth[c]
        BY <2>2, <3>3, <4>1 DEF Window
      <4>2. CASE i < nth[c]
        BY <1>0, <2>0, <2>1, <3>3, <4>2 DEF CallInv
      <4>. QED  BY <3>2, <3>3, <4>1, <4>2
    <3>. QED  BY <1>1, <1>2, <2>0, <2>1, <3>1, <3>2, <3>3 DEF CallInv
  <2>3. CASE Incr(c)
    <3>1. CASE Advance(c) /\ passed' = [passed EXCEPT ![Window(c)] = @ + 1]
      <4>1. Window(c) \in Windows
        BY <1>0, <2>0, HitInTime
      <4>2. passed'[Window(c)] > 0
        BY <1>0, <3>1, <4>1 DEF TypeOK
      <4>. QED  BY <2>2, <3>1, <4>2
    <3>2. CASE pc' = [pc EXCEPT ![c] = "denied"] /\ nth' = nth
      <4>1. pc'[c] = "denied" /\ nth'[c] = nth[c]
        BY <1>0, <3>2 DEF TypeOK
      <4>. QED  BY <1>1, <1>2, <2>0, <4>1 DEF CallInv
    <3>. QED  BY <2>3, <3>1, <3>2 DEF Incr
  <2>4. CASE IncrFails(c)
    BY <2>2, <2>4 DEF IncrFails
  <2>. QED  BY <1>5, <2>3, <2>4
<1>. QED  BY <1>4, <1>5 DEF Step

\* The calls.
LEMMA CallsInductive == RateInv /\ [Next]_vars => \A c \in Calls : CallInv(c)'
<1>. SUFFICES ASSUME RateInv, [Next]_vars, NEW c \in Calls PROVE CallInv(c)'
  OBVIOUS
<1>0. TypeOK /\ CallInv(c) /\ clock \in Nat /\ MaxDelay \in Nat /\ at[c] \in Nat
  BY Bounds DEF RateInv, TypeOK
<1>1. rules' = rules /\ redis' = redis
  BY LimitsStay
<1>2. \A w \in Windows : passed[w] > 0 => passed'[w] > 0
  BY <1>0, PassedStays
<1>3. CASE Step(c)
  BY <1>3, StepKeepsCall
<1>4. ASSUME NEW d \in Calls, d # c, Step(d) PROVE CallInv(c)'
  <2>1. pc'[c] = pc[c] /\ nth'[c] = nth[c] /\ at'[c] = at[c] /\ who'[c] = who[c]
    BY <1>0, <1>4, OtherCalls
  <2>2. clock' = clock
    BY <1>4 DEF Step, Allow, Incr, IncrFails
  <2>. QED  BY <1>0, <1>1, <1>2, <2>1, <2>2, SameCall DEF CallInv
<1>5. CASE ReaperTick \/ Reap \/ Expire \/ UNCHANGED vars
  <2>1. UNCHANGED <<clock, calls>>
    BY <1>5 DEF ReaperTick, Reap, Expire, vars, calls
  <2>. QED  BY <1>0, <1>1, <1>2, <2>1, SameCall DEF CallInv, calls
<1>6. CASE Pass
  <2>1. UNCHANGED calls /\ clock' = clock + 1 /\ (pc[c] = "counting" => clock - at[c] < MaxDelay)
    BY <1>6 DEF Pass
  <2>. QED  BY <1>0, <1>1, <1>2, <2>1, SameCall DEF calls
<1>. QED  BY <1>3, <1>4, <1>5, <1>6 DEF Next

\* A hit, made by Incr or by an Incr whose answer is lost.
LEMMA StepHits ==
  ASSUME RateInv, NEW c \in Calls, Incr(c) \/ IncrFails(c)
  PROVE  /\ pc[c] = "counting" /\ clock' = clock
         /\ \/ UNCHANGED <<counts, hits, passed>>
            \/ HitBy(c) /\ LetThrough(c)
BY DEF Incr, IncrFails, HitBy, LetThrough

\* The counters.
LEMMA WindowsInductive ==
  ASSUME RateInv, [Next]_vars, NEW w \in Windows, w.clause \in DOMAIN rules
  PROVE  WindowInv(w)'
<1>0. /\ TypeOK /\ WindowInv(w) /\ clock \in Nat
      /\ \A c \in Calls : CallInv(c)
      /\ \A t \in tick : t \in Nat /\ t <= clock
  BY Bounds DEF RateInv, TypeOK
<1>1. rules' = rules /\ redis' = redis /\ Rounds' = Rounds
  BY LimitsStay
<1>2. ASSUME NEW c \in Calls, Incr(c) \/ IncrFails(c) PROVE WindowInv(w)'
  <2>1. CASE UNCHANGED <<counts, hits, passed>>
    BY <1>0, <1>1, <1>2, <2>1, StepHits, SameWindow
  <2>2. CASE HitBy(c) /\ LetThrough(c)
    BY <1>0, <1>1, <1>2, <2>2, StepHits, HitKeeps
  <2>. QED  BY <1>2, <2>1, <2>2, StepHits
<1>3. ASSUME NEW t \in Nat, t <= clock, Drop(t), UNCHANGED <<clock, hits, passed>> PROVE WindowInv(w)'
  BY <1>0, <1>1, <1>3, DropKeeps
<1>4. CASE Reap
  <2>1. PICK t \in tick : Drop(t)
    BY <1>4 DEF Reap
  <2>. QED  BY <1>0, <1>3, <1>4, <2>1 DEF Reap, history
<1>5. CASE Expire
  BY <1>0, <1>3, <1>5 DEF Expire, history
<1>6. CASE (\E c \in Calls, i \in Clients : Allow(c, i)) \/ ReaperTick \/ UNCHANGED vars
  <2>1. UNCHANGED <<clock, counts, hits, passed>>
    BY <1>6 DEF Allow, ReaperTick, vars, backend, history
  <2>. QED  BY <1>0, <1>1, <2>1, SameWindow
<1>7. CASE Pass
  <2>1. clock' = clock + 1 /\ UNCHANGED <<counts, hits, passed>>
    BY <1>7 DEF Pass, backend, history
  <2>. QED  BY <1>0, <1>1, <2>1, SameWindow
<1>. QED  BY <1>2, <1>4, <1>5, <1>6, <1>7 DEF Next, Step

\* Hits are not forgotten.
LEMMA HitsStay ==
  ASSUME TypeOK, [Next]_vars, NEW w \in Windows
  PROVE  hits[w] \in Nat /\ hits'[w] \in Nat /\ hits[w] <= hits'[w]
<1>1. hits[w] \in Nat
  BY DEF TypeOK
<1>2. hits' = hits \/ \E c \in Calls : hits' = [hits EXCEPT ![Window(c)] = @ + 1]
  BY DEF Next, Step, vars, Allow, Incr, IncrFails, ReaperTick, Reap, Expire, Pass, history
<1>. QED  BY <1>1, <1>2 DEF TypeOK

\* The counter that denies a call has hits of the call's window only.
LEMMA DeniedByItsWindow ==
  ASSUME RateInv, NEW c \in Calls, Incr(c), pc'[c] = "denied", OwnCounter(nth[c])
  PROVE  hits'[Window(c)] > Rule(c).limit
<1>0. TypeOK /\ CallInv(c) /\ pc[c] = "counting" /\ HitBy(c) /\ [Next]_vars
  BY DEF RateInv, Incr, HitBy, Next, Step
<1>1. rules' = rules /\ redis' = redis
  BY <1>0, LimitsStay
<1>2. /\ Window(c) \in Windows /\ Window(c).clause = nth[c] /\ nth[c] \in DOMAIN rules
      /\ KeyOf(Window(c)) = Key(c) /\ Rule(c) = rules[nth[c]]
  BY <1>0, HitInTime
<1>3. Key(c) \in DOMAIN counts' /\ counts'[Key(c)] = Counter(Key(c)) /\ counts'[Key(c)].n \in Nat
  BY <1>0, HitEntry
<1>4. Counter(Key(c)).n > Rule(c).limit
  <2>1. CASE Exceeds(Counter(Key(c)).n, Rule(c).limit)
    BY <2>1 DEF Exceeds
  <2>2. CASE Advance(c)
    BY <1>0, <2>2, AdvanceTyped
  <2>. QED  BY <2>1, <2>2 DEF Incr
<1>5. PICK w \in Windows : w = Window(c)
  BY <1>2
<1>6. HitsInv(w)'
  BY <1>0, <1>2, <1>5, WindowsInductive DEF WindowInv
<1>7. KeyOf(w)' = Key(c) /\ OwnCounter(w.clause)'
  BY <1>1, <1>2, <1>5 DEF KeyOf, OwnCounter
<1>8. counts'[Key(c)].n <= hits'[w]
  BY <1>3, <1>6, <1>7 DEF HitsInv
<1>9. hits'[w] \in Nat /\ Rule(c).limit \in Nat
  BY <1>0, <1>2, HitsStay, RulesTyped
<1>. QED  BY <1>3, <1>4, <1>5, <1>8, <1>9

\* A denial stays justified as long as it is the call's last answer.
LEMMA DenialsInductive ==
  ASSUME RateInv, [Next]_vars
  PROVE  DenialsJustified'
<1>0. TypeOK /\ (\A c \in Calls : CallInv(c)) /\ DenialsJustified
  BY DEF RateInv
<1>1. rules' = rules /\ \A i : OwnCounter(i)' <=> OwnCounter(i)
  BY LimitsStay DEF OwnCounter
<1>. SUFFICES ASSUME NEW c \in Calls, pc'[c] = "denied", OwnCounter(nth'[c])
              PROVE  hits'[Window(c)'] > Rule(c)'.limit
  BY <1>1 DEF DenialsJustified
<1>2. CASE Incr(c)
  <2>1. nth'[c] = nth[c] /\ who' = who /\ at' = at
    <3>1. CASE nth' = nth
      BY <1>2, <3>1 DEF Incr
    <3>2. CASE Advance(c)
      BY <1>0, <1>2, <3>2, AdvanceTyped DEF Incr
    <3>. QED  BY <1>2, <3>1, <3>2 DEF Incr
  <2>2. Window(c)' = Window(c) /\ Rule(c)' = Rule(c)
    BY <1>1, <2>1 DEF Window, WindowOf, Rule
  <2>. QED  BY <1>2, <2>1, <2>2, DeniedByItsWindow
<1>3. CASE IncrFails(c) \/ \E i \in Clients : Allow(c, i)
  <2>1. CASE IncrFails(c)
    BY <1>0, <2>1, AdvanceTyped DEF IncrFails
  <2>2. ASSUME NEW i \in Clients, Allow(c, i) PROVE FALSE
    BY <1>0, <2>2 DEF Allow, TypeOK
  <2>. QED  BY <1>3, <2>1, <2>2
<1>4. CASE ~Step(c)
  <2>1. pc'[c] = pc[c] /\ nth'[c] = nth[c] /\ at'[c] = at[c] /\ who'[c] = who[c]
    <3>1. ASSUME NEW d \in Calls, Step(d) PROVE d # c
      BY <1>4, <3>1
    <3>2. CASE \E d \in Calls : Step(d)
      BY <1>0, <3>1, <3>2, OtherCalls
    <3>3. CASE ReaperTick \/ Reap \/ Expire \/ Pass \/ UNCHANGED vars
      BY <3>3 DEF ReaperTick, Reap, Expire, Pass, vars, calls
    <3>. QED  BY <3>2, <3>3 DEF Next
  <2>2. Window(c)' = Window(c) /\ Rule(c)' = Rule(c)
    BY <1>1, <2>1 DEF Window, WindowOf, Rule
  <2>3. Window(c) \in Windows /\ Rule(c).limit \in Nat
    <3>1. nth[c] \in DOMAIN rules
      BY <1>0, <2>1 DEF CallInv
    <3>. QED  BY <1>0, <3>1, WindowsTyped, RulesTyped DEF Window, Rule
  <2>4. hits[Window(c)] > Rule(c).limit
    BY <1>0, <2>1 DEF DenialsJustified
  <2>. QED  BY <1>0, <2>2, <2>3, <2>4, HitsStay
<1>. QED  BY <1>2, <1>3, <1>4 DEF Step

\* The ticks the reaper has been sent are of the past.
LEMMA TicksInductive == RateInv /\ [Next]_vars => (\A t \in tick : t <= clock)'
<1>. SUFFICES ASSUME RateInv, [Next]_vars, NEW t \in tick' PROVE t <= clock'
  OBVIOUS
<1>1. clock \in Nat /\ \A s \in tick : s \in Nat /\ s <= clock
  BY Bounds DEF RateInv, TypeOK
<1>2. clock' = clock \/ clock' = clock + 1
  BY DEF Next, Step, Allow, Incr, IncrFails, ReaperTick, Reap, Expire, Pass, vars
<1>3. tick' \subseteq tick \/ (tick' = {clock} /\ clock' = clock)
  BY DEF Next, Step, Allow, Incr, IncrFails, ReaperTick, Reap, Expire, Pass, vars, backend
<1>. QED  BY <1>1, <1>2, <1>3

\* Types; where every call is; what each counter has counted of each window it is for;
\* and why a call was denied: for any limit strings, clients and calls.
THEOREM RateInvariant == Spec => []RateInv
<1>1. RateInv /\ [Next]_vars => RateInv'
  <2>. SUFFICES ASSUME RateInv, [Next]_vars PROVE RateInv'
    OBVIOUS
  <2>1. rules' = rules
    BY LimitsStay
  <2>2. \A w \in Windows : w.clause \in DOMAIN rules => WindowInv(w)'
    BY WindowsInductive
  <2>. QED  BY <2>1, <2>2, TypeInductive, TicksInductive, CallsInductive, DenialsInductive DEF RateInv
<1>. QED  BY InitRate, <1>1, PTL DEF Spec

\* Allow: no clause of any limit string lets more calls of a client through in a window
\* than its limit; twice its limit when the map's calls may be late.
THEOREM LimitsAreKept == Spec => []WithinLimit
<1>1. RateInv => WithinLimit
  <2>. SUFFICES ASSUME RateInv, NEW w \in Windows, w.clause \in DOMAIN rules
                PROVE  passed[w] <= Rounds * rules[w.clause].limit
    BY DEF WithinLimit
  <2>1. TypeOK /\ WindowInv(w)
    BY DEF RateInv
  <2>2. passed[w] \in Nat /\ rules[w.clause].limit \in Nat
    BY <2>1, WindowNumbers
  <2>3. CASE Rounds = 1
    BY <2>1, <2>2, <2>3 DEF WindowInv, OneRound
  <2>4. CASE Rounds = 2
    BY <2>1, <2>2, <2>4 DEF WindowInv, TwoRounds
  <2>. QED  BY <2>3, <2>4 DEF Rounds
<1>. QED  BY RateInvariant, <1>1, PTL

\* Allow: a call is denied for hits of its own client in the window that denies it.
THEOREM OnlyItsHitsDeny == Spec => []DenialsJustified
<1>1. RateInv => DenialsJustified
  BY DEF RateInv
<1>. QED  BY RateInvariant, <1>1, PTL

\* Allow, MustParse: unless Redis fails, whoever is let through was let through by every
\* clause, and a string that does not parse has clauses.
THEOREM EveryClauseIsAsked == Spec => []LimitsApply
<1>1. RateInv => LimitsApply
  <2>. SUFFICES ASSUME RateInv, NEW c \in Calls, pc[c] = "allowed",
                       spec.ok => spec.rules # <<>>, ~(redis /\ MayFail)
                PROVE  rules # <<>> /\ \A i \in DOMAIN rules : passed[WindowOf(c, i)] > 0
    BY DEF LimitsApply
  <2>1. rules # <<>>
    BY RateLimitAssumption DEF rules, MustParse
  <2>. QED  BY <2>1 DEF RateInv, CallInv
<1>. QED  BY RateInvariant, <1>1, PTL

-----------------------------------------------------------------------------
(* The address a call is made for.                                         *)

\* The ways of a request, and what it is made of.
LEMMA WayIs ==
  ASSUME NEW way \in Ways
  PROVE  way \in Seq(Proxies \cup Edges)
<1>1. PICK m \in 0 .. MaxWay : way \in [1 .. m -> Proxies \cup Edges]
  BY DEF Ways, SeqOf
<1>2. m \in Nat
  BY <1>1, ClientAddressAssumption
<1>. QED  BY <1>1, <1>2

\* The hops append, to what the visitor sent, the visitor and all proxies but the last.
LEMMA ForwardedIs ==
  ASSUME NEW visitor \in Visitors, NEW sent \in Sent, NEW way \in Ways, way # <<>>
  PROVE  LET xff == Forwarded(visitor, sent, way)
             n == Len(sent)
         IN  /\ n \in Nat /\ Len(way) \in Nat \ {0} /\ xff \in Seq(Addresses \cup {Malformed})
             /\ Len(xff) = n + Len(way)
             /\ xff[n + 1] = visitor
             /\ \A j \in n + 2 .. n + Len(way) :
                  j - n - 1 \in DOMAIN way /\ xff[j] = way[j - n - 1]
             /\ Len(way) \in DOMAIN way /\ Peer(visitor, way) = way[Len(way)]
<1>. DEFINE chain == <<visitor>> \o way
            front == Front(chain)
            n == Len(sent)
<1>1. way \in Seq(Addresses) /\ Len(way) \in Nat \ {0} /\ Len(way) \in DOMAIN way
  BY WayIs DEF Addresses
<1>2. sent \in Seq(Addresses \cup {Malformed}) /\ n \in Nat
  BY DEF Sent, SeqOf
<1>3. /\ chain \in Seq(Addresses) /\ Len(chain) = 1 + Len(way) /\ chain[1] = visitor
      /\ \A i \in 2 .. Len(chain) : i - 1 \in DOMAIN way /\ chain[i] = way[i - 1]
  <2>1. <<visitor>> \in Seq(Addresses) /\ Len(<<visitor>>) = 1 /\ <<visitor>>[1] = visitor
    BY DEF Addresses
  <2>2. chain \in Seq(Addresses) /\ Len(chain) = 1 + Len(way)
    BY <1>1, <2>1
  <2>3. chain[1] = visitor
    BY <1>1, <2>1
  <2>4. ASSUME NEW i \in 2 .. Len(chain) PROVE i - 1 \in DOMAIN way /\ chain[i] = way[i - 1]
    BY <1>1, <2>1, <2>2
  <2>. QED  BY <2>2, <2>3, <2>4
<1>4. Peer(visitor, way) = way[Len(way)]
  BY <1>1, <1>3 DEF Peer, Chain, Last
<1>. HIDE DEF chain
<1>5. /\ front \in Seq(Addresses \cup {Malformed}) /\ Len(front) = Len(way)
      /\ \A i \in 1 .. Len(way) : front[i] = chain[i]
  BY <1>1, <1>3 DEF Front
<1>. HIDE DEF front, n
<1>6. Forwarded(visitor, sent, way) = sent \o front
  BY DEF Forwarded, Chain, front, chain
<1>7. sent \o front \in Seq(Addresses \cup {Malformed}) /\ Len(sent \o front) = n + Len(way)
  BY <1>2, <1>5 DEF n
<1>8. (sent \o front)[n + 1] = visitor
  BY <1>1, <1>2, <1>3, <1>5 DEF n
<1>9. ASSUME NEW j \in n + 2 .. n + Len(way)
      PROVE  j - n - 1 \in DOMAIN way /\ (sent \o front)[j] = way[j - n - 1]
  <2>1. j - n \in 2 .. Len(way) /\ j - n \in 2 .. Len(chain)
    BY <1>1, <1>2, <1>3
  <2>2. (sent \o front)[j] = front[j - n]
    BY <1>1, <1>2, <1>5 DEF n
  <2>. QED  BY <1>1, <1>3, <1>5, <2>1, <2>2
<1>. QED  BY <1>1, <1>2, <1>4, <1>6, <1>7, <1>8, <1>9 DEF n

\* The walk from the right passes the proxies and stops at the visitor.
LEMMA WalkStopsAtVisitor ==
  ASSUME NEW config \in Configs, NEW visitor \in Visitors, NEW sent \in Sent,
         NEW way \in Ways, way # <<>>, \A i \in DOMAIN way : IsTrusted(config, way[i])
  PROVE  LET xff == Forwarded(visitor, sent, way)
             hops == Untrusted(config, xff)
         IN  hops # {} /\ xff[CHOOSE i \in hops : \A j \in hops : j <= i] = visitor
<1>. DEFINE xff == Forwarded(visitor, sent, way)
            hops == Untrusted(config, xff)
            n == Len(sent)
<1>1. /\ n \in Nat /\ Len(way) \in Nat \ {0} /\ xff \in Seq(Addresses \cup {Malformed})
      /\ Len(xff) = n + Len(way) /\ xff[n + 1] = visitor
      /\ \A j \in n + 2 .. n + Len(way) : j - n - 1 \in DOMAIN way /\ xff[j] = way[j - n - 1]
  BY ForwardedIs
<1>. HIDE DEF xff, n
<1>2. DOMAIN xff = 1 .. n + Len(way)
  BY <1>1
<1>3. ~IsTrusted(config, visitor)
  BY ClientAddressAssumption DEF Configs, IsTrusted
<1>4. n + 1 \in hops
  BY <1>1, <1>2, <1>3 DEF Untrusted
<1>5. ASSUME NEW j \in hops PROVE j <= n + 1
  <2>1. j \in 1 .. n + Len(way) /\ ~IsTrusted(config, xff[j])
    BY <1>2 DEF Untrusted
  <2>2. j \notin n + 2 .. n + Len(way)
    BY <1>1, <2>1
  <2>. QED  BY <1>1, <2>1, <2>2
<1>. DEFINE last == CHOOSE i \in hops : \A j \in hops : j <= i
<1>6. last \in hops /\ \A j \in hops : j <= last
  BY <1>4, <1>5
<1>. HIDE DEF last
<1>7. last = n + 1
  <2>1. last \in Int /\ last <= n + 1 /\ n + 1 <= last
    BY <1>2, <1>4, <1>5, <1>6 DEF Untrusted
  <2>. QED  BY <1>1, <2>1
<1>. QED  BY <1>1, <1>4, <1>7 DEF last, xff

\* A request that comes by a way the program is configured for counts for its visitor.
LEMMA WayResolves ==
  ASSUME NEW config \in Configs, NEW visitor \in Visitors, NEW sent \in Sent,
         NEW way \in Ways, NEW cf \in SentCF, Configured(config, way)
  PROVE  ClientIP(config, Peer(visitor, way), Forwarded(visitor, sent, way),
                  ConnectingIP(visitor, cf, way))
           = Expected(config, visitor, sent, way)
<1>. DEFINE xff == Forwarded(visitor, sent, way)
            peer == Peer(visitor, way)
<1>1. /\ visitor \in Addresses /\ visitor # Malformed /\ visitor # Unset
      /\ ~IsTrusted(config, visitor)
  BY ClientAddressAssumption DEF Configs, IsTrusted, Addresses
<1>2. CASE way = <<>>
  <2>1. peer = visitor
    BY <1>2 DEF Peer, Chain, Last
  <2>. QED  BY <1>1, <2>1 DEF ClientIP, Expected
<1>3. CASE way # <<>>
  <2>1. peer = way[Len(way)] /\ Len(way) \in DOMAIN way
    BY <1>3, ForwardedIs
  <2>2. IsTrusted(config, peer)
    BY <1>3, <2>1 DEF Configured, Last
  <2>3. CASE config.cloudflare
    <3>1. ConnectingIP(visitor, cf, way) = visitor
      BY <1>3, <2>3 DEF Configured, ConnectingIP
    <3>2. ClientIPFromForwarded(config, xff, visitor) = visitor
      BY <1>1, <2>3 DEF ClientIPFromForwarded
    <3>. QED  BY <1>1, <2>2, <2>3, <3>1, <3>2 DEF ClientIP, Expected
  <2>4. CASE ~config.cloudflare
    <3>1. \A i \in DOMAIN way : IsTrusted(config, way[i])
      BY <2>4 DEF Configured
    <3>. DEFINE hops == Untrusted(config, xff)
                client == xff[CHOOSE i \in hops : \A j \in hops : j <= i]
                given == ConnectingIP(visitor, cf, way)
    <3>2. hops # {} /\ client = visitor
      BY <1>3, <3>1, WalkStopsAtVisitor
    <3>3. /\ Len(xff) \in Int /\ MaxHops \in Int
      BY <1>3, ForwardedIs, ClientAddressAssumption
    <3>4. ClientIPFromForwarded(config, xff, given) =
            IF Len(xff) > MaxHops THEN Unset ELSE visitor
      BY <1>1, <2>4, <3>2 DEF ClientIPFromForwarded
    <3>. HIDE DEF given, client, hops, xff, peer
    <3>5. ClientIP(config, peer, xff, given) = IF Len(xff) > MaxHops THEN peer ELSE visitor
      BY <1>1, <2>2, <3>4 DEF ClientIP
    <3>. QED  BY <2>4, <3>3, <3>5 DEF Expected, given, xff, peer
  <2>. QED  BY <2>3, <2>4
<1>. QED  BY <1>2, <1>3

\* ... and one from any other peer for that peer.
LEMMA OthersResolve == HeadersIgnored
BY DEF HeadersIgnored, ClientIP

\* ClientIP of internal/geo over ClientIPFromForwarded: a request that comes by proxies the
\* program is configured for, however many, counts for its visitor (or, with a header too
\* long to be read, for the last proxy), whatever the visitor puts into the headers.
THEOREM ConfiguredWaysResolve == \A visitor \in Visitors : EveryWayResolves[visitor]
BY WayResolves DEF EveryWayResolves

\* limit: a call is made for the address of the visitor itself, and for the peer's address
\* from a peer that is no configured proxy.
THEOREM CallsCountForTheVisitor ==
  ASSUME Clients \subseteq Visitors
  PROVE  Spec => []CountsForTheVisitor
<1>1. RateInv => CountsForTheVisitor
  <2>. SUFFICES ASSUME RateInv, NEW c \in Calls PROVE EveryWayResolves[who[c]]
    BY OthersResolve DEF CountsForTheVisitor
  <2>1. who[c] \in Visitors
    BY DEF RateInv, TypeOK
  <2>. QED  BY <2>1, ConfiguredWaysResolve
<1>. QED  BY RateInvariant, <1>1, PTL

-----------------------------------------------------------------------------
(* Arithmetic.                                                             *)

\* Division rounds down, and no other number is the quotient.
LEMMA Quotient ==
  ASSUME NEW x \in Int, NEW d \in Nat \ {0}
  PROVE  /\ x \div d \in Int /\ (x \div d) * d \in Int
         /\ (x \div d) * d <= x /\ x < (x \div d) * d + d
         /\ \A q \in Int : q * d <= x /\ x < q * d + d => x \div d = q
<1>1. x \div d \in Int /\ (x \div d) * d <= x /\ x < (x \div d) * d + d
  BY Z3
<1>2. ASSUME NEW q \in Int, q * d <= x, x < q * d + d PROVE x \div d = q
  <2>. DEFINE p == x \div d
  <2>1. p \in Int /\ p * d <= x /\ x < p * d + d
    BY <1>1
  <2>. HIDE DEF p
  <2>2. ~(p + 1 <= q)
    <3>1. p + 1 <= q => (p + 1) * d <= q * d
      BY <2>1
    <3>. QED  BY <1>2, <2>1, <3>1
  <2>3. ~(q + 1 <= p)
    <3>1. q + 1 <= p => (q + 1) * d <= p * d
      BY <2>1
    <3>. QED  BY <1>2, <2>1, <3>1
  <2>4. p = q
    BY <2>1, <2>2, <2>3
  <2>. QED  BY <2>4 DEF p
<1>3. (x \div d) * d \in Int
  BY <1>1
<1>. QED  BY <1>1, <1>2, <1>3

\* The rest of a division.
LEMMA Rest ==
  ASSUME NEW x \in Int, NEW d \in Nat \ {0}
  PROVE  /\ x % d \in 0 .. d - 1 /\ x % d = x - (x \div d) * d
         /\ x >= 0 => x % d <= x
<1>1. x % d \in 0 .. d - 1
  BY Z3
<1>2. x % d = x - (x \div d) * d
  BY Z3
<1>3. x >= 0 => x % d <= x
  BY Z3
<1>. QED  BY <1>1, <1>2, <1>3

\* The constants as numbers.
LEMMA Units ==
  /\ Minute \in Nat \ {0} /\ Hour \in Nat \ {0} /\ Year \in Nat /\ LastTime \in Nat
  /\ DefaultHours \in Nat /\ 1 <= DefaultHours /\ DefaultHours <= Year
  /\ None \notin Int /\ Blank \notin Int
BY ScheduleAssumption

\* More hours take longer.
LEMMA HoursAdd ==
  ASSUME NEW a \in Nat, NEW b \in Nat
  PROVE  a * Hour \in Nat /\ (a <= b => a * Hour <= b * Hour)
BY Units

-----------------------------------------------------------------------------
(* The schedule of a link.                                                 *)

\* A lifetime counts from the later one of now and the start.
LEMMA BaseIs ==
  ASSUME NEW start \in Optional(Nat), NEW t \in Nat
  PROVE  /\ Base(start, t) \in Nat /\ t <= Base(start, t)
         /\ start # None => start <= Base(start, t)
         /\ Base(start, t) # t => start # None /\ Base(start, t) = start
         /\ \A u \in Nat : t <= u => Base(start, t) <= Base(start, u)
BY Units DEF Optional, Base

\* An expiry is an instant, and no earlier than what it counts from.
LEMMA ExpiryIs ==
  ASSUME NEW hours \in Nat, NEW start \in Optional(Nat), NEW t \in Nat
  PROVE  /\ Expiry(hours, start, t) \in Nat /\ Expiry(hours, start, t) # None
         /\ Expiry(hours, start, t) >= Base(start, t)
         /\ Expiry(hours, start, t) = Base(start, t) + hours * Hour
<1>1. hours * Hour \in Nat /\ Base(start, t) \in Nat
  BY HoursAdd, BaseIs
<1>. QED  BY <1>1, Units DEF Expiry

\* What a form shows of a date is at most a minute earlier.
LEMMA ShownIs ==
  ASSUME NEW t \in Optional(Nat)
  PROVE  /\ Shown(t) \in Optional(Nat)
         /\ t = None => Shown(t) = None
         /\ t # None => Shown(t) # None /\ Shown(t) <= t /\ t - Shown(t) < Minute
<1>1. CASE t = None
  BY <1>1 DEF Shown, Optional
<1>2. CASE t # None
  <2>0. t \in Int /\ t >= 0 /\ Minute \in Nat \ {0}
    BY <1>2, Units DEF Optional
  <2>. DEFINE rest == t % Minute
  <2>1. rest \in 0 .. Minute - 1 /\ rest <= t
    BY <2>0, Rest, Zenon
  <2>. HIDE DEF rest
  <2>2. Shown(t) = t - rest
    BY <1>2 DEF Shown, rest
  <2>. QED  BY <1>2, <2>0, <2>1, <2>2, Units DEF Optional
<1>. QED  BY <1>1, <1>2

\* Hours left, rounded up, cover what is left and less than an hour more.
LEMMA HoursLeftIs ==
  ASSUME now \in Nat, NEW expires \in Optional(Nat), HoursLeft(expires) # Blank
  PROVE  /\ HoursLeft(expires) \in Nat \ {0} /\ expires # None
         /\ expires <= now + HoursLeft(expires) * Hour
         /\ now + HoursLeft(expires) * Hour < expires + Hour
<1>. DEFINE left == expires - now + Hour - 1
            hours == left \div Hour
<1>1. expires \in Nat /\ HoursLeft(expires) = hours /\ hours >= 1
  BY DEF HoursLeft, Optional
<1>2. left \in Int
  BY <1>1, Units
<1>. HIDE DEF left
<1>3. hours \in Int /\ hours * Hour <= left /\ left < hours * Hour + Hour
  BY <1>2, Units, Quotient
<1>. HIDE DEF hours
<1>4. hours \in Nat \ {0} /\ hours * Hour \in Nat
  BY <1>1, <1>3, HoursAdd
<1>5. expires <= now + hours * Hour /\ now + hours * Hour < expires + Hour
  BY <1>1, <1>3, <1>4, Units DEF left
<1>. QED  BY <1>1, <1>4, <1>5, Units


-----------------------------------------------------------------------------
(* The invariant.                                                          *)

LEMMA InitSchedule == ScheduleInit => ScheduleInv
BY Units DEF ScheduleInit, ScheduleInv, ScheduleTypeOK, TabInv, AnonymousLinksExpire

\* What a form holds is a date or none, and a lifetime or none.
LEMMA FormsAre ==
  /\ FormDates \subseteq Optional(Nat) /\ Optional(Dates) \subseteq Optional(Nat)
  /\ HoursEntered \subseteq Nat \cup {Blank}
<1>1. Dates \subseteq Nat /\ MaxHours \in Nat
  BY ScheduleAssumption
<1>2. FormDates \subseteq Optional(Nat) /\ Optional(Dates) \subseteq Optional(Nat)
  BY <1>1 DEF FormDates, Optional
<1>3. 0 .. MaxHours + 1 \subseteq Nat
  BY <1>1
<1>. QED  BY <1>2, <1>3 DEF HoursEntered

\* The expiry of a lifetime, given or by default.
LEMMA GivenIs ==
  ASSUME now \in Nat, NEW hours \in Nat \cup {Blank}, NEW start \in Optional(Nat)
  PROVE  /\ GivenExpiry(hours, start) \in Optional(Nat)
         /\ NewExpiry(hours, start) \in Optional(Nat)
         /\ GivenExpiry(hours, start) # None =>
              /\ hours \in Nat /\ GivenExpiry(hours, start) = Expiry(hours, start, now)
         /\ NewExpiry(hours, start) # None =>
              NewExpiry(hours, start) >= Base(start, now)
<1>0. DefaultHours \in Nat
  BY Units
<1>1. CASE hours = Blank
  <2>1. GivenExpiry(hours, start) = None /\ NewExpiry(hours, start) = Expiry(DefaultHours, start, now)
    BY <1>1 DEF GivenExpiry, NewExpiry
  <2>. QED  BY <1>0, <2>1, ExpiryIs DEF Optional
<1>2. CASE hours = 0 /\ hours # Blank
  <2>1. GivenExpiry(hours, start) = None /\ NewExpiry(hours, start) = None
    BY <1>2 DEF GivenExpiry, NewExpiry
  <2>. QED  BY <2>1 DEF Optional
<1>3. CASE hours # 0 /\ hours # Blank
  <2>1. /\ hours \in Nat
        /\ GivenExpiry(hours, start) = Expiry(hours, start, now)
        /\ NewExpiry(hours, start) = Expiry(hours, start, now)
    BY <1>3 DEF GivenExpiry, NewExpiry
  <2>. QED  BY <2>1, ExpiryIs DEF Optional
<1>. QED  BY <1>1, <1>2, <1>3

\* A visitor's lifetime is a year at most, and never none.
LEMMA VisitorIs ==
  ASSUME now \in Nat, NEW hours \in Nat \cup {Blank}, NEW start \in Optional(Nat),
         HoursAllowed(FALSE, hours)
  PROVE  /\ NewExpiry(hours, start) # None
         /\ NewExpiry(hours, start) <= Base(start, now) + Year * Hour
<1>. DEFINE given == IF hours = Blank THEN DefaultHours ELSE hours
<1>1. given \in Nat /\ 1 <= given /\ given <= Year /\ Year \in Nat
  BY Units DEF HoursAllowed
<1>2. NewExpiry(hours, start) = Expiry(given, start, now)
  BY <1>1 DEF NewExpiry, GivenExpiry, HoursAllowed
<1>. HIDE DEF given
<1>3. given * Hour \in Nat /\ Year * Hour \in Nat /\ given * Hour <= Year * Hour
  BY <1>1, HoursAdd
<1>4. /\ Base(start, now) \in Nat /\ Expiry(given, start, now) # None
      /\ Expiry(given, start, now) = Base(start, now) + given * Hour
  BY <1>1, BaseIs, ExpiryIs
<1>. QED  BY <1>2, <1>3, <1>4

\* A new link, by the form or by the API.
LEMMA CreateStep ==
  ASSUME ScheduleInv, Create
  PROVE  ScheduleInv'
<1>0. /\ now \in Nat /\ now' = now /\ tab' = tab /\ Year * Hour \in Nat
  BY Units, HoursAdd DEF ScheduleInv, ScheduleTypeOK, Create
<1>1. PICK user \in BOOLEAN, start, end \in Optional(Nat), hours \in Nat \cup {Blank} :
        /\ link' = [owned |-> user, start |-> start, end |-> end,
                    expires |-> NewExpiry(hours, start)]
        /\ ~user => HoursAllowed(FALSE, hours)
  <2>1. CASE CreateByForm
    BY <2>1, FormsAre DEF CreateByForm, Accept
  <2>2. CASE CreateByAPI
    BY <2>2, FormsAre DEF CreateByAPI, Accept
  <2>. QED  BY <2>1, <2>2 DEF Create
<1>2. NewExpiry(hours, start) \in Optional(Nat)
  BY <1>0, GivenIs
<1>3. link' \in Rows
  BY <1>1, <1>2 DEF Rows
<1>4. ScheduleTypeOK'
  BY <1>0, <1>3 DEF ScheduleInv, ScheduleTypeOK
<1>5. TabInv'
  BY <1>0 DEF ScheduleInv, TabInv, Shown
<1>6. AnonymousLinksExpire'
  <2>. SUFFICES ASSUME ~user
                PROVE  /\ NewExpiry(hours, start) # None
                       /\ NewExpiry(hours, start) <= Base(start, now) + Year * Hour
    BY <1>0, <1>1 DEF AnonymousLinksExpire, Base
  <2>. QED  BY <1>0, <1>1, VisitorIs
<1>. QED  BY <1>4, <1>5, <1>6 DEF ScheduleInv

\* An edit page is opened.
LEMMA OpenStep ==
  ASSUME ScheduleInv, OpenEdit
  PROVE  ScheduleInv'
<1>0. /\ now \in Nat /\ now \in 0 .. LastTime /\ now' = now /\ link' = link /\ link \in Rows
      /\ link # NoLink
      /\ tab' = [form |-> [start |-> Shown(link.start), end |-> Shown(link.end),
                           hours |-> HoursLeft(link.expires)],
                 row |-> link, opened |-> now]
  BY Units DEF ScheduleInv, ScheduleTypeOK, OpenEdit
<1>1. link.start \in Optional(Nat) /\ link.end \in Optional(Nat) /\ link.expires \in Optional(Nat)
  BY <1>0 DEF Rows
<1>2. Shown(link.start) \in Optional(Nat) /\ Shown(link.end) \in Optional(Nat)
  BY <1>1, ShownIs
<1>3. HoursLeft(link.expires) # Blank =>
        /\ HoursLeft(link.expires) \in Nat \ {0} /\ link.expires # None
        /\ link.expires <= now + HoursLeft(link.expires) * Hour
        /\ now + HoursLeft(link.expires) * Hour < link.expires + Hour
  BY <1>0, <1>1, HoursLeftIs
<1>4. ScheduleTypeOK'
  <2>1. [start |-> Shown(link.start), end |-> Shown(link.end),
         hours |-> HoursLeft(link.expires)] \in Shows
    BY <1>2, <1>3 DEF Shows
  <2>. QED  BY <1>0, <2>1 DEF ScheduleTypeOK
<1>5. TabInv'
  <2>1. /\ tab'.form.start = Shown(tab'.row.start) /\ tab'.form.end = Shown(tab'.row.end)
        /\ tab'.form.hours = HoursLeft(link.expires) /\ tab'.opened = now
        /\ tab'.row = link
    BY <1>0
  <2>. QED  BY <1>3, <2>1 DEF TabInv, Shown
<1>6. AnonymousLinksExpire'
  BY <1>0 DEF ScheduleInv, AnonymousLinksExpire, Base
<1>. QED  BY <1>4, <1>5, <1>6 DEF ScheduleInv

\* A page is saved, the one that is open or another.
LEMMA SaveStep ==
  ASSUME ScheduleInv, NEW form \in Shows, Save(form), tab' \in {tab, NoTab}
  PROVE  ScheduleInv'
<1>. DEFINE given == GivenExpiry(form.hours, form.start)
<1>0. /\ now \in Nat /\ now \in 0 .. LastTime /\ now' = now /\ link \in Rows
      /\ link # NoLink /\ link.owned
      /\ link' = [link EXCEPT !.start = form.start, !.end = form.end,
                              !.expires = IF form.hours = Blank THEN @ ELSE given]
  BY Units DEF ScheduleInv, ScheduleTypeOK, Save
<1>1. given \in Optional(Nat)
  BY <1>0, GivenIs DEF Shows
<1>2. link' \in Rows /\ link'.owned
  BY <1>0, <1>1 DEF Rows, Shows
<1>3. ScheduleTypeOK'
  BY <1>0, <1>2 DEF ScheduleInv, ScheduleTypeOK
<1>4. TabInv'
  BY <1>0 DEF ScheduleInv, TabInv, Shown
<1>5. AnonymousLinksExpire'
  BY <1>2 DEF AnonymousLinksExpire
<1>. QED  BY <1>3, <1>4, <1>5 DEF ScheduleInv

\* Time passes, and a start that was to come may be past.
LEMMA TickStep ==
  ASSUME ScheduleInv, Tick
  PROVE  ScheduleInv'
<1>0. /\ now \in Nat /\ now < LastTime /\ LastTime \in Nat /\ now' = now + 1
      /\ link' = link /\ tab' = tab /\ Year * Hour \in Nat
      /\ link # NoLink => link \in Rows
  BY Units, HoursAdd DEF ScheduleInv, ScheduleTypeOK, Tick
<1>1. ScheduleTypeOK'
  BY <1>0 DEF ScheduleInv, ScheduleTypeOK
<1>2. TabInv'
  BY <1>0 DEF ScheduleInv, TabInv, Shown
<1>3. AnonymousLinksExpire'
  <2>. SUFFICES ASSUME link # NoLink, ~link.owned
                PROVE  link.expires # None /\ link.expires <= Base(link.start, now + 1) + Year * Hour
    BY <1>0 DEF AnonymousLinksExpire, Base
  <2>1. link.expires # None /\ link.expires <= Base(link.start, now) + Year * Hour
    BY DEF ScheduleInv, AnonymousLinksExpire
  <2>2. link.start \in Optional(Nat) /\ link.expires \in Nat
    BY <1>0, <2>1 DEF Rows, Optional
  <2>3. /\ Base(link.start, now) \in Nat /\ Base(link.start, now + 1) \in Nat
        /\ Base(link.start, now) <= Base(link.start, now + 1)
    BY <1>0, <2>2, BaseIs
  <2>. QED  BY <1>0, <2>1, <2>2, <2>3
<1>. QED  BY <1>1, <1>2, <1>3 DEF ScheduleInv

LEMMA ScheduleInductive == ScheduleInv /\ [ScheduleNext]_scheduleVars => ScheduleInv'
<1>. SUFFICES ASSUME ScheduleInv, [ScheduleNext]_scheduleVars PROVE ScheduleInv'
  OBVIOUS
<1>1. CASE Create
  BY <1>1, CreateStep
<1>2. CASE OpenEdit
  BY <1>2, OpenStep
<1>3. CASE SaveUntouched
  <2>1. tab.form \in Shows
    BY <1>3 DEF ScheduleInv, ScheduleTypeOK, SaveUntouched
  <2>. QED  BY <1>3, <2>1, SaveStep DEF SaveUntouched
<1>4. CASE SaveChanged
  <2>1. Forms \subseteq Shows
    BY FormsAre DEF Forms, Shows
  <2>. QED  BY <1>4, <2>1, SaveStep DEF SaveChanged
<1>5. CASE Tick
  BY <1>5, TickStep
<1>6. CASE UNCHANGED scheduleVars
  BY <1>6 DEF scheduleVars, ScheduleInv, ScheduleTypeOK, TabInv, AnonymousLinksExpire, Shown, Base
<1>. QED  BY <1>1, <1>2, <1>3, <1>4, <1>5, <1>6 DEF ScheduleNext

\* The invariant of the dates of a link and of the edit page that is open.
THEOREM ScheduleInvariant == ScheduleSpec => []ScheduleInv
BY InitSchedule, ScheduleInductive, PTL DEF ScheduleSpec

\* "Please log in to create permanent links": a link without an owner expires, at most a
\* year after now or its start, whatever was asked for and whatever the dates.
THEOREM AnonymousLinksAreTemporary == ScheduleSpec => []AnonymousLinksExpire
<1>1. ScheduleInv => AnonymousLinksExpire
  BY DEF ScheduleInv
<1>. QED  BY <1>1, ScheduleInvariant, PTL


-----------------------------------------------------------------------------
(* What a schedule that is accepted promises.                              *)

\* A link that is not over when it counts from opens then.
LEMMA OpensAtBase ==
  ASSUME now \in Nat, NEW row \in Rows,
         WindowOK(row.start, row.end),
         row.expires # None => row.expires >= Base(row.start, now)
  PROVE  CanOpen(row, now)
<1>. DEFINE u == Base(row.start, now)
<1>1. /\ row.start \in Optional(Nat) /\ row.end \in Optional(Nat)
      /\ row.expires \in Optional(Nat)
  BY DEF Rows
<1>2. /\ u \in Nat /\ now <= u /\ (row.start # None => row.start <= u)
      /\ u # now => row.start # None /\ u = row.start
  BY <1>1, BaseIs
<1>3. u \in {now, row.start} \ {None}
  BY <1>2, Units
<1>4. row.end # None => row.end \in Nat
  BY <1>1 DEF Optional
<1>. HIDE DEF u
<1>5. CASE row.end # None /\ row.end < now
  BY <1>5 DEF CanOpen
<1>6. CASE ~(row.end # None /\ row.end < now)
  <2>1. row.end # None => u <= row.end
    <3>1. CASE u = now
      BY <1>2, <1>4, <1>6, <3>1
    <3>2. CASE u # now
      <4>1. row.start # None /\ u = row.start
        BY <1>2, <3>2
      <4>. QED  BY <1>2, <1>4, <4>1 DEF WindowOK
    <3>. QED  BY <3>1, <3>2
  <2>2. row.expires # None => u <= row.expires
    BY <1>1, <1>2 DEF u, Optional
  <2>3. IsActive(row, u)
    BY <1>2, <2>1, <2>2 DEF IsActive
  <2>. QED  BY <1>2, <1>3, <2>3 DEF CanOpen
<1>. QED  BY <1>5, <1>6

\* A row that is written, by a creation or by a save, counts its expiry from the base.
LEMMA AcceptedOpens ==
  ASSUME ScheduleInv, [ScheduleNext]_scheduleVars,
         link' # NoLink, link = NoLink \/ link'.expires # link.expires
  PROVE  CanOpen(link', now)
<1>0. now \in Nat /\ (link # NoLink => link \in Rows)
  BY Units DEF ScheduleInv, ScheduleTypeOK
<1>1. ScheduleInv'
  BY ScheduleInductive
<1>2. link' \in Rows
  BY <1>1 DEF ScheduleInv, ScheduleTypeOK
<1>3. CASE Create
  <2>1. PICK user \in BOOLEAN, start, end \in Optional(Nat), hours \in Nat \cup {Blank} :
          Accept(user, start, end, NewExpiry(hours, start))
    BY <1>3, FormsAre DEF Create, CreateByForm, CreateByAPI
  <2>2. /\ WindowOK(link'.start, link'.end)
        /\ link'.start = start /\ link'.expires = NewExpiry(hours, start)
    BY <2>1 DEF Accept
  <2>3. NewExpiry(hours, start) # None => NewExpiry(hours, start) >= Base(start, now)
    BY <1>0, GivenIs
  <2>. QED  BY <1>0, <1>2, <2>2, <2>3, OpensAtBase
<1>4. ASSUME NEW form \in Shows, Save(form) PROVE CanOpen(link', now)
  <2>. DEFINE given == GivenExpiry(form.hours, form.start)
  <2>1. /\ link # NoLink /\ WindowOK(form.start, form.end)
        /\ link' = [link EXCEPT !.start = form.start, !.end = form.end,
                                !.expires = IF form.hours = Blank THEN @ ELSE given]
    BY <1>4 DEF Save
  <2>2. link'.expires = given /\ link'.start = form.start /\ link'.end = form.end
    BY <1>0, <2>1 DEF Rows
  <2>3. form.start \in Optional(Nat) /\ form.hours \in Nat \cup {Blank}
    BY <1>4 DEF Shows
  <2>4. given # None => given >= Base(form.start, now)
    BY <1>0, <2>3, GivenIs, ExpiryIs
  <2>. HIDE DEF given
  <2>. QED  BY <1>0, <1>2, <2>1, <2>2, <2>4, OpensAtBase
<1>5. CASE SaveUntouched
  BY <1>4, <1>5 DEF ScheduleInv, ScheduleTypeOK, SaveUntouched
<1>6. CASE SaveChanged
  <2>1. Forms \subseteq Shows
    BY FormsAre DEF Forms, Shows
  <2>. QED  BY <1>4, <1>6, <2>1 DEF SaveChanged
<1>7. CASE UNCHANGED link
  BY <1>7
<1>. QED  BY <1>3, <1>5, <1>6, <1>7 DEF ScheduleNext, OpenEdit, Tick, scheduleVars

\* A schedule that is accepted together with a lifetime has an instant at which the link
\* works, whatever start was chosen and however long ago the form was filled in
\* (ShortenForm.Validate, apiExpiry and EditForm.Validate).
THEOREM SchedulesCanOpen == ScheduleSpec => AcceptedLinksCanOpen
<1>1. ScheduleInv /\ [ScheduleNext]_scheduleVars =>
        [link' # NoLink /\ (link = NoLink \/ link'.expires # link.expires) => CanOpen(link', now)]_scheduleVars
  BY AcceptedOpens
<1>. QED  BY <1>1, ScheduleInvariant, PTL DEF ScheduleSpec, AcceptedLinksCanOpen

\* A page that is saved as it was opened.
LEMMA UntouchedKeeps ==
  ASSUME ScheduleInv, SaveUntouched
  PROVE  LET old == tab.row
             prolonged == Hour + Base(link'.start, now) - tab.opened
             Kept(new, date) == IF date = None THEN new = None
                                ELSE new # None /\ new <= date /\ date - new < Minute
         IN  /\ IF tab.form.hours = Blank THEN link'.expires = link.expires
                ELSE /\ old.expires # None /\ link'.expires # None
                     /\ old.expires <= link'.expires
                     /\ link'.expires < old.expires + prolonged
             /\ Kept(link'.start, old.start) /\ Kept(link'.end, old.end)
<1>. DEFINE form == tab.form
            old == tab.row
            given == GivenExpiry(form.hours, form.start)
<1>1. /\ now \in Nat /\ link \in Rows /\ form \in Shows /\ old \in Rows
      /\ tab.opened \in Nat /\ tab.opened <= now
      /\ tab # NoTab /\ link # NoLink
      /\ link' = [link EXCEPT !.start = form.start, !.end = form.end,
                              !.expires = IF form.hours = Blank THEN @ ELSE given]
  BY Units DEF ScheduleInv, ScheduleTypeOK, SaveUntouched, Save
<1>2. /\ link'.start = form.start /\ link'.end = form.end
      /\ link'.expires = IF form.hours = Blank THEN link.expires ELSE given
  BY <1>1 DEF Rows
<1>3. /\ form.start = Shown(old.start) /\ form.end = Shown(old.end)
      /\ form.hours # Blank =>
           /\ form.hours > 0 /\ old.expires # None
           /\ old.expires <= tab.opened + form.hours * Hour
           /\ tab.opened + form.hours * Hour < old.expires + Hour
  BY <1>1 DEF ScheduleInv, TabInv
<1>4. /\ form.start \in Optional(Nat) /\ form.hours \in Nat \cup {Blank}
      /\ old.start \in Optional(Nat) /\ old.end \in Optional(Nat)
      /\ old.expires \in Optional(Nat)
  BY <1>1 DEF Shows, Rows
<1>5. ASSUME form.hours # Blank
      PROVE  /\ old.expires # None /\ given # None /\ old.expires <= given
             /\ given < old.expires + (Hour + Base(form.start, now) - tab.opened)
  <2>. DEFINE base == Base(form.start, now)
              long == form.hours * Hour
  <2>1. base \in Nat /\ now <= base
    BY <1>1, <1>4, BaseIs
  <2>2. long \in Nat /\ form.hours \in Nat
    BY <1>4, <1>5, HoursAdd
  <2>3. given = Expiry(form.hours, form.start, now)
    BY <1>3, <1>5, <2>2 DEF GivenExpiry
  <2>4. given = base + long /\ given # None
    BY <1>1, <1>4, <2>2, <2>3, ExpiryIs
  <2>5. /\ old.expires # None /\ old.expires <= tab.opened + long
        /\ tab.opened + long < old.expires + Hour
    BY <1>3, <1>5
  <2>6. old.expires \in Nat /\ Hour \in Nat
    BY <1>4, <2>5, Units DEF Optional
  <2>. HIDE DEF base, long, given, form, old
  <2>7. old.expires <= given /\ given < old.expires + (Hour + base - tab.opened)
    BY <1>1, <2>1, <2>2, <2>4, <2>5, <2>6
  <2>. QED  BY <2>4, <2>5, <2>7 DEF base
<1>6. ASSUME NEW date \in Optional(Nat)
      PROVE  IF date = None THEN Shown(date) = None
             ELSE Shown(date) # None /\ Shown(date) <= date /\ date - Shown(date) < Minute
  BY <1>6, ShownIs
<1>7. /\ IF form.hours = Blank THEN link'.expires = link.expires
         ELSE /\ old.expires # None /\ link'.expires # None
              /\ old.expires <= link'.expires
              /\ link'.expires < old.expires + (Hour + Base(link'.start, now) - tab.opened)
  BY <1>2, <1>5
<1>8. /\ IF old.start = None THEN link'.start = None
         ELSE link'.start # None /\ link'.start <= old.start /\ old.start - link'.start < Minute
      /\ IF old.end = None THEN link'.end = None
         ELSE link'.end # None /\ link'.end <= old.end /\ old.end - link'.end < Minute
  BY <1>2, <1>3, <1>4, <1>6
<1>. QED  BY <1>7, <1>8

\* Saving an edit page nobody changed never makes a link permanent and never shortens its
\* life, however long the page was open, and the dates lose less than a minute
\* (handleEditForm and handleEdit together).
THEOREM UntouchedPagesKeepExpiry == ScheduleSpec => UntouchedSaveKeepsExpiry
<1>1. ScheduleInv /\ [ScheduleNext]_scheduleVars =>
        [SaveUntouched =>
           LET old == tab.row
               prolonged == Hour + Base(link'.start, now) - tab.opened
               Kept(new, date) == IF date = None THEN new = None
                                  ELSE new # None /\ new <= date /\ date - new < Minute
           IN  /\ IF tab.form.hours = Blank THEN link'.expires = link.expires
                  ELSE /\ old.expires # None /\ link'.expires # None
                       /\ old.expires <= link'.expires
                       /\ link'.expires < old.expires + prolonged
               /\ Kept(link'.start, old.start) /\ Kept(link'.end, old.end)]_scheduleVars
  BY UntouchedKeeps
<1>. QED  BY <1>1, ScheduleInvariant, PTL DEF ScheduleSpec, UntouchedSaveKeepsExpiry


-----------------------------------------------------------------------------
(* The bars of the statistics page.                                        *)

\* Going back whole hours or days goes back as many of them.
LEMMA Back ==
  ASSUME NEW x \in Int, NEW i \in Int, NEW d \in Nat \ {0}
  PROVE  (x - i * d) \div d = (x \div d) - i
<1>. DEFINE q == x \div d
<1>1. q \in Int /\ q * d <= x /\ x < q * d + d
  BY Quotient, Zenon
<1>. HIDE DEF q
<1>2. (q - i) * d = q * d - i * d
  BY <1>1, Z3
<1>3. x - i * d \in Int /\ q - i \in Int /\ q * d \in Int /\ i * d \in Int
  BY <1>1
<1>4. (q - i) * d <= x - i * d /\ x - i * d < (q - i) * d + d
  BY <1>1, <1>2, <1>3
<1>5. (x - i * d) \div d = q - i
  BY <1>3, <1>4, Quotient, Zenon
<1>. QED  BY <1>5 DEF q

\* What is later is in no earlier hour or day.
LEMMA Later ==
  ASSUME NEW x \in Int, NEW y \in Int, NEW d \in Nat \ {0}, x <= y
  PROVE  x \div d <= y \div d
<1>. DEFINE p == x \div d
            q == y \div d
<1>1. p \in Int /\ p * d <= x /\ x < p * d + d
  BY Quotient, Zenon
<1>2. q \in Int /\ q * d <= y /\ y < q * d + d
  BY Quotient, Zenon
<1>. HIDE DEF p, q
<1>3. ~(q + 1 <= p)
  <2>1. q + 1 <= p => (q + 1) * d <= p * d
    BY <1>1, <1>2
  <2>2. (q + 1) * d = q * d + d /\ q * d \in Int /\ p * d \in Int
    BY <1>1, <1>2
  <2>. QED  BY <1>1, <1>2, <2>1, <2>2
<1>4. p <= q
  BY <1>1, <1>2, <1>3
<1>. QED  BY <1>4 DEF p, q

\* Two hours within a day of each other do not share a label.
LEMMA HoursDiffer ==
  ASSUME NEW a \in Int, NEW h \in a - 23 .. a, NEW k \in a - 23 .. a
  PROVE  h % HoursPerDay = k % HoursPerDay <=> h = k
<1>1. h \in Int /\ k \in Int
  OBVIOUS
<1>2. h % 24 = k % 24 <=> h = k
  BY <1>1, Z3
<1>. QED  BY <1>2 DEF HoursPerDay

\* The three ranges.
LEMMA RangesAre ==
  ASSUME NEW range \in Ranges
  PROVE  /\ PerHour \in Nat \ {0} /\ PerDay \in Nat \ {0} /\ BarWidth(range) \in Nat \ {0}
         /\ Oldest(range) \in Nat
         /\ Hourly(range) => Oldest(range) = 23 /\ BarWidth(range) = PerHour
         /\ ~Hourly(range) => BarWidth(range) = PerDay
<1>1. PerHour \in Nat \ {0} /\ PerDay \in Nat \ {0}
  BY StatisticsAssumption DEF PerDay, HoursPerDay
<1>. QED  BY <1>1 DEF Ranges, Hourly, BarWidth, Oldest

\* The clicks since the cutoff are those of the hours or days that have a label.
LEMMA SinceIs ==
  ASSUME NEW range \in Ranges, NEW asked \in Nat, NEW t \in Clicks(range, asked)
  PROVE  LET a == asked \div BarWidth(range)
             h == t \div BarWidth(range)
         IN  /\ t \in Int /\ a \in Int /\ h \in Int /\ h <= a
             /\ t >= Cutoff(range, asked) => a - Oldest(range) <= h
<1>. DEFINE d == BarWidth(range)
            n == Oldest(range)
            a == asked \div d
            h == t \div d
<1>0. asked \in Int
  OBVIOUS
<1>1. d \in Nat \ {0} /\ n \in Nat /\ n * d \in Nat
  BY RangesAre
<1>2. a \in Int /\ a * d <= asked /\ asked < a * d + d /\ a * d \in Int
  BY <1>0, <1>1, Quotient, Zenon
<1>3. asked % d = asked - a * d
  BY <1>0, <1>1, Rest, Zenon
<1>4. Cutoff(range, asked) = IF Hourly(range) THEN asked - (asked % d) - n * d ELSE asked - n * d
  BY RangesAre DEF Cutoff
<1>. HIDE DEF d, n
<1>5. t \in Int /\ t <= asked + d - (asked % d) - 1
  BY <1>1, <1>2, <1>3 DEF Clicks, d
<1>6. h \in Int /\ h * d <= t /\ t < h * d + d
  BY <1>1, <1>5, Quotient, Zenon
<1>. HIDE DEF a, h
<1>7. ~(a + 1 <= h)
  <2>1. a + 1 <= h => (a + 1) * d <= h * d
    BY <1>1, <1>2, <1>6
  <2>2. (a + 1) * d = a * d + d /\ h * d \in Int
    BY <1>1, <1>2, <1>6
  <2>. QED  BY <1>1, <1>2, <1>3, <1>5, <1>6, <2>1, <2>2
<1>8. ASSUME t >= Cutoff(range, asked)
      PROVE  a - n <= h
  <2>1. a * d - n * d <= t
    BY <1>1, <1>2, <1>3, <1>4, <1>5, <1>8
  <2>2. (a - n) * d = a * d - n * d /\ a - n \in Int
    BY <1>1, <1>2, Z3
  <2>3. ((a - n) * d) \div d <= t \div d
    BY <1>1, <1>2, <1>5, <2>1, <2>2, Later
  <2>4. ((a - n) * d) \div d = a - n
    <3>1. (a - n) * d \in Int /\ (a - n) * d <= (a - n) * d /\ (a - n) * d < (a - n) * d + d
      BY <1>1, <2>2
    <3>. QED  BY <1>1, <2>2, <3>1, Quotient
  <2>. QED  BY <2>3, <2>4 DEF h
<1>. QED  BY <1>2, <1>5, <1>6, <1>7, <1>8 DEF a, h, d, n

\* Of the labels exactly the one of its hour or day is a click's.
LEMMA LabelIs ==
  ASSUME NEW range \in Ranges, NEW asked \in Nat, NEW t \in Clicks(range, asked),
         t >= Cutoff(range, asked)
  PROVE  LET i0 == (asked \div BarWidth(range)) - (t \div BarWidth(range))
         IN  /\ i0 \in 0 .. Oldest(range)
             /\ \A i \in 0 .. Oldest(range) :
                  /\ In(t, i, range, asked) <=> i = i0
                  /\ Labels(range, asked)[i] = Label(t, Hourly(range)) <=> i = i0
<1>. DEFINE d == BarWidth(range)
            a == asked \div d
            h == t \div d
<1>1. /\ t \in Int /\ a \in Int /\ h \in Int /\ h <= a /\ a - Oldest(range) <= h
  BY SinceIs
<1>2. d \in Nat \ {0} /\ Oldest(range) \in Nat
  BY RangesAre
<1>3. a - h \in 0 .. Oldest(range)
  BY <1>1, <1>2
<1>4. ASSUME NEW i \in 0 .. Oldest(range)
      PROVE  /\ In(t, i, range, asked) <=> i = a - h
             /\ Labels(range, asked)[i] = Label(t, Hourly(range)) <=> i = a - h
  <2>0. i \in Int /\ asked \in Int
    BY <1>2
  <2>1. i \in Int /\ (asked - i * d) \div d = a - i
    BY <1>2, <2>0, Back, Zenon
  <2>2. In(t, i, range, asked) <=> h = a - i
    BY <2>1 DEF In
  <2>3. h = a - i <=> i = a - h
    BY <1>1, <2>1
  <2>4. Labels(range, asked)[i] = Label(asked - i * d, Hourly(range))
    BY DEF Labels
  <2>5. Label(asked - i * d, Hourly(range)) = Label(t, Hourly(range)) <=> h = a - i
    <3>1. CASE Hourly(range)
      <4>1. /\ Label(asked - i * d, Hourly(range)) = (a - i) % HoursPerDay
            /\ Label(t, Hourly(range)) = h % HoursPerDay
        BY <2>1, <3>1, RangesAre DEF Label
      <4>2. a - i \in a - 23 .. a /\ h \in a - 23 .. a
        BY <1>1, <3>1, RangesAre
      <4>. QED  BY <1>1, <4>1, <4>2, HoursDiffer
    <3>2. CASE ~Hourly(range)
      BY <2>1, <3>2, RangesAre DEF Label
    <3>. QED  BY <3>1, <3>2
  <2>. QED  BY <2>2, <2>3, <2>4, <2>5
<1>. QED  BY <1>3, <1>4

\* A click counts one under its own label, if it is counted, and nothing elsewhere.
LEMMA ValueIs ==
  ASSUME NEW t, NEW range, NEW asked, NEW i \in 0 .. Oldest(range)
  PROVE  /\ DOMAIN Values({t}, range, asked) = 0 .. Oldest(range)
         /\ Values({t}, range, asked)[i] =
              IF t >= Cutoff(range, asked) /\ Labels(range, asked)[i] = Label(t, Hourly(range))
              THEN 1 ELSE 0
<1>. DEFINE cutoff == Cutoff(range, asked)
            hourly == Hourly(range)
            labels == Labels(range, asked)
            counted == Counts({t}, cutoff, hourly)
<1>1. DOMAIN labels = 0 .. Oldest(range)
  BY DEF Labels
<1>2. /\ DOMAIN Values({t}, range, asked) = DOMAIN labels
      /\ Values({t}, range, asked)[i] =
           IF labels[i] \in DOMAIN counted THEN counted[labels[i]] ELSE 0
  BY <1>1 DEF Values
<1>3. CASE t >= cutoff
  <2>1. {x \in {t} : x >= cutoff} = {t}
    BY <1>3
  <2>2. counted = [l \in {Label(x, hourly) : x \in {t}} |->
                    Cardinality({x \in {t} : Label(x, hourly) = l})]
    BY <2>1 DEF Counts
  <2>3. {Label(x, hourly) : x \in {t}} = {Label(t, hourly)}
    OBVIOUS
  <2>4. {x \in {t} : Label(x, hourly) = Label(t, hourly)} = {t}
    OBVIOUS
  <2>5. DOMAIN counted = {Label(t, hourly)} /\ counted[Label(t, hourly)] = Cardinality({t})
    BY <2>2, <2>3, <2>4
  <2>6. Cardinality({t}) = 1
    BY FS_Singleton
  <2>. QED  BY <1>1, <1>2, <1>3, <2>5, <2>6
<1>4. CASE ~(t >= cutoff)
  <2>1. {x \in {t} : x >= cutoff} = {}
    BY <1>4
  <2>2. DOMAIN counted = {}
    BY <2>1 DEF Counts
  <2>. QED  BY <1>1, <1>2, <1>4, <2>2
<1>. QED  BY <1>3, <1>4

\* One click is right.
LEMMA RightClick ==
  ASSUME NEW range \in Ranges, NEW asked \in Nat, NEW t \in Clicks(range, asked)
  PROVE  Right(t, range, asked)
<1>. DEFINE values == Values({t}, range, asked)
            bars == {i \in DOMAIN values : values[i] > 0}
            since == t >= Cutoff(range, asked)
<1>0. 0 \in 0 .. Oldest(range)
  BY RangesAre
<1>1. DOMAIN values = 0 .. Oldest(range)
  BY <1>0, ValueIs
<1>2. \A i \in 0 .. Oldest(range) :
        values[i] = IF since /\ Labels(range, asked)[i] = Label(t, Hourly(range)) THEN 1 ELSE 0
  BY ValueIs
<1>. HIDE DEF values
<1>3. CASE since
  <2>. DEFINE i0 == (asked \div BarWidth(range)) - (t \div BarWidth(range))
  <2>1. /\ i0 \in 0 .. Oldest(range)
        /\ \A i \in 0 .. Oldest(range) :
             /\ In(t, i, range, asked) <=> i = i0
             /\ Labels(range, asked)[i] = Label(t, Hourly(range)) <=> i = i0
    BY <1>3, LabelIs
  <2>. HIDE DEF i0
  <2>2. bars = {i0} /\ {i \in DOMAIN values : since /\ In(t, i, range, asked)} = {i0}
    BY <1>1, <1>2, <1>3, <2>1
  <2>3. Cardinality({i0}) = 1
    BY FS_Singleton
  <2>. QED  BY <1>3, <2>2, <2>3 DEF Right, values
<1>4. CASE ~since
  <2>1. bars = {} /\ {i \in DOMAIN values : since /\ In(t, i, range, asked)} = {}
    BY <1>1, <1>2, <1>4
  <2>2. Cardinality({}) = 0
    BY FS_EmptySet
  <2>. QED  BY <1>4, <2>1, <2>2 DEF Right, values
<1>. QED  BY <1>3, <1>4

\* The cutoff is in the hour or day of the oldest label.
LEMMA CutoffIs ==
  ASSUME NEW range \in Ranges, NEW asked \in Nat
  PROVE  In(Cutoff(range, asked), Oldest(range), range, asked)
<1>. DEFINE d == BarWidth(range)
            n == Oldest(range)
            a == asked \div d
<1>1. d \in Nat \ {0} /\ n \in Nat /\ n \in Int /\ asked \in Int
  BY RangesAre
<1>2. (asked - n * d) \div d = a - n
  BY <1>1, Back, Zenon
<1>3. CASE ~Hourly(range)
  BY <1>3 DEF In, Cutoff
<1>4. CASE Hourly(range)
  <2>1. a \in Int /\ asked % d = asked - a * d /\ a * d \in Int
    BY <1>1, Quotient, Rest, Zenon
  <2>. HIDE DEF a
  <2>2. asked - (asked % d) = a * d
    BY <2>1
  <2>3. Cutoff(range, asked) = a * d - n * d
    BY <1>4, <2>2, RangesAre DEF Cutoff
  <2>4. (a * d - n * d) \div d = ((a * d) \div d) - n
    BY <1>1, <2>1, Back, Zenon
  <2>5. (a * d) \div d = a
    <3>1. a * d <= a * d /\ a * d < a * d + d
      BY <1>1, <2>1
    <3>. QED  BY <1>1, <2>1, <3>1, Quotient
  <2>. QED  BY <1>2, <2>3, <2>4, <2>5 DEF In
<1>. QED  BY <1>3, <1>4

\* The bars a click adds to are the one of its hour or day and no other, whenever the
\* page is asked for and however long an hour is (timeBuckets and ClicksByTimeBucket).
THEOREM EveryClickHasItsBar == \A asked \in Nows : EveryClickRight[asked]
<1>. SUFFICES ASSUME NEW asked \in Nows PROVE EveryClickRight[asked]
  OBVIOUS
<1>1. asked \in Nat
  BY StatisticsAssumption
<1>. QED  BY <1>1, RightClick, CutoffIs DEF EveryClickRight

\* The page that is asked for by the clock of the schedule.
THEOREM ClicksAreCountedOnce ==
  ASSUME MCNows \subseteq Nows
  PROVE  ScheduleSpec => []EachClickCountedOnce
<1>1. ScheduleInv => EachClickCountedOnce
  <2>. SUFFICES ASSUME ScheduleInv PROVE Midnight + now \in Nows
    BY EveryClickHasItsBar DEF EachClickCountedOnce
  <2>1. now \in 0 .. LastTime /\ LastTime \in Nat /\ Midnight \in Int
    BY StatisticsAssumption, Units DEF ScheduleInv, ScheduleTypeOK, Midnight, PerDay, HoursPerDay
  <2>2. Midnight + now \in MCNows
    BY <2>1 DEF MCNows
  <2>. QED  BY <2>2
<1>. QED  BY <1>1, ScheduleInvariant, PTL
=============================================================================

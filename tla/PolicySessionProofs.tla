------------------------ MODULE PolicySessionProofs ------------------------
(***************************************************************************)
(* A policy's night, for every machine, every set of configs and every     *)
(* order of ticks, requests and disturbances: a validation has its cards to *)
(* itself (ValidationUndisturbed), the machine is held as long as the       *)
(* session is and no longer than something stands on it (HeldForTheNight),  *)
(* and a session that ends by itself has judged every contender             *)
(* (EveryContenderJudged).                                                  *)
(***************************************************************************)
EXTENDS PolicySession, FiniteSetTheorems, SequenceTheorems, WellFoundedInduction, TLAPS

(***************************************************************************)
(* The inductive invariant.                                                *)
(***************************************************************************)
Early == {"ABSENT", "PENDING", "STARTING", "SEARCHING", "FINALIZING"}
SessionStates == Early \cup {"VALIDATING"} \cup TERMINAL_SESSION_STATES
ContenderStates == {"REGISTERED", "SERVING", "VALIDATED", "FAILED", "SKIPPED", "SUPERSEDED"}

RunRows ==
  [kind : {"POLICY_LAUNCH", "EXTERNAL", "EXPERIMENT"},
   st : {"pending", "serving", "benching", "succeeded", "failed", "killed"},
   cards : SUBSET AllCards, parent : Nat, ref : BOOLEAN, release : BOOLEAN, stop : BOOLEAN,
   waits : BOOLEAN, dying : BOOLEAN, past : BOOLEAN]
ContRows == [rank : Nat, cfg : Configs, st : ContenderStates, run : Nat]
SessRows ==
  [status : SessionStates, placed : BOOLEAN, cards : SUBSET AllCards,
   heard : {"never", "fresh", "silent"}, said : {"", "exhausted", "error"},
   finalized : BOOLEAN, finalizing : BOOLEAN, abort : BOOLEAN, strikes : Nat, fail : BOOLEAN,
   reason : {"", "other", "policy_exhausted"}, serving : Nat, asked : BOOLEAN]
Requests ==
  {NoRequest}
    \cup [kind : {"serving"}, cont : Nat, over : BOOLEAN]
    \cup [kind : {"contenders"}, list : Seq(Configs), over : BOOLEAN]
    \cup [kind : {"launch", "external"}, cards : SUBSET AllCards, over : BOOLEAN]
    \cup [kind : {"bench"}, parent : Nat, over : BOOLEAN]

Shapes ==
  /\ knobs \in Knobs /\ sess \in SessRows /\ req \in Requests
  /\ conts \in Seq(ContRows) /\ runs \in Seq(RunRows)
  /\ mach \in {"AVAILABLE", "RESERVED"} /\ other \in {"none", "live", "dying"}

\* What the session's status says of the rest of the night.
NightOK ==
  /\ sess.status \in {"ABSENT", "PENDING"} => runs = <<>> /\ conts = <<>> /\ req = NoRequest
  /\ sess.status = "ABSENT" => ~sess.placed
  /\ sess.status \in Started => sess.placed
  /\ sess.status \in Early => ~sess.asked
  /\ ~sess.asked => \A i \in DOMAIN runs : ~runs[i].past

\* Nothing is validated before the search is over, nor while a launch that
\* was asked for during the search is still to be committed: no tick has
\* passed since it was read, or just the one that ended the search.
Validated(rs) == \E i \in DOMAIN rs : rs[i].kind = "EXPERIMENT"
NoneYet == sess.status \in Early \/ req.kind = "launch" => ~Validated(runs)
FreshRequest == req.kind = "launch" /\ ~req.over => Exploring

\* On a machine that is not shared the clock's session lets nobody in, and
\* waits for who was there before it validates.
Alone ==
  ~knobs.shares /\ ~sess.asked =>
    /\ sess.placed /\ sess.status \in Started \cup {"PENDING"} => other # "live"
    /\ sess.status \in Started /\ Validated(runs) => other = "none"

SInv ==
  /\ Shapes /\ NightOK /\ NoneYet /\ FreshRequest /\ Alone
  /\ ValidationUndisturbed /\ HeldForTheNight

(***************************************************************************)
(* Orders and passes.                                                      *)
(***************************************************************************)

\* Induction up to n: what holds of 0, and of k if of k - 1, holds of them all.
LEMMA LeastBad ==
  ASSUME NEW n \in Nat, NEW Good, 0 \in Good,
         \A k \in 1..n : k - 1 \in Good => k \in Good
  PROVE  \A k \in 0..n : k \in Good
<1> DEFINE Bad == {k \in 0..n : k \notin Good}
           R == OpToRel(<, Nat)
<1> SUFFICES ASSUME Bad # {} PROVE FALSE
  OBVIOUS
<1>1. IsWellFoundedOn(R, Nat)
  BY NatLessThanWellFounded
<1>2. Bad \subseteq Nat
  OBVIOUS
<1> HIDE DEF R, Bad
<1>3. PICK x \in Bad : \A y \in Bad : ~(<<y, x>> \in R)
  BY <1>1, <1>2, WFMin
<1>4. \A y \in Bad : ~(y < x)
  BY <1>2, <1>3 DEF R, OpToRel
<1>5. x \in 1..n /\ x \notin Good
  BY <1>3 DEF Bad
<1>6. x - 1 \in 0..n /\ x - 1 < x
  BY <1>5
<1>7. x - 1 \in Good
  BY <1>4, <1>6 DEF Bad
<1> QED BY <1>5, <1>7

\* Places that are all different put every member in the order, and nothing
\* else.
LEMMA PlacesOrder ==
  ASSUME NEW S, IsFiniteSet(S), NEW place \in [S -> 1..Cardinality(S)],
         \A i, j \in S : place[i] = place[j] => i = j
  PROVE  /\ Cardinality(S) \in Nat
         /\ InPlaces(place) \in [1..Cardinality(S) -> S]
         /\ \A i \in S : \E k \in 1..Cardinality(S) : InPlaces(place)[k] = i
<1> DEFINE n == Cardinality(S)
<1>1. n \in Nat
  BY FS_CardinalityType
<1>2. IsFiniteSet(1..n) /\ Cardinality(1..n) = n
  BY <1>1, FS_Interval
<1>3. place \in Injection(S, 1..n)
  BY DEF Injection, IsInjective
<1>4. place \in Surjection(S, 1..n)
  BY <1>2, <1>3, FS_Injection
<1>5. \A k \in 1..n : \E i \in S : place[i] = k
  BY <1>4 DEF Surjection
<1>6. InPlaces(place) = [k \in 1..n |-> CHOOSE i \in S : place[i] = k]
  BY DEF InPlaces
<1> HIDE DEF n
<1>7. \A k \in 1..n : InPlaces(place)[k] \in S /\ place[InPlaces(place)[k]] = k
  BY <1>5, <1>6
<1>8. InPlaces(place) \in [1..n -> S]
  BY <1>6, <1>7
<1>9. ASSUME NEW i \in S PROVE \E k \in 1..n : InPlaces(place)[k] = i
  <2>1. place[i] \in 1..n
    BY DEF n
  <2> QED BY <1>7, <2>1
<1> QED BY <1>1, <1>8, <1>9 DEF n

\* The place of a member is how many are not after it.
LEMMA CountsPlace ==
  ASSUME NEW S, IsFiniteSet(S), NEW before \in [S -> SUBSET S],
         \A i \in S : i \in before[i],
         \A i, j \in S : i # j => \/ before[i] \subseteq before[j] /\ j \notin before[i]
                                  \/ before[j] \subseteq before[i] /\ i \notin before[j]
  PROVE  /\ [i \in S |-> Cardinality(before[i])] \in [S -> 1..Cardinality(S)]
         /\ \A i, j \in S : Cardinality(before[i]) = Cardinality(before[j]) => i = j
<1>1. ASSUME NEW i \in S
      PROVE  IsFiniteSet(before[i]) /\ Cardinality(before[i]) \in 1..Cardinality(S)
  <2>1. before[i] \in SUBSET S /\ i \in before[i]
    OBVIOUS
  <2>2. IsFiniteSet(before[i]) /\ Cardinality(before[i]) <= Cardinality(S)
    BY <2>1, FS_Subset
  <2>3. Cardinality(before[i]) \in Nat /\ Cardinality(S) \in Nat
    BY <2>2, FS_CardinalityType
  <2>4. Cardinality(before[i]) # 0
    BY <2>1, <2>2, FS_EmptySet
  <2> QED BY <2>2, <2>3, <2>4
<1>2. ASSUME NEW i \in S, NEW j \in S, i # j, before[i] \subseteq before[j], j \notin before[i]
      PROVE  Cardinality(before[i]) # Cardinality(before[j])
  <2>1. IsFiniteSet(before[j]) /\ before[i] \in SUBSET before[j] /\ before[i] # before[j]
    BY <1>1, <1>2
  <2> QED BY <2>1, FS_Subset
<1>3. \A i, j \in S : i # j => Cardinality(before[i]) # Cardinality(before[j])
  BY <1>2
<1> QED BY <1>1, <1>3

\* The pass goes through the queue one entry at a time.
LEMMA PassSteps ==
  ASSUME NEW start, NEW queue, Len(queue) \in Nat
  PROVE  \E w : /\ w[0] = start
                /\ \A k \in 1..Len(queue) : w[k] = LaunchOne(w[k - 1], queue[k])
                /\ LaunchPass(start, queue) = w[Len(queue)]
<1> DEFINE n == Len(queue)
           Is(g, m) == g = [k \in 0..m |-> IF k = 0 THEN start ELSE LaunchOne(g[k - 1], queue[k])]
           Good == {m \in 0..n : \E g : Is(g, m)}
<1>1. 0 \in Good
  <2> DEFINE g == [k \in 0..0 |-> start]
  <2>1. g = [k \in 0..0 |-> IF k = 0 THEN start ELSE LaunchOne(g[k - 1], queue[k])]
    OBVIOUS
  <2>2. Is(g, 0) /\ 0 \in 0..n
    BY <2>1
  <2> HIDE DEF g, Is, n
  <2> QED BY <2>2
<1>2. ASSUME NEW m \in 1..n, m - 1 \in Good PROVE m \in Good
  <2>1. PICK g : Is(g, m - 1)
    BY <1>2
  <2> DEFINE h == [k \in 0..m |-> IF k = m THEN LaunchOne(g[m - 1], queue[m]) ELSE g[k]]
  <2>2. ASSUME NEW k \in 0..m
        PROVE  h[k] = IF k = 0 THEN start ELSE LaunchOne(h[k - 1], queue[k])
    <3>1. CASE k = m
      <4>1. h[k - 1] = g[m - 1] /\ k # 0
        BY <3>1
      <4> QED BY <3>1, <4>1
    <3>2. CASE k # m /\ k # 0
      <4>1. k \in 0..(m - 1) /\ k - 1 \in 0..m /\ k - 1 # m
        BY <3>2
      <4>2. g[k] = LaunchOne(g[k - 1], queue[k])
        BY <2>1, <3>2, <4>1
      <4>3. h[k] = g[k] /\ h[k - 1] = g[k - 1]
        BY <3>2, <4>1
      <4> QED BY <3>2, <4>2, <4>3
    <3>3. CASE k = 0
      <4>1. 0 \in 0..(m - 1) /\ k # m
        BY <3>3
      <4>2. g[0] = start
        BY <2>1, <4>1
      <4> QED BY <3>3, <4>1, <4>2
    <3> QED BY <3>1, <3>2, <3>3
  <2>3. Is(h, m)
    <3> HIDE DEF h
    <3>1. h = [k \in 0..m |-> h[k]]
      BY DEF h
    <3> QED BY <2>2, <3>1
  <2> HIDE DEF Is
  <2> QED BY <2>3
<1>3. n \in Good
  <2>1. n \in Nat /\ n \in 0..n
    OBVIOUS
  <2> HIDE DEF Good, n
  <2> QED BY <1>1, <1>2, <2>1, LeastBad
<1> DEFINE w == CHOOSE g : Is(g, n)
<1>4. Is(w, n)
  <2>1. \E g : Is(g, n)
    BY <1>3
  <2> HIDE DEF Is
  <2> QED BY <2>1
<1>5. LaunchPass(start, queue) = w[n]
  BY DEF LaunchPass
<1> HIDE DEF w
<1>6. w[0] = start
  BY <1>4
<1>7. ASSUME NEW k \in 1..n PROVE w[k] = LaunchOne(w[k - 1], queue[k])
  BY <1>4
<1> QED BY <1>5, <1>6, <1>7


(***************************************************************************)
(* What is said of the runs, as parts of ValidationUndisturbed.            *)
(***************************************************************************)
Standing(rs) == LiveRuns(rs) \cup Dying(rs)
Validations(rs) == {i \in LiveRuns(rs) : rs[i].kind = "EXPERIMENT"}
Apart(rs) ==
  \A i \in Validations(rs) : \A j \in Standing(rs) :
    j # i /\ Launched(rs[j]) => rs[i].cards \cap rs[j].cards = {}
Clear(rs) == \A i \in Validations(rs) : rs[i].cards \cap OtherCards = {}
Sole(rs, o, allowed) ==
  Apart(rs) /\ (o # "none" => Clear(rs) /\ (Validations(rs) # {} => allowed))

LEMMA UndisturbedParts == ValidationUndisturbed <=> Sole(runs, other, knobs.shares \/ sess.asked)
BY Zenon DEF ValidationUndisturbed, Sole, Apart, Clear, Validations, Standing

LEMMA UndisturbedPartsNext ==
  ValidationUndisturbed' <=> Sole(runs', other', knobs'.shares \/ sess'.asked)
BY Zenon DEF ValidationUndisturbed, Sole, Apart, Clear, Validations, Standing

Holding(s) == s.placed /\ s.status \in Started \cup {"PENDING"}

\* Runs come to an end, at most.
Same(r, x) == x.kind = r.kind /\ x.cards = r.cards /\ x.past = r.past
Less(r, x) ==
  /\ Same(r, x)
  /\ LiveRun(x) => LiveRun(r)
  /\ x.dying => LiveRun(r) \/ r.dying
Fewer(rs, ss) == DOMAIN ss = DOMAIN rs /\ \A i \in DOMAIN rs : Less(rs[i], ss[i])

LEMMA FewerKeeps ==
  ASSUME NEW rs, NEW ss, Fewer(rs, ss)
  PROVE  /\ LiveRuns(ss) \subseteq LiveRuns(rs)
         /\ Standing(ss) \subseteq Standing(rs)
         /\ Validations(ss) \subseteq Validations(rs)
         /\ Validated(ss) <=> Validated(rs)
         /\ \A o, allowed : Sole(rs, o, allowed) => Sole(ss, o, allowed)
<1>1. DOMAIN ss = DOMAIN rs /\ \A i \in DOMAIN rs : Less(rs[i], ss[i])
  BY DEF Fewer
<1>2. /\ LiveRuns(ss) \subseteq LiveRuns(rs) /\ Standing(ss) \subseteq Standing(rs)
      /\ Validations(ss) \subseteq Validations(rs)
  BY <1>1, Zenon DEF LiveRuns, Standing, Dying, Validations, Less, Same
<1>3. Validated(ss) <=> Validated(rs)
  BY <1>1, Zenon DEF Validated, Less, Same
<1>4. \A i \in Standing(ss) : i \in DOMAIN rs
  BY <1>1, Zenon DEF Standing, LiveRuns, Dying
<1>5. \A i \in DOMAIN rs : ss[i].cards = rs[i].cards /\ (Launched(ss[i]) <=> Launched(rs[i]))
  BY <1>1, Zenon DEF Less, Same, Launched
<1>6. \A i \in Validations(ss) : i \in Standing(ss)
  BY Zenon DEF Validations, Standing
<1>7. Apart(rs) => Apart(ss)
  BY <1>2, <1>4, <1>5, <1>6, SMT DEF Apart
<1>8. Clear(rs) => Clear(ss)
  BY <1>2, <1>4, <1>5, <1>6, SMT DEF Clear
<1>9. Validations(rs) = {} => Validations(ss) = {}
  BY <1>2, Zenon
<1> HIDE DEF Sole
<1>10. ASSUME NEW o, NEW allowed, Sole(rs, o, allowed) PROVE Sole(ss, o, allowed)
  BY <1>7, <1>8, <1>9, <1>10, Zenon DEF Sole
<1> QED BY <1>2, <1>3, <1>10

\* A row is changed in none of what the session's rules read.
LEMMA RowFlags ==
  ASSUME NEW r \in RunRows
  PROVE  /\ [r EXCEPT !.release = TRUE] \in RunRows /\ Less(r, [r EXCEPT !.release = TRUE])
         /\ \A b \in BOOLEAN : /\ [r EXCEPT !.stop = b] \in RunRows /\ Less(r, [r EXCEPT !.stop = b])
                               /\ [r EXCEPT !.waits = b] \in RunRows /\ Less(r, [r EXCEPT !.waits = b])
         /\ [r EXCEPT !.dying = FALSE] \in RunRows /\ Less(r, [r EXCEPT !.dying = FALSE])
         /\ LET x == [r EXCEPT !.past = TRUE] IN
            /\ x \in RunRows /\ x.kind = r.kind /\ x.cards = r.cards /\ x.past
            /\ (LiveRun(x) <=> LiveRun(r)) /\ x.dying = r.dying
         /\ LiveRun(r) => \A st \in {"serving", "benching"} :
              /\ [r EXCEPT !.st = st] \in RunRows /\ Less(r, [r EXCEPT !.st = st])
              /\ LiveRun([r EXCEPT !.st = st])
         /\ Less(r, r)
BY DEF RunRows, Less, Same, LiveRun

Over == {"succeeded", "failed", "killed"}
LEMMA FinishedRow ==
  ASSUME NEW r \in RunRows, NEW st \in Over, NEW clean \in BOOLEAN, LiveRun(r)
  PROVE  Finished(r, st, clean) \in RunRows /\ Less(r, Finished(r, st, clean))
<1>1. Launched(r) \in BOOLEAN
  BY DEF Launched
<1> DEFINE d == Launched(r) /\ r.st # "pending" /\ ~clean
<1>2. d \in BOOLEAN
  OBVIOUS
<1>3. Finished(r, st, clean) = [r EXCEPT !.st = st, !.dying = d]
  BY DEF Finished
<1> HIDE DEF d
<1> QED BY <1>2, <1>3 DEF RunRows, Less, Same, LiveRun, Over

\* Rows changed one by one.
LEMMA RowByRow ==
  ASSUME NEW rs \in Seq(RunRows), NEW ss, DOMAIN ss = DOMAIN rs, ss = [i \in DOMAIN ss |-> ss[i]],
         \A i \in DOMAIN rs : ss[i] \in RunRows /\ Less(rs[i], ss[i])
  PROVE  ss \in Seq(RunRows) /\ Fewer(rs, ss)
<1>1. DOMAIN rs = 1..Len(rs) /\ Len(rs) \in Nat
  BY LenProperties
<1>2. ss \in [1..Len(rs) -> RunRows]
  BY <1>1
<1>3. ss \in Seq(RunRows)
  BY <1>1, <1>2
<1> QED BY <1>3, Zenon DEF Fewer

LEMMA ARow ==
  ASSUME NEW rs \in Seq(RunRows), NEW i \in DOMAIN rs
  PROVE  rs[i] \in RunRows /\ DOMAIN rs = 1..Len(rs) /\ Len(rs) \in Nat
BY LenProperties

\* One row is changed.
LEMMA OneRow ==
  ASSUME NEW rs \in Seq(RunRows), NEW i, NEW x \in RunRows, i \in DOMAIN rs => Less(rs[i], x)
  PROVE  [rs EXCEPT ![i] = x] \in Seq(RunRows) /\ Fewer(rs, [rs EXCEPT ![i] = x])
<1> DEFINE ss == [rs EXCEPT ![i] = x]
<1>1. ss = [j \in DOMAIN rs |-> IF j = i THEN x ELSE rs[j]]
  OBVIOUS
<1>2. \A j \in DOMAIN rs : rs[j] \in RunRows /\ Less(rs[j], rs[j])
  BY ARow, RowFlags
<1>3. DOMAIN ss = DOMAIN rs /\ ss = [j \in DOMAIN ss |-> ss[j]]
  BY <1>1
<1>4. \A j \in DOMAIN rs : ss[j] \in RunRows /\ Less(rs[j], ss[j])
  BY <1>1, <1>2
<1> HIDE DEF ss
<1>5. ss \in Seq(RunRows) /\ Fewer(rs, ss)
  BY <1>3, <1>4, RowByRow
<1> QED BY <1>5 DEF ss

LEMMA FewerTwice ==
  ASSUME NEW rs, NEW ss, NEW ts, Fewer(rs, ss), Fewer(ss, ts)
  PROVE  Fewer(rs, ts)
BY Zenon DEF Fewer, Less, Same


\* _kill_session_runs.
LEMMA KilledFewer ==
  ASSUME NEW rs \in Seq(RunRows), NEW clean \in BOOLEAN
  PROVE  KilledRuns(rs, clean) \in Seq(RunRows) /\ Fewer(rs, KilledRuns(rs, clean))
<1> DEFINE ss == KilledRuns(rs, clean)
<1>1. ss = [i \in DOMAIN rs |-> IF i \in Own(rs) /\ LiveRun(rs[i])
                                THEN Finished(rs[i], "killed", clean) ELSE rs[i]]
  BY DEF KilledRuns
<1>2. \A i \in DOMAIN rs : rs[i] \in RunRows /\ Less(rs[i], rs[i])
  BY ARow, RowFlags
<1>3. \A i \in DOMAIN rs : LiveRun(rs[i]) =>
        /\ Finished(rs[i], "killed", clean) \in RunRows
        /\ Less(rs[i], Finished(rs[i], "killed", clean))
  BY <1>2, FinishedRow DEF Over
<1> HIDE DEF ss
<1>4. \A i \in DOMAIN rs : ss[i] \in RunRows /\ Less(rs[i], ss[i])
  BY <1>1, <1>2, <1>3, Zenon
<1>5. DOMAIN ss = DOMAIN rs /\ ss = [i \in DOMAIN ss |-> ss[i]]
  BY <1>1
<1>6. ss \in Seq(RunRows) /\ Fewer(rs, ss)
  BY <1>4, <1>5, RowByRow
<1> QED BY <1>6 DEF ss

\* _stop_benchmarks_of.
LEMMA StoppedFewer ==
  ASSUME NEW rs \in Seq(RunRows), NEW launch, NEW st
  PROVE  StopBenchmarks(rs, launch, st) \in Seq(RunRows) /\ Fewer(rs, StopBenchmarks(rs, launch, st))
<1> DEFINE ss == StopBenchmarks(rs, launch, st)
           to == IF st = "failed" THEN "failed" ELSE "killed"
<1>1. ss = [i \in DOMAIN rs |-> IF rs[i].parent = launch /\ LiveRun(rs[i])
                                THEN Finished(rs[i], to, TRUE) ELSE rs[i]]
  BY DEF StopBenchmarks
<1>2. \A i \in DOMAIN rs : rs[i] \in RunRows /\ Less(rs[i], rs[i])
  BY ARow, RowFlags
<1>3. to \in Over
  BY DEF Over
<1> HIDE DEF ss, to
<1>4. \A i \in DOMAIN rs : LiveRun(rs[i]) =>
        Finished(rs[i], to, TRUE) \in RunRows /\ Less(rs[i], Finished(rs[i], to, TRUE))
  BY <1>2, <1>3, FinishedRow
<1>5. \A i \in DOMAIN rs : ss[i] \in RunRows /\ Less(rs[i], ss[i])
  BY <1>1, <1>2, <1>4, Zenon
<1>6. DOMAIN ss = DOMAIN rs /\ ss = [i \in DOMAIN ss |-> ss[i]]
  BY <1>1
<1>7. ss \in Seq(RunRows) /\ Fewer(rs, ss)
  BY <1>5, <1>6, RowByRow
<1> QED BY <1>7 DEF ss

\* _finish, with the benchmarks of a launch.
LEMMA EndedFewer ==
  ASSUME NEW rs \in Seq(RunRows), NEW i \in LiveRuns(rs), NEW st \in Over, NEW clean \in BOOLEAN,
         NEW waits \in BOOLEAN
  PROVE  LET ss == [Ended(rs, i, st, clean) EXCEPT ![i].waits = waits]
         IN  ss \in Seq(RunRows) /\ Fewer(rs, ss)
<1> DEFINE x == Finished(rs[i], st, clean)
           one == [rs EXCEPT ![i] = x]
           two == Ended(rs, i, st, clean)
           y == [two[i] EXCEPT !.waits = waits]
           ss == [two EXCEPT ![i].waits = waits]
<1>1. i \in DOMAIN rs /\ LiveRun(rs[i])
  BY DEF LiveRuns
<1>2. x \in RunRows /\ Less(rs[i], x)
  BY <1>1, ARow, FinishedRow
<1>3. two = IF rs[i].kind = "POLICY_LAUNCH" THEN StopBenchmarks(one, i, st) ELSE one
  BY DEF Ended
<1> HIDE DEF x, two
<1>4. one \in Seq(RunRows) /\ Fewer(rs, one)
  BY <1>2, OneRow
<1> HIDE DEF one
<1>5. StopBenchmarks(one, i, st) \in Seq(RunRows) /\ Fewer(rs, StopBenchmarks(one, i, st))
  <2>1. StopBenchmarks(one, i, st) \in Seq(RunRows) /\ Fewer(one, StopBenchmarks(one, i, st))
    BY <1>4, StoppedFewer
  <2> QED BY <1>4, <2>1, FewerTwice
<1>6. two \in Seq(RunRows) /\ Fewer(rs, two)
  BY <1>3, <1>4, <1>5
<1>7. i \in DOMAIN two
  BY <1>1, <1>6 DEF Fewer
<1>8. y \in RunRows /\ Less(two[i], y)
  <2>1. PICK z : z = two[i]
    OBVIOUS
  <2>2. z \in RunRows
    BY <1>6, <1>7, <2>1, ARow
  <2>3. [z EXCEPT !.waits = waits] \in RunRows /\ Less(z, [z EXCEPT !.waits = waits])
    BY <2>2, RowFlags
  <2> QED BY <2>1, <2>3
<1>9. ss = [two EXCEPT ![i] = y]
  OBVIOUS
<1> HIDE DEF y, ss
<1>10. [two EXCEPT ![i] = y] \in Seq(RunRows) /\ Fewer(two, [two EXCEPT ![i] = y])
  BY <1>6, <1>8, OneRow
<1>11. ss \in Seq(RunRows) /\ Fewer(rs, ss)
  BY <1>6, <1>9, <1>10, FewerTwice
<1> QED BY <1>11 DEF ss, two

\* A row is added.
LEMMA AppendRow ==
  ASSUME NEW rs \in Seq(RunRows), NEW x \in RunRows
  PROVE  LET ss == Append(rs, x) n == Len(rs) + 1 IN
         /\ ss \in Seq(RunRows) /\ Len(rs) \in Nat /\ n \notin DOMAIN rs
         /\ DOMAIN ss = DOMAIN rs \cup {n} /\ ss[n] = x /\ \A i \in DOMAIN rs : ss[i] = rs[i]
<1> DEFINE ss == Append(rs, x)
<1>1. /\ ss \in Seq(RunRows) /\ Len(ss) = Len(rs) + 1
      /\ \A i \in 1..Len(rs) : ss[i] = rs[i] /\ ss[Len(rs) + 1] = x
      /\ ss[Len(rs) + 1] = x
  BY AppendProperties
<1>2. DOMAIN rs = 1..Len(rs) /\ Len(rs) \in Nat
  BY LenProperties
<1>3. DOMAIN ss = 1..Len(ss)
  BY <1>1, LenProperties
<1> HIDE DEF ss
<1>4. DOMAIN ss = DOMAIN rs \cup {Len(rs) + 1} /\ Len(rs) + 1 \notin DOMAIN rs
  BY <1>1, <1>2, <1>3
<1> QED BY <1>1, <1>2, <1>4 DEF ss

\* What stands after a row was added.
LEMMA AppendStands ==
  ASSUME NEW rs \in Seq(RunRows), NEW x \in RunRows, ~x.dying, LiveRun(x)
  PROVE  LET ss == Append(rs, x) n == Len(rs) + 1 IN
         /\ Standing(ss) = Standing(rs) \cup {n} /\ LiveRuns(ss) = LiveRuns(rs) \cup {n}
         /\ Validations(ss) = Validations(rs) \cup (IF x.kind = "EXPERIMENT" THEN {n} ELSE {})
         /\ Validated(ss) <=> (Validated(rs) \/ x.kind = "EXPERIMENT")
<1> DEFINE ss == Append(rs, x)
           n == Len(rs) + 1
<1>1. /\ n \notin DOMAIN rs /\ DOMAIN ss = DOMAIN rs \cup {n}
      /\ ss[n] = x /\ \A i \in DOMAIN rs : ss[i] = rs[i]
  BY AppendRow
<1> HIDE DEF ss, n
<1>2. /\ LiveRuns(ss) = LiveRuns(rs) \cup {n} /\ Dying(ss) = Dying(rs)
  BY <1>1, SMT DEF LiveRuns, Dying
<1>3. Standing(ss) = Standing(rs) \cup {n}
  BY <1>2, SMT DEF Standing
<1>4. LiveRuns(rs) \subseteq DOMAIN rs
  BY DEF LiveRuns
<1>5. Validations(ss) = Validations(rs) \cup (IF x.kind = "EXPERIMENT" THEN {n} ELSE {})
  BY <1>1, <1>2, <1>4, SMT DEF Validations
<1>6. Validated(ss) <=> (Validated(rs) \/ x.kind = "EXPERIMENT")
  BY <1>1, SMT DEF Validated
<1> QED BY <1>2, <1>3, <1>5, <1>6 DEF ss, n


(***************************************************************************)
(* A quiet step starts nothing: runs end at most, nobody comes or goes, and *)
(* the machine changes hands only by the rule.                             *)
(***************************************************************************)
MachineByRule ==
  \/ /\ mach' = mach /\ (Holding(sess) => Holding(sess'))
     /\ Standing(runs') = Standing(runs) \/ Holding(sess')
  \/ mach' = ReleaseIfIdle(sess', runs')
  \/ mach' = "RESERVED" /\ Holding(sess')

SessionOnwards ==
  /\ sess'.asked = sess.asked
  /\ sess'.status \in Early => sess.status \in Early
  /\ Holding(sess') => Holding(sess)
  /\ sess'.status \in Started => sess'.placed /\ (sess.status \in Started \/ mach' = "RESERVED")
  /\ sess'.status \in {"ABSENT", "PENDING"} =>
       /\ sess.status \in {"ABSENT", "PENDING"}
       /\ runs' = runs /\ conts' = conts /\ req' = req
  /\ sess'.status = "ABSENT" => ~sess'.placed

RequestOnwards ==
  /\ req'.kind = "launch" => req.kind = "launch" \/ sess.status \in Early
  /\ req'.kind = "launch" /\ ~req'.over => sess'.status \in {"STARTING", "SEARCHING"}

Quiet ==
  /\ Shapes' /\ knobs' = knobs /\ other' = other
  /\ Fewer(runs, runs') /\ SessionOnwards /\ RequestOnwards /\ MachineByRule

LEMMA QuietKeeps ==
  ASSUME SInv, Quiet PROVE SInv'
<1>1. /\ Shapes' /\ knobs' = knobs /\ other' = other /\ Fewer(runs, runs')
      /\ SessionOnwards /\ RequestOnwards /\ MachineByRule
  BY DEF Quiet
<1>2. /\ Standing(runs') \subseteq Standing(runs) /\ (Validated(runs') <=> Validated(runs))
      /\ \A o, allowed : Sole(runs, o, allowed) => Sole(runs', o, allowed)
  BY <1>1, FewerKeeps
<1>3. NightOK'
  <2>1. DOMAIN runs' = DOMAIN runs /\ \A i \in DOMAIN runs : runs'[i].past = runs[i].past
    BY <1>1, Zenon DEF Fewer, Less, Same
  <2>2. sess'.status \in Early => ~sess'.asked
    BY <1>1, Zenon DEF SInv, NightOK, SessionOnwards
  <2>3. ~sess'.asked => \A i \in DOMAIN runs' : ~runs'[i].past
    BY <1>1, <2>1, Zenon DEF SInv, NightOK, SessionOnwards
  <2>4. /\ sess'.status \in {"ABSENT", "PENDING"} => runs' = <<>> /\ conts' = <<>> /\ req' = NoRequest
        /\ sess'.status = "ABSENT" => ~sess'.placed
        /\ sess'.status \in Started => sess'.placed
    BY <1>1, Zenon DEF SInv, NightOK, SessionOnwards
  <2> QED BY <2>2, <2>3, <2>4 DEF NightOK
<1>4. NoneYet'
  <2>1. sess'.status \in Early \/ req'.kind = "launch" => ~Validated(runs')
    BY <1>1, <1>2, Zenon DEF SInv, NoneYet, SessionOnwards, RequestOnwards
  <2> QED BY <2>1 DEF NoneYet, Validated
<1>5. FreshRequest'
  BY <1>1 DEF RequestOnwards, FreshRequest, Exploring
<1>6. Alone'
  <2>1. Holding(sess') => Holding(sess)
    BY <1>1 DEF SessionOnwards
  <2>2. ~knobs.shares /\ ~sess.asked /\ Holding(sess) =>
          /\ other # "live"
          /\ Validated(runs) => other = "none"
    BY DEF SInv, Alone, Holding, NoneYet, Early
  <2>3. sess'.status \in Started => Holding(sess')
    BY <1>1 DEF SessionOnwards, Holding
  <2>4. ~knobs'.shares /\ ~sess'.asked =>
          /\ Holding(sess') => other' # "live"
          /\ sess'.status \in Started /\ Validated(runs') => other' = "none"
    BY <1>1, <1>2, <2>1, <2>2, <2>3, Zenon DEF SessionOnwards
  <2> QED BY <2>4 DEF Alone, Holding, Validated
<1>7. ValidationUndisturbed'
  <2>1. Sole(runs, other, knobs.shares \/ sess.asked)
    BY UndisturbedParts DEF SInv
  <2>2. Sole(runs', other, knobs.shares \/ sess.asked)
    BY <1>2, <2>1, Zenon
  <2>3. Sole(runs', other', knobs'.shares \/ sess'.asked)
    BY <1>1, <2>2 DEF SessionOnwards
  <2> QED BY <2>3, UndisturbedPartsNext
<1>8. HeldForTheNight'
  <2>1. /\ sess.status \in Started /\ ~sess.asked => mach = "RESERVED"
        /\ mach = "RESERVED" => Holding(sess) \/ Standing(runs) # {} \/ other # "none"
    BY DEF SInv, HeldForTheNight, Holding, Standing
  <2>2. sess'.status \in Started => Holding(sess')
    BY <1>1 DEF SessionOnwards, Holding
  <2>3. mach' = ReleaseIfIdle(sess', runs') =>
          /\ Holding(sess') => mach' = mach
          /\ mach' = "RESERVED" => Holding(sess') \/ Standing(runs') # {} \/ other # "none"
    BY DEF ReleaseIfIdle, Holding, Standing
  <2>4. sess'.status \in Started /\ ~sess'.asked => mach' = "RESERVED"
    BY <1>1, <2>1, <2>2, <2>3 DEF SessionOnwards, MachineByRule
  <2>5. mach' = "RESERVED" => Holding(sess') \/ Standing(runs') # {} \/ other' # "none"
    BY <1>1, <2>1, <2>3 DEF MachineByRule
  <2> QED BY <2>4, <2>5 DEF HeldForTheNight, Holding, Standing, LiveRuns, Dying
<1> QED BY <1>1, <1>3, <1>4, <1>5, <1>6, <1>7, <1>8 DEF SInv


(***************************************************************************)
(* The ticks that start nothing.                                           *)
(***************************************************************************)
LEMMA Overtaken ==
  ASSUME NEW r \in Requests, r.kind # "none"
  PROVE  LET x == [r EXCEPT !.over = TRUE] IN x \in Requests /\ x.kind = r.kind /\ x.over
<1> DEFINE x == [r EXCEPT !.over = TRUE]
           A == [kind : {"serving"}, cont : Nat, over : BOOLEAN]
           B == [kind : {"contenders"}, list : Seq(Configs), over : BOOLEAN]
           C == [kind : {"launch", "external"}, cards : SUBSET AllCards, over : BOOLEAN]
           D == [kind : {"bench"}, parent : Nat, over : BOOLEAN]
<1>1. r # NoRequest
  BY DEF NoRequest
<1>2. Requests = {NoRequest} \cup A \cup B \cup C \cup D
  BY DEF Requests
<1>3. r \in A => x \in A /\ x.kind = r.kind /\ x.over
  OBVIOUS
<1>4. r \in B => x \in B /\ x.kind = r.kind /\ x.over
  OBVIOUS
<1>5. r \in C => x \in C /\ x.kind = r.kind /\ x.over
  OBVIOUS
<1>6. r \in D => x \in D /\ x.kind = r.kind /\ x.over
  OBVIOUS
<1> HIDE DEF x, A, B, C, D
<1>7. x \in Requests /\ x.kind = r.kind /\ x.over
  BY <1>1, <1>2, <1>3, <1>4, <1>5, <1>6, Zenon
<1> QED BY <1>7 DEF x

LEMMA TickRequest ==
  ASSUME SInv, Overtakes
  PROVE  /\ req' \in Requests
         /\ req'.kind = "launch" => req.kind = "launch" /\ req'.over
         /\ req = NoRequest => req' = req
         /\ RequestOnwards
<1>1. req \in Requests /\ req' = IF req.kind = "none" THEN req ELSE [req EXCEPT !.over = TRUE]
  BY DEF SInv, Shapes, Overtakes
<1>2. CASE req.kind = "none"
  BY <1>1, <1>2 DEF RequestOnwards
<1>3. CASE req.kind # "none"
  <2>1. req' \in Requests /\ req'.kind = req.kind /\ req'.over
    BY <1>1, <1>3, Overtaken
  <2>2. req # NoRequest
    BY <1>3 DEF NoRequest
  <2> QED BY <2>1, <2>2 DEF RequestOnwards
<1> QED BY <1>2, <1>3

LEMMA ToStatus ==
  ASSUME NEW s \in SessRows, NEW x \in SessionStates
  PROVE  LET t == [s EXCEPT !.status = x] IN
         t \in SessRows /\ t.status = x /\ t.asked = s.asked /\ t.placed = s.placed
BY DEF SessRows

Calm == UNCHANGED <<knobs, other>>

LEMMA SameRuns == Fewer(runs, runs)
BY DEF Fewer, Less, Same

LEMMA EnsureSessionQuiet ==
  ASSUME SInv, Overtakes, Calm, EnsureSession PROVE Quiet
<1>1. /\ sess' \in SessRows /\ sess'.status = "PENDING" /\ sess'.asked = sess.asked
      /\ sess'.placed = sess.placed /\ sess.status = "ABSENT" /\ ~sess.placed
  BY ToStatus DEF SInv, Shapes, NightOK, EnsureSession, SessionStates, Early
<1>2. Shapes'
  BY <1>1, TickRequest, SMT DEF SInv, Shapes, EnsureSession, Calm
<1>3. SessionOnwards
  BY <1>1, TickRequest, SMT DEF SInv, NightOK, EnsureSession, SessionOnwards, Holding, Early, Started
<1>4. MachineByRule
  BY <1>1, SMT DEF EnsureSession, MachineByRule, Holding
<1> QED BY <1>2, <1>3, <1>4, TickRequest, SameRuns DEF Quiet, Calm, EnsureSession

LEMMA Released ==
  ASSUME SInv, NEW s, NEW rs
  PROVE  ReleaseIfIdle(s, rs) \in {"AVAILABLE", "RESERVED"}
BY DEF SInv, Shapes, ReleaseIfIdle

\* _terminate, of a session that is not ABSENT, whose row has changed in its
\* verdict, its reason and whom it serves at most.
LEMMA TerminateQuiet ==
  ASSUME SInv, Overtakes, Calm, NEW s \in SessRows, NEW rs, NEW final \in TERMINAL_SESSION_STATES,
         Terminate(s, rs, final), s.asked = sess.asked, s.placed = sess.placed,
         rs \in Seq(RunRows), Fewer(runs, rs), conts' \in Seq(ContRows),
         ~sess.placed => Standing(rs) = Standing(runs)
  PROVE  Quiet
<1>1. Shapes'
  <2>1. sess' \in SessRows
    BY DEF Terminate, SessRows, SessionStates
  <2>2. mach' \in {"AVAILABLE", "RESERVED"}
    BY Released DEF Terminate, SInv, Shapes
  <2> QED BY <2>1, <2>2, TickRequest DEF SInv, Shapes, Calm, Terminate
<1>2. sess'.status = final /\ sess'.asked = sess.asked /\ sess'.placed = sess.placed
  BY DEF Terminate, SessRows
<1>3. SessionOnwards
  BY <1>2 DEF SessionOnwards, Holding, Early, Started, TERMINAL_SESSION_STATES
<1>4. MachineByRule
  BY <1>2 DEF Terminate, MachineByRule, Holding
<1> QED BY <1>1, <1>3, <1>4, TickRequest DEF Quiet, Calm, Terminate

LEMMA AdvancePendingQuiet ==
  ASSUME SInv, Overtakes, Calm, AdvancePending PROVE Quiet
<1>1. CASE Terminate([sess EXCEPT !.fail = TRUE], runs, "FAILED") /\ UNCHANGED conts
  <2> DEFINE s == [sess EXCEPT !.fail = TRUE]
  <2>1. s \in SessRows /\ s.asked = sess.asked /\ s.placed = sess.placed
    BY DEF SInv, Shapes, SessRows
  <2>2. runs \in Seq(RunRows) /\ conts' \in Seq(ContRows) /\ Terminate(s, runs, "FAILED")
    BY <1>1 DEF SInv, Shapes
  <2> HIDE DEF s
  <2> QED BY <2>1, <2>2, SameRuns, TerminateQuiet DEF TERMINAL_SESSION_STATES
<1>2. CASE /\ sess' = [sess EXCEPT !.status = "STARTING"] /\ mach' = "RESERVED"
           /\ UNCHANGED <<conts, runs>>
  <2>0. /\ sess' \in SessRows /\ sess'.status = "STARTING" /\ sess'.asked = sess.asked
        /\ sess'.placed = sess.placed /\ sess.status = "PENDING" /\ sess.placed
    BY <1>2, ToStatus DEF SInv, Shapes, AdvancePending, SessionStates, Early
  <2>1. Shapes'
    BY <1>2, <2>0, TickRequest, SMT DEF SInv, Shapes, Calm
  <2>2. SessionOnwards
    BY <1>2, <2>0, SMT DEF SessionOnwards, Holding, Early, Started
  <2>3. MachineByRule
    BY <1>2, <2>0, SMT DEF MachineByRule, Holding, Started
  <2> QED BY <1>2, <2>1, <2>2, <2>3, TickRequest, SameRuns DEF Quiet, Calm
<1> QED BY <1>1, <1>2 DEF AdvancePending

LEMMA CrashInLaunchQuiet ==
  ASSUME SInv, Overtakes, Calm, CrashInLaunch PROVE Quiet
<1>1. Shapes'
  BY TickRequest, SMT DEF SInv, Shapes, Calm, CrashInLaunch
<1>2. SessionOnwards
  BY TickRequest, SMT DEF SInv, NightOK, CrashInLaunch, SessionOnwards, Early, Started
<1>3. MachineByRule
  BY DEF CrashInLaunch, MachineByRule
<1> QED BY <1>1, <1>2, <1>3, TickRequest, SameRuns DEF Quiet, Calm, CrashInLaunch

\* The session goes on to a later state of the search, or to validating.
LEMMA OnwardQuiet ==
  ASSUME SInv, Overtakes, Calm, sess.status \in Started, sess' \in SessRows, sess.status # "VALIDATING",
         sess'.asked = sess.asked, sess'.placed = sess.placed, sess'.status \in Started,
         runs' \in Seq(RunRows), Fewer(runs, runs'), UNCHANGED <<conts, mach>>
  PROVE  Quiet
<1>1. Shapes'
  BY TickRequest DEF SInv, Shapes, Calm
<1>2. sess.placed
  BY DEF SInv, NightOK
<1>3. SessionOnwards
  BY <1>2 DEF SessionOnwards, Holding, Early, Started
<1>4. MachineByRule
  BY <1>2 DEF MachineByRule, Holding
<1> QED BY <1>1, <1>3, <1>4, TickRequest DEF Quiet, Calm

LEMMA FailTowardQuiet ==
  ASSUME SInv, Overtakes, Calm, sess.status \in Started, sess.status # "VALIDATING",
         NEW reason \in {"", "other"}, FailTowardValidation(reason)
  PROVE  Quiet
<1>1. /\ sess' \in SessRows /\ sess'.asked = sess.asked /\ sess'.placed = sess.placed
      /\ sess'.status \in Started
  BY DEF FailTowardValidation, SInv, Shapes, SessRows, SessionStates, Started
<1>2. PICK clean \in BOOLEAN : runs' = KilledRuns(runs, clean)
  BY DEF FailTowardValidation
<1>3. runs' \in Seq(RunRows) /\ Fewer(runs, runs')
  BY <1>2, KilledFewer DEF SInv, Shapes
<1> QED BY <1>1, <1>3, OnwardQuiet DEF FailTowardValidation

LEMMA BeginFinalizingQuiet ==
  ASSUME SInv, Overtakes, Calm, sess.status \in Started, sess.status # "VALIDATING",
         NEW s \in SessRows, s.asked = sess.asked, s.placed = sess.placed,
         NEW reason \in {"other", "policy_exhausted"}, BeginFinalizing(s, reason)
  PROVE  Quiet
<1>1. /\ sess' \in SessRows /\ sess'.asked = sess.asked /\ sess'.placed = sess.placed
      /\ sess'.status \in Started
  BY DEF BeginFinalizing, SessRows, SessionStates, Started, Early
<1>3. runs' \in Seq(RunRows) /\ Fewer(runs, runs')
  BY SameRuns DEF SInv, Shapes, BeginFinalizing
<1> QED BY <1>1, <1>3, OnwardQuiet DEF BeginFinalizing

LEMMA AdvanceStartingQuiet ==
  ASSUME SInv, Overtakes, Calm, AdvanceStarting PROVE Quiet
<1>1. sess.status \in Started /\ sess.status # "VALIDATING"
  BY DEF AdvanceStarting, Started
<1>2. CASE sess.heard = "never"
  BY <1>1, <1>2, FailTowardQuiet DEF AdvanceStarting
<1>3. CASE sess.heard # "never"
  <2>1. /\ sess' \in SessRows /\ sess'.asked = sess.asked /\ sess'.placed = sess.placed
        /\ sess'.status \in Started
    <3>1. sess' = [sess EXCEPT !.status = "SEARCHING"] /\ sess \in SessRows
      BY <1>3 DEF AdvanceStarting, SInv, Shapes
    <3> QED BY <3>1, ToStatus DEF SessionStates, Started, Early
  <2>2. runs' \in Seq(RunRows) /\ Fewer(runs, runs')
    BY <1>3, SameRuns DEF SInv, Shapes, AdvanceStarting
  <2> QED BY <1>1, <1>3, <2>1, <2>2, OnwardQuiet DEF AdvanceStarting
<1> QED BY <1>2, <1>3

LEMMA AdvanceSearchingQuiet ==
  ASSUME SInv, Overtakes, Calm, AdvanceSearching PROVE Quiet
<1>1. sess.status = "SEARCHING" /\ sess.status \in Started /\ sess.status # "VALIDATING"
  BY DEF AdvanceSearching, Started
<1>2. sess \in SessRows
  BY DEF SInv, Shapes
<1>3. ASSUME FailTowardValidation("other") PROVE Quiet
  BY <1>1, <1>3, FailTowardQuiet
<1>4. ASSUME NEW reason \in {"other", "policy_exhausted"}, BeginFinalizing(sess, reason) PROVE Quiet
  BY <1>1, <1>2, <1>4, BeginFinalizingQuiet
<1>5. ASSUME BeginFinalizing([sess EXCEPT !.fail = TRUE], "other") PROVE Quiet
  <2>1. PICK s : s = [sess EXCEPT !.fail = TRUE]
    OBVIOUS
  <2>2. s \in SessRows /\ s.asked = sess.asked /\ s.placed = sess.placed
    BY <1>2, <2>1 DEF SessRows
  <2>3. BeginFinalizing(s, "other")
    BY <1>5, <2>1
  <2> QED BY <1>1, <2>2, <2>3, BeginFinalizingQuiet
<1>6. ASSUME IdleWatchdog PROVE Quiet
  <2>1. PICK s : s = [sess EXCEPT !.strikes = @ + 1]
    OBVIOUS
  <2>2. s \in SessRows /\ s.asked = sess.asked /\ s.placed = sess.placed /\ s.status = sess.status
    <3>0. sess.strikes \in Nat
      BY <1>2 DEF SessRows
    <3>1. PICK n \in Nat : n = sess.strikes + 1
      BY <3>0
    <3>2. s = [sess EXCEPT !.strikes = n]
      BY <2>1, <3>1
    <3> QED BY <1>2, <3>2 DEF SessRows
  <2>3. \/ BeginFinalizing(s, "other")
        \/ sess' = s /\ UNCHANGED <<box, token, conts, runs, mach, camp>>
    BY <1>6, <2>1 DEF IdleWatchdog
  <2>4. CASE BeginFinalizing(s, "other")
    BY <1>1, <2>2, <2>4, BeginFinalizingQuiet
  <2>5. CASE sess' = s /\ UNCHANGED <<box, token, conts, runs, mach, camp>>
    <3>1. runs' \in Seq(RunRows) /\ Fewer(runs, runs')
      BY <2>5, SameRuns DEF SInv, Shapes
    <3> QED BY <1>1, <2>2, <2>5, <3>1, OnwardQuiet
  <2> QED BY <2>3, <2>4, <2>5
<1> HIDE DEF Quiet, SInv
<1>7. \/ FailTowardValidation("other") \/ BeginFinalizing(sess, "policy_exhausted")
      \/ BeginFinalizing([sess EXCEPT !.fail = TRUE], "other") \/ BeginFinalizing(sess, "other")
      \/ IdleWatchdog
  <2> HIDE DEF FailTowardValidation, BeginFinalizing, IdleWatchdog
  <2> QED BY DEF AdvanceSearching
<1> QED BY <1>3, <1>4, <1>5, <1>6, <1>7

LEMMA AdvanceFinalizingQuiet ==
  ASSUME SInv, Overtakes, Calm, AdvanceFinalizing PROVE Quiet
<1>1. /\ sess' \in SessRows /\ sess'.asked = sess.asked /\ sess'.placed = sess.placed
      /\ sess'.status \in Started /\ sess.status \in Started /\ sess.status # "VALIDATING"
  <2>1. PICK f \in BOOLEAN : f = (sess.fail \/ (box # "up" /\ ~sess.finalized))
    BY DEF SInv, Shapes, SessRows
  <2>2. sess' = [sess EXCEPT !.status = "VALIDATING", !.fail = f]
    BY <2>1 DEF AdvanceFinalizing
  <2> QED BY <2>2 DEF AdvanceFinalizing, SInv, Shapes, SessRows, SessionStates, Started
<1>2. PICK clean \in BOOLEAN : runs' = KilledRuns(runs, clean)
  BY DEF AdvanceFinalizing
<1>3. runs' \in Seq(RunRows) /\ Fewer(runs, runs')
  BY <1>2, KilledFewer DEF SInv, Shapes
<1> QED BY <1>1, <1>3, OnwardQuiet DEF AdvanceFinalizing

LEMMA KillAndTerminateQuiet ==
  ASSUME SInv, Overtakes, Calm, NEW final \in TERMINAL_SESSION_STATES, KillAndTerminate(final),
         sess.status \in Started \cup {"PENDING"}
  PROVE  Quiet
<1>1. PICK clean \in BOOLEAN : Terminate(sess, KilledRuns(runs, clean), final)
  BY DEF KillAndTerminate
<1>2. PICK rs : rs = KilledRuns(runs, clean)
  OBVIOUS
<1>3. rs \in Seq(RunRows) /\ Fewer(runs, rs)
  BY <1>2, KilledFewer DEF SInv, Shapes
<1>4. ~sess.placed => Standing(rs) = Standing(runs)
  <2>1. ~sess.placed => DOMAIN runs = {}
    BY DEF SInv, NightOK
  <2>2. DOMAIN rs = DOMAIN runs
    BY <1>3 DEF Fewer
  <2> QED BY <2>1, <2>2 DEF Standing, LiveRuns, Dying
<1>5. sess \in SessRows /\ conts' \in Seq(ContRows) /\ Terminate(sess, rs, final)
  BY <1>1, <1>2 DEF SInv, Shapes, KillAndTerminate
<1> QED BY <1>3, <1>4, <1>5, TerminateQuiet


(***************************************************************************)
(* The steps that leave the session's status alone and start nothing.      *)
(***************************************************************************)
LEMMA NoRowsStay ==
  ASSUME NEW rs, rs = <<>>, NEW ss \in Seq(RunRows), Fewer(rs, ss) PROVE ss = rs
<1>1. DOMAIN ss = {}
  BY DEF Fewer
<1>2. DOMAIN ss = 1..Len(ss) /\ Len(ss) \in Nat
  BY LenProperties
<1>3. Len(ss) = 0
  BY <1>1, <1>2
<1> QED BY <1>3, EmptySeq

SameSession ==
  /\ sess' \in SessRows /\ sess'.status = sess.status
  /\ sess'.asked = sess.asked /\ sess'.placed = sess.placed

LEMMA StillQuiet ==
  ASSUME SInv, Calm, SameSession, req' \in Requests, conts' \in Seq(ContRows), runs' \in Seq(RunRows),
         Fewer(runs, runs'),
         conts' = conts \/ sess.status \notin {"ABSENT", "PENDING"},
         req' = req \/ (sess.status \notin {"ABSENT", "PENDING"} /\ (req'.kind = "launch" => Exploring)),
         \/ mach' = mach /\ Standing(runs') = Standing(runs)
         \/ mach' = ReleaseIfIdle(sess', runs')
  PROVE  Quiet
<1>1. Shapes'
  <2>1. mach' \in {"AVAILABLE", "RESERVED"}
    BY Released DEF SInv, Shapes
  <2> QED BY <2>1 DEF SInv, Shapes, Calm, SameSession
<1>2. sess.status \in {"ABSENT", "PENDING"} => runs' = runs
  BY NoRowsStay DEF SInv, NightOK
<1>3. SessionOnwards
  BY <1>2, SMT DEF SInv, NightOK, SameSession, SessionOnwards, Holding, Early, Started
<1>4. RequestOnwards
  BY SMT DEF SInv, FreshRequest, SameSession, RequestOnwards, Exploring, Early
<1>5. MachineByRule
  BY DEF MachineByRule, SameSession, Holding
<1> QED BY <1>1, <1>3, <1>4, <1>5 DEF Quiet, Calm

\* Rows are flagged, and what stands stands.
LEMMA RowStands ==
  ASSUME NEW rs \in Seq(RunRows), NEW ss, DOMAIN ss = DOMAIN rs,
         \A i \in DOMAIN rs : (LiveRun(ss[i]) <=> LiveRun(rs[i])) /\ ss[i].dying = rs[i].dying
  PROVE  Standing(ss) = Standing(rs)
BY SMT DEF Standing, LiveRuns, Dying

LEMMA FlagsStand ==
  ASSUME NEW r \in RunRows
  PROVE  /\ LiveRun([r EXCEPT !.release = TRUE]) <=> LiveRun(r)
         /\ [r EXCEPT !.release = TRUE].dying = r.dying
         /\ \A b \in BOOLEAN : /\ LiveRun([r EXCEPT !.stop = b]) <=> LiveRun(r)
                               /\ [r EXCEPT !.stop = b].dying = r.dying
         /\ \A st \in {"serving", "benching"} : [r EXCEPT !.st = st].dying = r.dying
BY DEF RunRows, LiveRun

LEMMA OneRowStands ==
  ASSUME NEW rs \in Seq(RunRows), NEW i \in DOMAIN rs, NEW x \in RunRows,
         LiveRun(x) <=> LiveRun(rs[i]), x.dying = rs[i].dying
  PROVE  Standing([rs EXCEPT ![i] = x]) = Standing(rs)
<1> DEFINE ss == [rs EXCEPT ![i] = x]
<1>1. DOMAIN ss = DOMAIN rs /\ \A j \in DOMAIN rs : ss[j] = IF j = i THEN x ELSE rs[j]
  OBVIOUS
<1> HIDE DEF ss
<1>2. \A j \in DOMAIN rs : (LiveRun(ss[j]) <=> LiveRun(rs[j])) /\ ss[j].dying = rs[j].dying
  BY <1>1
<1>3. Standing(ss) = Standing(rs)
  BY <1>1, <1>2, RowStands
<1> QED BY <1>3 DEF ss

LEMMA HeartbeatQuiet ==
  ASSUME SInv, Calm, Heartbeat PROVE Quiet
<1>1. PICK says \in {"", "exhausted", "error"} :
        sess' = [sess EXCEPT !.heard = "fresh", !.said = IF says = "" THEN @ ELSE says]
  BY DEF Heartbeat
<1>2. SameSession
  BY <1>1 DEF SameSession, SInv, Shapes, SessRows
<1> QED BY <1>2, SameRuns, StillQuiet DEF Heartbeat, SInv, Shapes

LEMMA FinalizedQuiet ==
  ASSUME SInv, Calm, Finalized PROVE Quiet
<1>2. SameSession
  BY DEF SameSession, SInv, Shapes, SessRows, Finalized
<1> QED BY <1>2, SameRuns, StillQuiet DEF Finalized, SInv, Shapes

LEMMA Unchanged == ASSUME SInv, sess' = sess PROVE SameSession
BY DEF SInv, Shapes, SameSession

\* DELETE of a launch or of a benchmark.
LEMMA FlagQuiet ==
  ASSUME SInv, Calm, NEW i \in LiveRuns(runs), UNCHANGED <<sess, conts, mach, req>>,
         runs' = [runs EXCEPT ![i].release = TRUE] \/ runs' = [runs EXCEPT ![i].stop = TRUE]
  PROVE  Quiet
<1>1. PICK r : r = runs[i]
  OBVIOUS
<1>2. i \in DOMAIN runs /\ runs \in Seq(RunRows)
  BY DEF LiveRuns, SInv, Shapes
<1>3. r \in RunRows
  BY <1>1, <1>2, ARow
<1>4. PICK x : /\ x = [r EXCEPT !.release = TRUE] \/ x = [r EXCEPT !.stop = TRUE]
               /\ runs' = [runs EXCEPT ![i] = x]
  BY <1>1
<1>5. x \in RunRows /\ Less(r, x) /\ (LiveRun(x) <=> LiveRun(r)) /\ x.dying = r.dying
  <2>1. CASE x = [r EXCEPT !.release = TRUE]
    BY <1>3, <2>1, RowFlags, FlagsStand
  <2>2. CASE x = [r EXCEPT !.stop = TRUE]
    BY <1>3, <2>2, RowFlags, FlagsStand
  <2> QED BY <1>4, <2>1, <2>2
<1>6. runs' \in Seq(RunRows) /\ Fewer(runs, runs')
  BY <1>1, <1>2, <1>4, <1>5, OneRow
<1>7. Standing(runs') = Standing(runs)
  <2>1. Standing([runs EXCEPT ![i] = x]) = Standing(runs)
    BY <1>1, <1>2, <1>5, OneRowStands
  <2> QED BY <1>4, <2>1
<1> QED BY <1>6, <1>7, Unchanged, StillQuiet DEF SInv, Shapes

LEMMA ReleaseLaunchQuiet ==
  ASSUME SInv, Calm, ReleaseLaunch PROVE Quiet
BY FlagQuiet DEF ReleaseLaunch

LEMMA CancelBenchmarkQuiet ==
  ASSUME SInv, Calm, CancelBenchmark PROVE Quiet
BY FlagQuiet DEF CancelBenchmark

LEMMA ReadRequestQuiet ==
  ASSUME SInv, Calm, ReadRequest PROVE Quiet
<1>1. sess \in SessRows
  BY DEF SInv, Shapes
<1>2. sess.serving \in Nat /\ sess.cards \in SUBSET AllCards
  BY <1>1 DEF SessRows
<1>3. CASE ReadServing
  <2>1. req' \in [kind : {"serving"}, cont : Nat, over : BOOLEAN] /\ req'.kind # "launch"
    BY <1>2, <1>3 DEF ReadServing
  <2>2. req' \in Requests /\ sess.status \notin {"ABSENT", "PENDING"}
    BY <1>3, <2>1 DEF ReadServing, Requests
  <2> QED BY <2>1, <2>2, SameRuns, Unchanged, StillQuiet DEF SInv, Shapes, ReadRequest
<1>4. CASE ReadContenders
  <2>1. PICK n \in 1..knobs.contenders : \E list \in [1..n -> Configs] :
          req' = [kind |-> "contenders", list |-> list, over |-> FALSE]
    BY <1>4, Zenon DEF ReadContenders
  <2>2. PICK list \in [1..n -> Configs] : req' = [kind |-> "contenders", list |-> list, over |-> FALSE]
    BY <2>1
  <2>3. n \in Nat
    BY DEF SInv, Shapes, Knobs
  <2>4. list \in Seq(Configs)
    BY <2>2, <2>3
  <2>5. req' \in [kind : {"contenders"}, list : Seq(Configs), over : BOOLEAN] /\ req'.kind # "launch"
    BY <2>2, <2>4
  <2>6. req' \in Requests /\ sess.status \notin {"ABSENT", "PENDING"}
    BY <1>4, <2>5, Zenon DEF ReadContenders, Requests, Exploring
  <2> QED BY <2>5, <2>6, SameRuns, Unchanged, StillQuiet DEF SInv, Shapes, ReadRequest
<1>5. CASE ReadLaunch \/ ReadExternal
  <2>1. PICK cards \in SUBSET sess.cards, kind \in {"launch", "external"} :
          req' = [kind |-> kind, cards |-> cards, over |-> FALSE]
    BY <1>5, Zenon DEF ReadLaunch, ReadExternal
  <2>2. req' \in [kind : {"launch", "external"}, cards : SUBSET AllCards, over : BOOLEAN]
    BY <1>2, <2>1
  <2>3. req' \in Requests /\ sess.status \notin {"ABSENT", "PENDING"} /\ Exploring
    BY <1>5, <2>2, Zenon DEF ReadLaunch, ReadExternal, RequireExploring, Requests, Exploring
  <2> QED BY <2>3, SameRuns, Unchanged, StillQuiet DEF SInv, Shapes, ReadRequest
<1>6. CASE ReadBench
  <2>1. PICK i \in DOMAIN runs : req' = [kind |-> "bench", parent |-> i, over |-> FALSE]
    BY <1>6 DEF ReadBench
  <2>2. i \in Nat
    <3>1. DOMAIN runs = 1..Len(runs) /\ Len(runs) \in Nat
      BY LenProperties DEF SInv, Shapes
    <3> QED BY <3>1
  <2>3. req' \in [kind : {"bench"}, parent : Nat, over : BOOLEAN] /\ req'.kind # "launch"
    BY <2>1, <2>2
  <2>4. req' \in Requests /\ sess.status \notin {"ABSENT", "PENDING"}
    BY <1>6, <2>3, Zenon DEF ReadBench, RequireExploring, Requests, Exploring
  <2> QED BY <2>3, <2>4, SameRuns, Unchanged, StillQuiet DEF SInv, Shapes, ReadRequest
<1> QED BY <1>3, <1>4, <1>5, <1>6 DEF ReadRequest


\* The rows a list is registered as.
LEMMA RegisteredRows ==
  ASSUME NEW list \in Seq(Configs)
  PROVE  LET order == InPlaces([k \in Accepted(list) |->
                                  Cardinality({j \in Accepted(list) : j <= k})])
         IN  [k \in DOMAIN order |->
                [rank |-> order[k], cfg |-> list[order[k]], st |-> "REGISTERED", run |-> 0]]
               \in Seq(ContRows)
<1> DEFINE S == Accepted(list)
           before == [k \in S |-> {j \in S : j <= k}]
           order == InPlaces([k \in S |-> Cardinality({j \in S : j <= k})])
<1>1. DOMAIN list = 1..Len(list) /\ Len(list) \in Nat
  BY LenProperties
<1>2. S \subseteq 1..Len(list)
  BY <1>1 DEF Accepted
<1>3. IsFiniteSet(S)
  <2>1. IsFiniteSet(1..Len(list))
    BY <1>1, FS_Interval
  <2> HIDE DEF S
  <2> QED BY <1>2, <2>1, FS_Subset
<1>4. \A k \in S : k \in Nat /\ list[k] \in Configs
  BY <1>1, <1>2
<1> HIDE DEF S
<1>5. before \in [S -> SUBSET S] /\ \A i \in S : i \in before[i]
  BY <1>4
<1>6. \A i, j \in S : i # j => \/ before[i] \subseteq before[j] /\ j \notin before[i]
                               \/ before[j] \subseteq before[i] /\ i \notin before[j]
  BY <1>4
<1>7. [k \in S |-> Cardinality({j \in S : j <= k})] = [k \in S |-> Cardinality(before[k])]
  OBVIOUS
<1> HIDE DEF before
<1>8. PICK place : place = [k \in S |-> Cardinality(before[k])]
  OBVIOUS
<1>9. /\ place \in [S -> 1..Cardinality(S)]
      /\ \A i, j \in S : Cardinality(before[i]) = Cardinality(before[j]) => i = j
  BY <1>3, <1>5, <1>6, <1>8, CountsPlace
<1>10. \A i, j \in S : place[i] = place[j] => i = j
  BY <1>8, <1>9
<1>11. Cardinality(S) \in Nat /\ order \in [1..Cardinality(S) -> S]
  <2>1. Cardinality(S) \in Nat /\ InPlaces(place) \in [1..Cardinality(S) -> S]
    BY <1>3, <1>9, <1>10, PlacesOrder
  <2>2. order = InPlaces(place)
    BY <1>7, <1>8
  <2> HIDE DEF order
  <2> QED BY <2>1, <2>2
<1> DEFINE rows == [k \in DOMAIN order |->
                      [rank |-> order[k], cfg |-> list[order[k]], st |-> "REGISTERED", run |-> 0]]
<1> HIDE DEF order
<1>12. rows \in [1..Cardinality(S) -> ContRows]
  BY <1>4, <1>11 DEF ContRows, ContenderStates
<1>13. rows \in Seq(ContRows)
  BY <1>11, <1>12
<1> QED BY <1>13 DEF order, S

LEMMA RequestKinds ==
  ASSUME NEW r \in Requests
  PROVE  /\ r.kind = "contenders" => r.list \in Seq(Configs)
         /\ r.kind \in {"launch", "external"} => r.cards \in SUBSET AllCards
         /\ r.kind = "bench" => r.parent \in Nat
         /\ r.kind = "serving" => r.cont \in Nat
<1> DEFINE A == [kind : {"serving"}, cont : Nat, over : BOOLEAN]
           B == [kind : {"contenders"}, list : Seq(Configs), over : BOOLEAN]
           C == [kind : {"launch", "external"}, cards : SUBSET AllCards, over : BOOLEAN]
           D == [kind : {"bench"}, parent : Nat, over : BOOLEAN]
<1>1. r \in {NoRequest} \cup A \cup B \cup C \cup D
  BY DEF Requests
<1>2. r \in A => r.kind = "serving" /\ r.cont \in Nat
  OBVIOUS
<1>3. r \in B => r.kind = "contenders" /\ r.list \in Seq(Configs)
  OBVIOUS
<1>4. r \in C => r.kind \in {"launch", "external"} /\ r.cards \in SUBSET AllCards
  OBVIOUS
<1>5. r \in D => r.kind = "bench" /\ r.parent \in Nat
  OBVIOUS
<1>6. r = NoRequest => r.kind = "none"
  BY DEF NoRequest
<1> HIDE DEF A, B, C, D
<1> QED BY <1>1, <1>2, <1>3, <1>4, <1>5, <1>6

LEMMA CommitContendersQuiet ==
  ASSUME SInv, Calm, req.kind = "contenders", CommitContenders, req' = NoRequest, mach' = mach
  PROVE  Quiet
<1>1. req.list \in Seq(Configs)
  BY RequestKinds DEF SInv, Shapes
<1>2. conts' \in Seq(ContRows)
  <2> DEFINE current == {i \in DOMAIN conts : conts[i].st = "REGISTERED"}
             old == [i \in DOMAIN conts |-> IF i \in current
                                            THEN [conts[i] EXCEPT !.st = "SUPERSEDED"] ELSE conts[i]]
             rows == LET order == InPlaces([k \in Accepted(req.list) |->
                                            Cardinality({j \in Accepted(req.list) : j <= k})])
                     IN  [k \in DOMAIN order |->
                            [rank |-> order[k], cfg |-> req.list[order[k]],
                             st |-> "REGISTERED", run |-> 0]]
  <2>1. conts \in Seq(ContRows)
    BY DEF SInv, Shapes
  <2>2. DOMAIN conts = 1..Len(conts) /\ Len(conts) \in Nat
    BY <2>1, LenProperties
  <2>3. old \in [1..Len(conts) -> ContRows]
    <3>1. \A i \in DOMAIN conts : conts[i] \in ContRows
      BY <2>1, <2>2
    <3>2. \A c \in ContRows : [c EXCEPT !.st = "SUPERSEDED"] \in ContRows
      BY DEF ContRows, ContenderStates
    <3> QED BY <2>2, <3>1, <3>2
  <2>4. old \in Seq(ContRows)
    BY <2>2, <2>3
  <2>5. rows \in Seq(ContRows)
    BY <1>1, RegisteredRows
  <2>6. conts' = conts \/ conts' = old \o rows
    BY DEF CommitContenders
  <2> HIDE DEF old, rows
  <2> QED BY <2>1, <2>4, <2>5, <2>6, ConcatProperties
<1>3. sess.status \notin {"ABSENT", "PENDING"}
  BY DEF SInv, NightOK, NoRequest
<1>4. sess' = sess /\ runs' = runs
  BY DEF CommitContenders
<1> QED BY <1>2, <1>3, <1>4, SameRuns, Unchanged, StillQuiet DEF SInv, Shapes, NoRequest, Requests

LEMMA AbortSessionQuiet ==
  ASSUME SInv, Calm, AbortSession PROVE Quiet
<1>2. SameSession
  BY DEF SameSession, SInv, Shapes, SessRows, AbortSession
<1> QED BY <1>2, SameRuns, StillQuiet DEF AbortSession, SInv, Shapes

LEMMA ForceStopQuiet ==
  ASSUME SInv, Calm, ForceStop PROVE Quiet
<1> DEFINE searching == sess.status = "SEARCHING" /\ sess.heard # "never" /\ ~sess.finalizing
           over == sess.status \in TERMINAL_SESSION_STATES \cup {"ABSENT"}
           stopped == [i \in DOMAIN runs |-> [runs[i] EXCEPT !.stop = @ \/ LiveRun(runs[i])]]
<1>1. /\ sess' = IF searching THEN [sess EXCEPT !.finalizing = TRUE]
                 ELSE [sess EXCEPT !.abort = @ \/ ~over]
      /\ runs' = IF searching THEN runs ELSE stopped
      /\ UNCHANGED <<conts, mach, req>>
  BY DEF ForceStop
<1>2. SameSession
  <2>1. PICK b \in BOOLEAN : b = (sess.abort \/ ~over)
    BY DEF SInv, Shapes, SessRows
  <2>2. sess' = IF searching THEN [sess EXCEPT !.finalizing = TRUE] ELSE [sess EXCEPT !.abort = b]
    BY <1>1, <2>1
  <2> HIDE DEF searching
  <2> QED BY <2>2 DEF SameSession, SInv, Shapes, SessRows
<1>3. runs \in Seq(RunRows)
  BY DEF SInv, Shapes
<1>4. ASSUME NEW i \in DOMAIN runs
      PROVE  /\ stopped[i] \in RunRows /\ Less(runs[i], stopped[i])
             /\ (LiveRun(stopped[i]) <=> LiveRun(runs[i])) /\ stopped[i].dying = runs[i].dying
  <2>1. PICK r : r = runs[i]
    OBVIOUS
  <2>2. r \in RunRows
    BY <1>3, <2>1, ARow
  <2>3. PICK b \in BOOLEAN : b = (r.stop \/ LiveRun(r))
    BY DEF LiveRun
  <2>4. stopped[i] = [r EXCEPT !.stop = b]
    BY <2>1, <2>3
  <2>5. PICK x : x = [r EXCEPT !.stop = b]
    OBVIOUS
  <2>6. x \in RunRows /\ Less(r, x)
    BY <2>2, <2>5, RowFlags
  <2>7. (LiveRun(x) <=> LiveRun(r)) /\ x.dying = r.dying
    BY <2>2, <2>5, FlagsStand
  <2> HIDE DEF stopped
  <2> QED BY <2>1, <2>4, <2>5, <2>6, <2>7
<1>5. DOMAIN stopped = DOMAIN runs /\ stopped = [i \in DOMAIN stopped |-> stopped[i]]
  OBVIOUS
<1> HIDE DEF stopped, searching
<1>6. stopped \in Seq(RunRows) /\ Fewer(runs, stopped)
  BY <1>3, <1>4, <1>5, RowByRow
<1>7. Standing(stopped) = Standing(runs)
  BY <1>3, <1>4, <1>5, RowStands
<1>8. runs' \in Seq(RunRows) /\ Fewer(runs, runs') /\ Standing(runs') = Standing(runs)
  BY <1>1, <1>3, <1>6, <1>7, SameRuns
<1> QED BY <1>1, <1>2, <1>8, StillQuiet DEF SInv, Shapes

LEMMA AdvanceRunsQuiet ==
  ASSUME SInv, Calm, AdvanceRuns PROVE Quiet
<1>1. PICK i \in DOMAIN runs : RunComesUp(i) \/ RunEnds(i) \/ RunReaped(i)
  BY DEF AdvanceRuns
<1>2. runs \in Seq(RunRows) /\ UNCHANGED <<sess, conts, req>>
  BY DEF SInv, Shapes, AdvanceRuns
<1>3. PICK r \in RunRows : r = runs[i]
  BY <1>2, ARow
<1>4. CASE RunComesUp(i)
  <2>1. PICK st \in {"serving", "benching"} : runs' = [runs EXCEPT ![i].st = st]
    BY <1>4 DEF RunComesUp
  <2>2. PICK x : x = [r EXCEPT !.st = st]
    OBVIOUS
  <2>3. LiveRun(r)
    BY <1>3, <1>4 DEF RunComesUp, LiveRun
  <2>4. x \in RunRows /\ Less(r, x) /\ LiveRun(x) /\ x.dying = r.dying
    BY <2>2, <2>3, RowFlags, FlagsStand
  <2>5. runs' = [runs EXCEPT ![i] = x]
    BY <1>3, <2>1, <2>2
  <2>6. runs' \in Seq(RunRows) /\ Fewer(runs, runs') /\ Standing(runs') = Standing(runs)
    BY <1>2, <1>3, <2>3, <2>4, <2>5, OneRow, OneRowStands
  <2> QED BY <1>2, <1>4, <2>6, Unchanged, StillQuiet DEF SInv, Shapes, RunComesUp
<1>5. CASE RunEnds(i)
  <2>1. i \in LiveRuns(runs)
    BY <1>5 DEF RunEnds, LiveRuns
  <2>2. PICK st \in Over, clean \in BOOLEAN, waits \in BOOLEAN :
          /\ runs' = [Ended(runs, i, st, clean) EXCEPT ![i].waits = waits]
          /\ mach' = ReleaseIfIdle(sess, [Ended(runs, i, st, clean) EXCEPT ![i].waits = waits])
    <3>1. advance_baseline(runs[i]) \cup advance_launched(runs[i]) \cup Killed(runs[i]) \subseteq Over
      BY DEF advance_baseline, advance_launched, Killed, Over
    <3> QED BY <1>5, <3>1, Zenon DEF RunEnds
  <2>3. runs' \in Seq(RunRows) /\ Fewer(runs, runs')
    BY <1>2, <2>1, <2>2, EndedFewer
  <2>4. mach' = ReleaseIfIdle(sess', runs')
    BY <1>2, <2>2
  <2> QED BY <1>2, <2>3, <2>4, Unchanged, StillQuiet DEF SInv, Shapes
<1>6. CASE RunReaped(i)
  <2>1. PICK x : x = [r EXCEPT !.dying = FALSE]
    OBVIOUS
  <2>2. x \in RunRows /\ Less(r, x)
    BY <2>1, RowFlags
  <2>3. runs' = [runs EXCEPT ![i] = x] /\ mach' = ReleaseIfIdle(sess', runs')
    BY <1>2, <1>3, <1>6, <2>1 DEF RunReaped
  <2>4. runs' \in Seq(RunRows) /\ Fewer(runs, runs')
    BY <1>2, <1>3, <2>2, <2>3, OneRow
  <2> QED BY <1>2, <2>3, <2>4, Unchanged, StillQuiet DEF SInv, Shapes
<1> QED BY <1>1, <1>4, <1>5, <1>6

\* The container, silence and time.
LEMMA OutsideQuiet ==
  ASSUME SInv, Calm, ContainerStops \/ FallsSilent \/ TimePasses \/ WindowMoves PROVE Quiet
<1>1. SameSession
  BY DEF SameSession, SInv, Shapes, SessRows, ContainerStops, FallsSilent, TimePasses, WindowMoves
<1>2. UNCHANGED <<conts, runs, mach, req>>
  BY DEF ContainerStops, FallsSilent, TimePasses, WindowMoves
<1> QED BY <1>1, <1>2, SameRuns, StillQuiet DEF SInv, Shapes


(***************************************************************************)
(* The steps that place the session or start a run.                        *)
(***************************************************************************)
LEMMA FirstOf == ASSUME NEW S, NEW n PROVE First(S, n) \subseteq S
BY DEF First

LEMMA TryReserveKeeps ==
  ASSUME SInv, Overtakes, Calm, TryReserve PROVE SInv'
<1>1. /\ sess.status = "PENDING" /\ UNCHANGED <<conts, runs, mach>>
      /\ runs = <<>> /\ conts = <<>> /\ req = NoRequest /\ ~sess.asked
  BY DEF TryReserve, SInv, NightOK, Early
<1>2. PICK cards \in Allocations : sess' = [sess EXCEPT !.placed = TRUE, !.cards = cards]
  BY DEF TryReserve
<1>3. cards \subseteq AllCards /\ (~knobs.shares => other # "live")
  <2>1. CASE ~knobs.shares
    BY <1>2, <2>1 DEF Allocations
  <2>2. CASE knobs.shares
    <3> DEFINE free == AllCards \ BlockedCards(runs)
    <3>1. cards = First(free, knobs.cards)
      BY <1>2, <2>2 DEF Allocations
    <3>2. free \subseteq AllCards
      OBVIOUS
    <3> HIDE DEF free
    <3> QED BY <2>2, <3>1, <3>2, FirstOf
  <2> QED BY <2>1, <2>2
<1>4. /\ sess' \in SessRows /\ sess'.status = "PENDING" /\ sess'.placed
      /\ sess'.asked = sess.asked
  <2>1. cards \in SUBSET AllCards
    BY <1>3
  <2> QED BY <1>1, <1>2, <2>1 DEF SInv, Shapes, SessRows
<1>5. Shapes'
  BY <1>1, <1>4, TickRequest DEF SInv, Shapes, Calm
<1>6. req' = NoRequest /\ req'.kind # "launch"
  BY <1>1, TickRequest DEF NoRequest
<1>7. NightOK'
  BY <1>1, <1>4, <1>6 DEF NightOK, Started, Early
<1>8. NoneYet' /\ FreshRequest'
  BY <1>1, <1>6 DEF NoneYet, FreshRequest, Validated
<1>9. Alone'
  BY <1>1, <1>3, <1>4 DEF Alone, Started, Calm
<1>10. ValidationUndisturbed'
  BY <1>1 DEF ValidationUndisturbed, LiveRuns
<1>11. HeldForTheNight'
  BY <1>4 DEF HeldForTheNight, Started
<1> QED BY <1>5, <1>7, <1>8, <1>9, <1>10, <1>11 DEF SInv

\* A run added to others leaves the validations undisturbed: it is no engine
\* of the machine, or there is no validation, or it is one on cards nobody
\* stands on.
Fits(rs, x, o, allowed) ==
  \/ x.kind = "EXTERNAL"
  \/ x.kind = "POLICY_LAUNCH" /\ ~Validated(rs)
  \/ /\ x.kind = "EXPERIMENT"
     /\ \A j \in Standing(rs) : rs[j].cards \cap x.cards = {}
     /\ o # "none" => x.cards \cap OtherCards = {} /\ allowed

LEMMA AppendSole ==
  ASSUME NEW rs \in Seq(RunRows), NEW x \in RunRows, ~x.dying, LiveRun(x), NEW o, NEW allowed,
         Sole(rs, o, allowed), Fits(rs, x, o, allowed)
  PROVE  Sole(Append(rs, x), o, allowed)
<1>1. PICK ss : ss = Append(rs, x)
  OBVIOUS
<1>2. PICK n : n = Len(rs) + 1
  OBVIOUS
<1>3. /\ n \notin DOMAIN rs /\ DOMAIN ss = DOMAIN rs \cup {n}
      /\ ss[n] = x /\ \A i \in DOMAIN rs : ss[i] = rs[i]
  BY <1>1, <1>2, AppendRow
<1>4. /\ Standing(ss) = Standing(rs) \cup {n}
      /\ Validations(ss) = Validations(rs) \cup (IF x.kind = "EXPERIMENT" THEN {n} ELSE {})
  BY <1>1, <1>2, AppendStands
<1>5. Standing(rs) \subseteq DOMAIN rs /\ Validations(rs) \subseteq Standing(rs)
  BY DEF Standing, Validations, LiveRuns, Dying
<1>6. /\ \A i \in Standing(rs) : ss[i] = rs[i]
      /\ Validations(rs) \subseteq Standing(rs) /\ ss[n] = x /\ n \notin Standing(rs)
  BY <1>3, <1>5
<1>7. Apart(rs) /\ (o # "none" => Clear(rs) /\ (Validations(rs) # {} => allowed))
  BY DEF Sole
<1>8. CASE x.kind = "EXTERNAL"
  <2>1. ~Launched(ss[n]) /\ Validations(ss) = Validations(rs)
    BY <1>4, <1>6, <1>8 DEF Launched
  <2>2. Apart(ss)
    BY <1>4, <1>6, <1>7, <2>1 DEF Apart
  <2>3. Clear(rs) => Clear(ss)
    BY <1>6, <2>1 DEF Clear
  <2> QED BY <1>1, <1>7, <2>1, <2>2, <2>3 DEF Sole
<1>9. CASE x.kind = "POLICY_LAUNCH" /\ ~Validated(rs)
  <2>1. Validations(ss) = {}
    <3>1. Validations(rs) = {}
      BY <1>9, Zenon DEF Validations, Validated, LiveRuns
    <3> QED BY <1>4, <1>9, <3>1
  <2> QED BY <1>1, <2>1 DEF Sole, Apart, Clear
<1>10. CASE /\ x.kind = "EXPERIMENT"
            /\ \A j \in Standing(rs) : rs[j].cards \cap x.cards = {}
            /\ o # "none" => x.cards \cap OtherCards = {} /\ allowed
  <2>1. Validations(ss) = Validations(rs) \cup {n}
    BY <1>4, <1>10
  <2>2. ASSUME NEW i \in Validations(ss), NEW j \in Standing(ss), j # i, Launched(ss[j])
        PROVE  ss[i].cards \cap ss[j].cards = {}
    <3>1. CASE i = n
      BY <1>4, <1>6, <1>10, <2>2, <3>1
    <3>2. CASE j = n
      <4>1. i \in Validations(rs)
        BY <2>1, <2>2, <3>2
      <4> QED BY <1>6, <1>10, <3>2, <4>1
    <3>3. CASE i # n /\ j # n
      <4>1. i \in Validations(rs) /\ j \in Standing(rs)
        BY <1>4, <2>1, <3>3
      <4>2. Launched(rs[j]) /\ ss[i] = rs[i] /\ ss[j] = rs[j]
        BY <1>6, <2>2, <4>1
      <4> QED BY <1>7, <2>2, <4>1, <4>2 DEF Apart
    <3> QED BY <3>1, <3>2, <3>3
  <2>3. Apart(ss)
    BY <2>2 DEF Apart
  <2>4. o # "none" => Clear(ss)
    BY <1>6, <1>7, <1>10, <2>1 DEF Clear
  <2> QED BY <1>1, <1>7, <1>10, <2>3, <2>4 DEF Sole
<1> QED BY <1>8, <1>9, <1>10 DEF Fits

\* The commit of a request that starts a run which is no validation.
LEMMA CommitKeeps ==
  ASSUME SInv, Calm, SameSession, conts' \in Seq(ContRows), NEW x \in RunRows, ~x.dying, ~x.past,
         LiveRun(x), runs' = Append(runs, x), x.kind # "EXPERIMENT",
         x.kind = "POLICY_LAUNCH" => req.kind = "launch",
         req.kind # "none", req' = NoRequest, mach' = mach
  PROVE  SInv'
<1>1. runs \in Seq(RunRows) /\ sess.status \notin {"ABSENT", "PENDING"}
  BY DEF SInv, Shapes, NightOK, NoRequest
<1>2. PICK n : n = Len(runs) + 1
  OBVIOUS
<1>3. /\ runs' \in Seq(RunRows) /\ DOMAIN runs' = DOMAIN runs \cup {n}
      /\ runs'[n] = x /\ \A i \in DOMAIN runs : runs'[i] = runs[i]
  BY <1>1, <1>2, AppendRow
<1>4. Standing(runs') = Standing(runs) \cup {n} /\ (Validated(runs') <=> Validated(runs))
  BY <1>1, <1>2, AppendStands
<1>5. Shapes'
  BY <1>3 DEF SInv, Shapes, Calm, SameSession, Requests
<1>6. NightOK'
  <2>1. ~sess'.asked => \A i \in DOMAIN runs' : ~runs'[i].past
    BY <1>3 DEF SInv, NightOK, SameSession
  <2>2. /\ sess'.status \notin {"ABSENT", "PENDING"}
        /\ sess'.status \in Started => sess'.placed
        /\ sess'.status \in Early => ~sess'.asked
    BY <1>1 DEF SInv, NightOK, SameSession
  <2> QED BY <2>1, <2>2 DEF NightOK
<1>7. NoneYet' /\ FreshRequest'
  <2>1. req'.kind # "launch"
    BY DEF NoRequest
  <2>2. sess'.status \in Early => ~Validated(runs')
    BY <1>4 DEF SInv, NoneYet, SameSession
  <2> QED BY <2>1, <2>2 DEF NoneYet, FreshRequest, Validated
<1>8. Alone'
  <2>1. ~knobs'.shares /\ ~sess'.asked =>
          /\ sess'.placed /\ sess'.status \in Started \cup {"PENDING"} => other' # "live"
          /\ sess'.status \in Started /\ Validated(runs') => other' = "none"
    BY <1>4 DEF SInv, Alone, SameSession, Calm
  <2> QED BY <2>1 DEF Alone, Validated
<1>9. ValidationUndisturbed'
  <2>1. Sole(runs, other, knobs.shares \/ sess.asked)
    BY UndisturbedParts DEF SInv
  <2>2. Fits(runs, x, other, knobs.shares \/ sess.asked)
    BY DEF SInv, NoneYet, Fits, RunRows
  <2>3. Sole(runs', other, knobs.shares \/ sess.asked)
    BY <1>1, <2>1, <2>2, AppendSole
  <2>4. Sole(runs', other', knobs'.shares \/ sess'.asked)
    BY <2>3 DEF SameSession, Calm
  <2> QED BY <2>4, UndisturbedPartsNext
<1>10. HeldForTheNight'
  <2>1. /\ sess'.status \in Started /\ ~sess'.asked => mach' = "RESERVED"
        /\ Standing(runs') # {}
    BY <1>4 DEF SInv, HeldForTheNight, SameSession
  <2> QED BY <2>1 DEF HeldForTheNight, Standing, LiveRuns, Dying
<1> QED BY <1>5, <1>6, <1>7, <1>8, <1>9, <1>10 DEF SInv

LEMMA MarkActivitySame ==
  ASSUME SInv, sess' = MarkActivity(sess) PROVE SameSession
BY DEF SInv, Shapes, SessRows, MarkActivity, SameSession

LEMMA CommitRequestKeeps ==
  ASSUME SInv, Calm, CommitRequest PROVE SInv'
<1>1. req' = NoRequest /\ mach' = mach /\ req \in Requests /\ sess \in SessRows
  BY DEF CommitRequest, SInv, Shapes
<1>2. CASE req.kind = "contenders"
  <2>1. CommitContenders
    BY <1>2 DEF CommitRequest
  <2> QED BY <1>1, <1>2, <2>1, CommitContendersQuiet, QuietKeeps
<1>3. CASE req.kind = "launch"
  <2>1. CommitLaunch
    BY <1>3 DEF CommitRequest
  <2>2. req.cards \in SUBSET AllCards
    BY <1>1, <1>3, RequestKinds
  <2>3. PICK x : x = Run("POLICY_LAUNCH", "pending", req.cards, 0, FALSE)
    OBVIOUS
  <2>4. x \in RunRows /\ ~x.dying /\ ~x.past /\ LiveRun(x) /\ x.kind = "POLICY_LAUNCH"
    BY <2>2, <2>3 DEF Run, RunRows, LiveRun
  <2>5. SameSession /\ conts' \in Seq(ContRows) /\ runs' = Append(runs, x)
    <3>1. sess' = MarkActivity(sess) /\ conts' = conts /\ runs' = Append(runs, x)
      BY <2>1, <2>3 DEF CommitLaunch
    <3>2. SameSession
      BY <3>1, MarkActivitySame
    <3> QED BY <3>1, <3>2 DEF SInv, Shapes
  <2> QED BY <1>1, <1>3, <2>4, <2>5, CommitKeeps
<1>4. CASE req.kind = "bench"
  <2>1. CommitBench
    BY <1>4 DEF CommitRequest
  <2>2. req.parent \in Nat /\ NoCards \in SUBSET AllCards
    BY <1>1, <1>4, RequestKinds DEF NoCards
  <2>3. PICK x : x = Run("EXTERNAL", "benching", NoCards, req.parent, FALSE)
    OBVIOUS
  <2>4. x \in RunRows /\ ~x.dying /\ ~x.past /\ LiveRun(x) /\ x.kind = "EXTERNAL"
    BY <2>2, <2>3 DEF Run, RunRows, LiveRun
  <2>5. SameSession /\ conts' \in Seq(ContRows) /\ runs' = Append(runs, x)
    <3>1. sess' = MarkActivity(sess) /\ conts' = conts /\ runs' = Append(runs, x)
      BY <2>1, <2>3 DEF CommitBench
    <3>2. SameSession
      BY <3>1, MarkActivitySame
    <3> QED BY <3>1, <3>2 DEF SInv, Shapes
  <2> QED BY <1>1, <1>4, <2>4, <2>5, CommitKeeps
<1>5. CASE req.kind = "external"
  <2>1. CommitExternal
    BY <1>5 DEF CommitRequest
  <2>2. req.cards \in SUBSET AllCards
    BY <1>1, <1>5, RequestKinds
  <2>3. PICK x : x = Run("EXTERNAL", "benching", req.cards, 0, FALSE)
    OBVIOUS
  <2>4. x \in RunRows /\ ~x.dying /\ ~x.past /\ LiveRun(x) /\ x.kind = "EXTERNAL"
    BY <2>2, <2>3 DEF Run, RunRows, LiveRun
  <2>5. SameSession /\ conts' \in Seq(ContRows) /\ runs' = Append(runs, x)
    <3>1. sess' = MarkActivity(sess) /\ conts' = conts /\ runs' = Append(runs, x)
      BY <2>1, <2>3 DEF CommitExternal
    <3>2. SameSession
      BY <3>1, MarkActivitySame
    <3> QED BY <3>1, <3>2 DEF SInv, Shapes
  <2> QED BY <1>1, <1>5, <2>4, <2>5, CommitKeeps
<1>6. CASE req.kind = "serving"
  <2>1. CommitServing
    BY <1>6 DEF CommitRequest
  <2>2. sess.cards \in SUBSET AllCards
    BY <1>1 DEF SessRows
  <2>3. PICK x : x = Run("EXTERNAL", "benching", sess.cards, 0, FALSE)
    OBVIOUS
  <2>4. x \in RunRows /\ ~x.dying /\ ~x.past /\ LiveRun(x) /\ x.kind = "EXTERNAL"
    BY <2>2, <2>3 DEF Run, RunRows, LiveRun
  <2>5. SameSession /\ runs' = Append(runs, x)
    BY <2>1, <2>3, Unchanged DEF CommitServing
  <2>6. conts' \in Seq(ContRows)
    <3>1. conts \in Seq(ContRows) /\ runs \in Seq(RunRows)
      BY DEF SInv, Shapes
    <3>2. PICK n \in Nat : n = Len(runs) + 1
      BY <3>1
    <3>3. conts' = [conts EXCEPT ![req.cont].st = "SERVING", ![req.cont].run = n]
      BY <2>1, <3>2 DEF CommitServing
    <3>4. DOMAIN conts = 1..Len(conts) /\ Len(conts) \in Nat
      BY <3>1, LenProperties
    <3>5. \A c \in ContRows : [c EXCEPT !.st = "SERVING", !.run = n] \in ContRows
      BY DEF ContRows, ContenderStates
    <3>6. conts' = [k \in DOMAIN conts |-> IF k = req.cont
                                           THEN [conts[k] EXCEPT !.st = "SERVING", !.run = n] ELSE conts[k]]
      BY <3>3
    <3>7. \A k \in DOMAIN conts : conts[k] \in ContRows
      BY <3>1, <3>4
    <3>8. conts' \in [1..Len(conts) -> ContRows]
      BY <3>4, <3>5, <3>6, <3>7
    <3> QED BY <3>4, <3>8
  <2> QED BY <1>1, <1>6, <2>4, <2>5, <2>6, CommitKeeps
<1> QED BY <1>2, <1>3, <1>4, <1>5, <1>6 DEF CommitRequest


(***************************************************************************)
(* The launch pass.                                                        *)
(***************************************************************************)
PassRows == [conts : Seq(ContRows), runs : Seq(RunRows), serving : Nat, waiting : BOOLEAN]

\* Who is on the machine while the pass launches is one the session shares it
\* with, or one the operator was not asked about.
Settled == other # "none" => knobs.shares \/ sess.asked

\* What the pass has done so far, from the contenders cs.
PassOK(cs, w) ==
  /\ w \in PassRows /\ DOMAIN w.conts = DOMAIN cs
  /\ \A i \in DOMAIN cs : w.conts[i].st = "REGISTERED" => cs[i].st = "REGISTERED"
  /\ Standing(runs) \subseteq Standing(w.runs)
  /\ ~sess.asked => \A i \in DOMAIN w.runs : ~w.runs[i].past
  /\ Sole(w.runs, other, knobs.shares \/ sess.asked)

LEMMA FreeCards ==
  ASSUME SInv, NEW width, NEW rs
  PROVE  LET cards == ValidationCards(width, rs) IN
         /\ cards \in SUBSET AllCards
         /\ \A j \in Standing(rs) : rs[j].cards \cap cards = {}
         /\ other # "none" => cards \cap OtherCards = {}
<1> DEFINE free == sess.cards \ BlockedCards(rs)
           cards == ValidationCards(width, rs)
<1>1. cards = {} \/ \E n : cards = First(free, n)
  BY DEF ValidationCards, NoCards
<1>2. sess.cards \in SUBSET AllCards
  BY DEF SInv, Shapes, SessRows
<1> HIDE DEF cards, free
<1>3. cards \subseteq free
  BY <1>1, FirstOf
<1>4. /\ \A j \in Standing(rs) : rs[j].cards \cap free = {}
      /\ other # "none" => free \cap OtherCards = {}
  <2>1. \A j \in Standing(rs) : \A c \in rs[j].cards : c \in BlockedCards(rs)
    BY Zenon DEF BlockedCards, Standing
  <2>2. other # "none" => \A c \in OtherCards : c \in BlockedCards(rs)
    <3>1. PICK A : BlockedCards(rs) = A \cup (IF other = "none" THEN NoCards ELSE OtherCards)
      BY Zenon DEF BlockedCards
    <3> QED BY <3>1
  <2> QED BY <2>1, <2>2 DEF free
<1>5. free \subseteq AllCards
  BY <1>2 DEF free
<1> QED BY <1>3, <1>4, <1>5 DEF cards

\* One entry: nothing more is done, a validation is started on free cards, or
\* a contender gets a state that is not REGISTERED.
OneMore(w, item, v) ==
  /\ v = [conts |-> v.conts, runs |-> v.runs, serving |-> v.serving, waiting |-> v.waiting]
  /\ v.waiting \in BOOLEAN /\ v.serving \in {w.serving, item}
  /\ \/ v.conts = w.conts
     \/ /\ item # 0
        /\ \E x \in ContRows : x.st # "REGISTERED" /\ v.conts = [w.conts EXCEPT ![item] = x]
  /\ \/ v.runs = w.runs
     \/ \E x \in RunRows : /\ x.kind = "EXPERIMENT" /\ ~x.dying /\ ~x.past /\ LiveRun(x)
                           /\ Fits(w.runs, x, other, Settled)
                           /\ v.runs = Append(w.runs, x)
  /\ v.waiting \/ item = 0 \/ v.conts[item].st # "REGISTERED"

LEMMA LaunchOneForms ==
  ASSUME SInv, Settled, NEW w \in PassRows, NEW item \in {0} \cup DOMAIN w.conts
  PROVE  OneMore(w, item, LaunchOne(w, item))
<1> DEFINE width == IF item = 0 THEN Production ELSE Width[w.conts[item].cfg]
           cards == ValidationCards(width, w.runs)
           row == Run("EXPERIMENT", "pending", cards, 0, item = 0)
           v == LaunchOne(w, item)
<1>1. /\ w.conts \in Seq(ContRows) /\ w.runs \in Seq(RunRows) /\ w.serving \in Nat /\ w.waiting \in BOOLEAN
      /\ w = [conts |-> w.conts, runs |-> w.runs, serving |-> w.serving, waiting |-> w.waiting]
  BY DEF PassRows
<1>2. DOMAIN w.conts = 1..Len(w.conts) /\ Len(w.conts) \in Nat
  BY <1>1, LenProperties
<1>3. item \in DOMAIN w.conts => w.conts[item] \in ContRows /\ item # 0
  BY <1>1, <1>2
<1>4. PICK c : c = w.conts[item]
  OBVIOUS
<1>5. PICK n \in Nat : n = Len(w.runs) + 1
  <2>1. Len(w.runs) \in Nat
    BY <1>1, LenProperties
  <2> QED BY <2>1
<1>6. PICK served : served = [c EXCEPT !.st = "SERVING"]
  OBVIOUS
<1>7. PICK launched : launched = [c EXCEPT !.st = "SERVING", !.run = n]
  OBVIOUS
<1>8. PICK skipped : skipped = [c EXCEPT !.st = "SKIPPED"]
  OBVIOUS
<1>9. item # 0 =>
        /\ served \in ContRows /\ served.st # "REGISTERED"
        /\ launched \in ContRows /\ launched.st # "REGISTERED"
        /\ skipped \in ContRows /\ skipped.st # "REGISTERED"
  <2> SUFFICES ASSUME item # 0 PROVE /\ served \in ContRows /\ served.st # "REGISTERED"
                                     /\ launched \in ContRows /\ launched.st # "REGISTERED"
                                     /\ skipped \in ContRows /\ skipped.st # "REGISTERED"
    OBVIOUS
  <2>1. c \in ContRows
    BY <1>3, <1>4
  <2> QED BY <1>6, <1>7, <1>8, <2>1 DEF ContRows, ContenderStates
<1>10. /\ row \in RunRows /\ row.kind = "EXPERIMENT" /\ ~row.dying /\ ~row.past /\ LiveRun(row)
       /\ Fits(w.runs, row, other, Settled)
  <2>1. /\ cards \in SUBSET AllCards
        /\ \A j \in Standing(w.runs) : w.runs[j].cards \cap cards = {}
        /\ other # "none" => cards \cap OtherCards = {}
    BY FreeCards
  <2>2. PICK b \in BOOLEAN : b = (item = 0)
    OBVIOUS
  <2>3. row = Run("EXPERIMENT", "pending", cards, 0, b)
    BY <2>2
  <2> HIDE DEF cards, row
  <2>4. /\ row \in RunRows /\ row.kind = "EXPERIMENT" /\ ~row.dying /\ ~row.past /\ LiveRun(row)
        /\ row.cards = cards
    BY <2>1, <2>3 DEF Run, RunRows, LiveRun
  <2> QED BY <2>1, <2>4 DEF Fits
<1>11. \/ w.waiting /\ v = w
       \/ v = [w EXCEPT !.waiting = TRUE]
       \/ item = 0 /\ v = [w EXCEPT !.runs = Append(@, row)]
       \/ item # 0 /\ v = [w EXCEPT !.runs = Append(@, row), !.conts[item].st = "SERVING",
                                    !.conts[item].run = Len(w.runs) + 1]
       \/ item # 0 /\ v = [w EXCEPT !.conts[item].st = "SKIPPED"]
       \/ item # 0 /\ v = [w EXCEPT !.conts[item].st = "SERVING", !.serving = item, !.waiting = TRUE]
  <2> HIDE DEF row
  <2>1. CASE item = 0
    BY <2>1 DEF LaunchOne, row
  <2>2. CASE item # 0
    BY <2>2 DEF LaunchOne, CommandServe, row
  <2> QED BY <2>1, <2>2
<1> HIDE DEF row, v
<1> DEFINE Made(a, b, d, e) == v = [conts |-> a, runs |-> b, serving |-> d, waiting |-> e]
<1>12. \/ Made(w.conts, w.runs, w.serving, TRUE)
       \/ item = 0 /\ Made(w.conts, Append(w.runs, row), w.serving, w.waiting)
       \/ item # 0 /\ Made([w.conts EXCEPT ![item] = launched], Append(w.runs, row), w.serving, w.waiting)
       \/ item # 0 /\ Made([w.conts EXCEPT ![item] = skipped], w.runs, w.serving, w.waiting)
       \/ item # 0 /\ Made([w.conts EXCEPT ![item] = served], w.runs, item, TRUE)
  <2>1. CASE w.waiting /\ v = w
    BY <1>1, <2>1
  <2>2. CASE v = [w EXCEPT !.waiting = TRUE]
    BY <1>1, <2>2
  <2>3. CASE item = 0 /\ v = [w EXCEPT !.runs = Append(@, row)]
    BY <1>1, <2>3
  <2>4. CASE item # 0 /\ v = [w EXCEPT !.runs = Append(@, row), !.conts[item].st = "SERVING",
                                       !.conts[item].run = Len(w.runs) + 1]
    BY <1>1, <1>3, <1>4, <1>5, <1>7, <2>4 DEF ContRows
  <2>5. CASE item # 0 /\ v = [w EXCEPT !.conts[item].st = "SKIPPED"]
    BY <1>1, <1>4, <1>8, <2>5
  <2>6. CASE item # 0 /\ v = [w EXCEPT !.conts[item].st = "SERVING", !.serving = item, !.waiting = TRUE]
    BY <1>1, <1>4, <1>6, <2>6
  <2> QED BY <1>11, <2>1, <2>2, <2>3, <2>4, <2>5, <2>6
<1>13. item # 0 => \A x : [w.conts EXCEPT ![item] = x][item] = x
  BY <1>1, <1>2
<1>14. OneMore(w, item, v)
  <2>1. CASE Made(w.conts, w.runs, w.serving, TRUE)
    BY <2>1 DEF OneMore
  <2>2. CASE item = 0 /\ Made(w.conts, Append(w.runs, row), w.serving, w.waiting)
    BY <1>1, <1>10, <2>2 DEF OneMore
  <2>3. CASE item # 0 /\ Made([w.conts EXCEPT ![item] = launched], Append(w.runs, row), w.serving, w.waiting)
    BY <1>1, <1>9, <1>10, <1>13, <2>3 DEF OneMore
  <2>4. CASE item # 0 /\ Made([w.conts EXCEPT ![item] = skipped], w.runs, w.serving, w.waiting)
    BY <1>1, <1>9, <1>13, <2>4 DEF OneMore
  <2>5. CASE item # 0 /\ Made([w.conts EXCEPT ![item] = served], w.runs, item, TRUE)
    BY <1>1, <1>9, <1>13, <2>5 DEF OneMore
  <2> QED BY <1>12, <2>1, <2>2, <2>3, <2>4, <2>5
<1> QED BY <1>14 DEF v


LEMMA OneMoreKeeps ==
  ASSUME SInv, Settled, NEW cs, NEW w, PassOK(cs, w), NEW item \in {0} \cup DOMAIN cs,
         NEW v, OneMore(w, item, v)
  PROVE  /\ PassOK(cs, v)
         /\ v.waiting \/ \A i \in DOMAIN cs : v.conts[i].st = "REGISTERED" =>
                           w.conts[i].st = "REGISTERED" /\ i # item
<1>1. /\ w \in PassRows /\ DOMAIN w.conts = DOMAIN cs
      /\ \A i \in DOMAIN cs : w.conts[i].st = "REGISTERED" => cs[i].st = "REGISTERED"
      /\ Standing(runs) \subseteq Standing(w.runs)
      /\ ~sess.asked => \A i \in DOMAIN w.runs : ~w.runs[i].past
      /\ Sole(w.runs, other, knobs.shares \/ sess.asked)
  BY DEF PassOK
<1>2. /\ w.conts \in Seq(ContRows) /\ w.runs \in Seq(RunRows) /\ w.serving \in Nat /\ w.waiting \in BOOLEAN
  BY <1>1 DEF PassRows
<1>3. DOMAIN w.conts = 1..Len(w.conts) /\ Len(w.conts) \in Nat
  BY <1>2, LenProperties
<1>4. /\ v = [conts |-> v.conts, runs |-> v.runs, serving |-> v.serving, waiting |-> v.waiting]
      /\ v.waiting \in BOOLEAN /\ v.serving \in {w.serving, item}
      /\ v.waiting \/ item = 0 \/ v.conts[item].st # "REGISTERED"
  BY DEF OneMore
<1>5. /\ v.conts \in Seq(ContRows) /\ DOMAIN v.conts = DOMAIN cs
      /\ \A i \in DOMAIN cs : v.conts[i].st = "REGISTERED" => w.conts[i].st = "REGISTERED"
  <2>1. CASE v.conts = w.conts
    BY <1>1, <1>2, <2>1
  <2>2. CASE item # 0 /\ \E x \in ContRows : x.st # "REGISTERED" /\ v.conts = [w.conts EXCEPT ![item] = x]
    <3>1. PICK x \in ContRows : x.st # "REGISTERED" /\ v.conts = [w.conts EXCEPT ![item] = x]
      BY <2>2
    <3>2. v.conts = [i \in 1..Len(w.conts) |-> IF i = item THEN x ELSE w.conts[i]]
      BY <1>3, <3>1
    <3>3. \A i \in 1..Len(w.conts) : w.conts[i] \in ContRows
      BY <1>2
    <3>4. v.conts \in [1..Len(w.conts) -> ContRows]
      BY <3>2, <3>3
    <3>5. v.conts \in Seq(ContRows)
      BY <1>3, <3>4
    <3>6. DOMAIN v.conts = DOMAIN cs
      BY <1>1, <1>3, <3>2
    <3>7. \A i \in DOMAIN cs : v.conts[i].st = "REGISTERED" => w.conts[i].st = "REGISTERED"
      BY <1>1, <1>3, <3>1, <3>2
    <3> QED BY <3>5, <3>6, <3>7
  <2> QED BY <2>1, <2>2 DEF OneMore
<1>6. /\ v.runs \in Seq(RunRows) /\ Standing(runs) \subseteq Standing(v.runs)
      /\ ~sess.asked => \A i \in DOMAIN v.runs : ~v.runs[i].past
      /\ Sole(v.runs, other, knobs.shares \/ sess.asked)
  <2>1. CASE v.runs = w.runs
    BY <1>1, <1>2, <2>1
  <2>2. CASE v.runs # w.runs
    <3>1. PICK x \in RunRows : /\ x.kind = "EXPERIMENT" /\ ~x.dying /\ ~x.past /\ LiveRun(x)
                               /\ Fits(w.runs, x, other, Settled)
                               /\ v.runs = Append(w.runs, x)
      BY <2>2 DEF OneMore
    <3>2. Fits(w.runs, x, other, knobs.shares \/ sess.asked)
      BY <3>1 DEF Fits, Settled
    <3>3. Sole(Append(w.runs, x), other, knobs.shares \/ sess.asked)
      BY <1>1, <1>2, <3>1, <3>2, AppendSole
    <3>4. PICK n : n = Len(w.runs) + 1
      OBVIOUS
    <3>5. /\ Append(w.runs, x) \in Seq(RunRows) /\ DOMAIN Append(w.runs, x) = DOMAIN w.runs \cup {n}
          /\ Append(w.runs, x)[n] = x /\ \A i \in DOMAIN w.runs : Append(w.runs, x)[i] = w.runs[i]
      BY <1>2, <3>4, AppendRow
    <3>6. Standing(Append(w.runs, x)) = Standing(w.runs) \cup {n}
      BY <1>2, <3>1, <3>4, AppendStands
    <3>7. ~sess.asked => \A i \in DOMAIN v.runs : ~v.runs[i].past
      BY <1>1, <3>1, <3>5
    <3> QED BY <1>1, <3>1, <3>3, <3>5, <3>6, <3>7
  <2> QED BY <2>1, <2>2
<1>7. v.serving \in Nat
  BY <1>1, <1>2, <1>3, <1>4
<1>8. v \in PassRows
  <2>1. PICK A, B : A = Seq(ContRows) /\ B = Seq(RunRows)
    OBVIOUS
  <2>2. v.conts \in A /\ v.runs \in B
    BY <1>5, <1>6, <2>1
  <2>3. v \in [conts : A, runs : B, serving : Nat, waiting : BOOLEAN]
    BY <1>4, <1>7, <2>2
  <2> QED BY <2>1, <2>3 DEF PassRows
<1>9. \A i \in DOMAIN cs : v.conts[i].st = "REGISTERED" => cs[i].st = "REGISTERED"
  BY <1>1, <1>5
<1>10. PassOK(cs, v)
  BY <1>5, <1>6, <1>8, <1>9 DEF PassOK
<1>11. 0 \notin DOMAIN cs
  BY <1>1, <1>3
<1> QED BY <1>4, <1>5, <1>10, <1>11

\* After the whole pass: what is still REGISTERED was not in the queue, unless
\* the pass was left waiting.
LEMMA PassKeeps ==
  ASSUME SInv, Settled, NEW cs, NEW start, PassOK(cs, start), NEW queue \in Seq({0} \cup DOMAIN cs)
  PROVE  LET v == LaunchPass(start, queue) IN
         /\ PassOK(cs, v)
         /\ v.waiting \/ \A k \in DOMAIN queue : queue[k] \in DOMAIN cs =>
                                                v.conts[queue[k]].st # "REGISTERED"
<1>1. DOMAIN queue = 1..Len(queue) /\ Len(queue) \in Nat /\ \A k \in DOMAIN queue : queue[k] \in {0} \cup DOMAIN cs
  BY LenProperties
<1>2. PICK w : /\ w[0] = start
               /\ \A k \in 1..Len(queue) : w[k] = LaunchOne(w[k - 1], queue[k])
               /\ LaunchPass(start, queue) = w[Len(queue)]
  BY <1>1, PassSteps, ZenonT(30)
<1> DEFINE Past(k) == /\ PassOK(cs, w[k])
                      /\ w[k].waiting \/ \A j \in 1..k : queue[j] \in DOMAIN cs =>
                                            w[k].conts[queue[j]].st # "REGISTERED"
           Good == {k \in 0..Len(queue) : Past(k)}
<1>3. 0 \in Good
  BY <1>1, <1>2
<1>4. ASSUME NEW k \in 1..Len(queue), k - 1 \in Good PROVE k \in Good
  <2>1. PICK a, b, item : a = w[k - 1] /\ b = w[k] /\ item = queue[k]
    OBVIOUS
  <2>2. PassOK(cs, a) /\ b = LaunchOne(a, item)
    BY <1>2, <1>4, <2>1
  <2>3. item \in {0} \cup DOMAIN cs
    BY <1>1, <2>1
  <2>4. a \in PassRows /\ DOMAIN a.conts = DOMAIN cs
    BY <2>2 DEF PassOK
  <2>5. OneMore(a, item, b)
    BY <2>2, <2>3, <2>4, LaunchOneForms
  <2>6. /\ PassOK(cs, b)
        /\ b.waiting \/ \A i \in DOMAIN cs : b.conts[i].st = "REGISTERED" =>
                          a.conts[i].st = "REGISTERED" /\ i # item
    <3>1. PassOK(cs, a)
      BY <2>2
    <3> QED BY <2>3, <2>5, <3>1, OneMoreKeeps
  <2>7. a.waiting \/ \A j \in 1..(k - 1) : queue[j] \in DOMAIN cs => a.conts[queue[j]].st # "REGISTERED"
    BY <1>4, <2>1
  <2>8. a.waiting => b.waiting
    <3>1. a.waiting => b = a
      BY <2>2 DEF LaunchOne
    <3> QED BY <3>1
  <2>9. b.waiting \/ \A j \in 1..k : queue[j] \in DOMAIN cs => b.conts[queue[j]].st # "REGISTERED"
    <3> SUFFICES ASSUME ~b.waiting, NEW j \in 1..k, queue[j] \in DOMAIN cs,
                        b.conts[queue[j]].st = "REGISTERED"
                 PROVE  FALSE
      BY <2>6 DEF PassOK, PassRows
    <3>1. a.conts[queue[j]].st = "REGISTERED" /\ queue[j] # item /\ ~a.waiting
      BY <2>6, <2>8
    <3>2. j \in 1..(k - 1)
      BY <2>1, <3>1
    <3> QED BY <2>7, <3>1, <3>2
  <2> QED BY <2>1, <2>6, <2>9
<1>5. Len(queue) \in Good
  <2> HIDE DEF Good
  <2>1. \A k \in 0..Len(queue) : k \in Good
    BY <1>1, <1>3, <1>4, LeastBad
  <2> QED BY <1>1, <2>1
<1> QED BY <1>1, <1>2, <1>5


\* The queue has every contender that is registered.
LEMMA QueueHolds ==
  ASSUME NEW cs \in Seq(ContRows), NEW wantRef
  PROVE  LET queue == LaunchQueue(cs, wantRef) IN
         /\ queue \in Seq({0} \cup DOMAIN cs)
         /\ \A i \in DOMAIN cs : cs[i].st = "REGISTERED" => \E k \in DOMAIN queue : queue[k] = i
<1> DEFINE S == {i \in DOMAIN cs : cs[i].st = "REGISTERED"}
           at(i) == {j \in S : cs[j].rank < cs[i].rank \/ (cs[j].rank = cs[i].rank /\ j <= i)}
           before == [i \in S |-> at(i)]
           order == InPlaces([i \in S |-> Cardinality(at(i))])
           head == IF wantRef THEN <<0>> ELSE <<>>
<1>1. LaunchQueue(cs, wantRef) = head \o order
  BY DEF LaunchQueue
<1>2. DOMAIN cs = 1..Len(cs) /\ Len(cs) \in Nat
  BY LenProperties
<1>3. S \subseteq 1..Len(cs)
  BY <1>2
<1>4. IsFiniteSet(S)
  <2>1. IsFiniteSet(1..Len(cs))
    BY <1>2, FS_Interval
  <2> HIDE DEF S
  <2> QED BY <1>3, <2>1, FS_Subset
<1>5. \A i \in S : i \in Nat /\ cs[i].rank \in Nat
  <2>1. \A i \in 1..Len(cs) : cs[i] \in ContRows
    BY <1>2
  <2>2. \A i \in 1..Len(cs) : cs[i].rank \in Nat /\ i \in Nat
    BY <2>1 DEF ContRows
  <2> HIDE DEF S
  <2> QED BY <1>3, <2>2
<1> HIDE DEF S
<1>6. before \in [S -> SUBSET S] /\ \A i \in S : i \in before[i]
  BY <1>5
<1>7. \A i, j \in S : i # j => \/ before[i] \subseteq before[j] /\ j \notin before[i]
                               \/ before[j] \subseteq before[i] /\ i \notin before[j]
  <2> SUFFICES ASSUME NEW i \in S, NEW j \in S, i # j
               PROVE  \/ at(i) \subseteq at(j) /\ j \notin at(i)
                      \/ at(j) \subseteq at(i) /\ i \notin at(j)
    OBVIOUS
  <2>1. CASE cs[i].rank < cs[j].rank \/ (cs[i].rank = cs[j].rank /\ i < j)
    BY <1>5, <2>1
  <2>2. CASE cs[j].rank < cs[i].rank \/ (cs[j].rank = cs[i].rank /\ j < i)
    BY <1>5, <2>2
  <2> QED BY <1>5, <2>1, <2>2
<1>8. [i \in S |-> Cardinality(at(i))] = [i \in S |-> Cardinality(before[i])]
  OBVIOUS
<1> HIDE DEF before, at
<1>9. PICK place : place = [k \in S |-> Cardinality(before[k])]
  OBVIOUS
<1>10. /\ place \in [S -> 1..Cardinality(S)]
       /\ \A i, j \in S : Cardinality(before[i]) = Cardinality(before[j]) => i = j
  BY <1>4, <1>6, <1>7, <1>9, CountsPlace
<1>11. \A i, j \in S : place[i] = place[j] => i = j
  BY <1>9, <1>10
<1>12. /\ Cardinality(S) \in Nat /\ order \in [1..Cardinality(S) -> S]
       /\ \A i \in S : \E k \in 1..Cardinality(S) : order[k] = i
  <2>1. /\ Cardinality(S) \in Nat /\ InPlaces(place) \in [1..Cardinality(S) -> S]
        /\ \A i \in S : \E k \in 1..Cardinality(S) : InPlaces(place)[k] = i
    BY <1>4, <1>10, <1>11, PlacesOrder
  <2>2. order = InPlaces(place)
    BY <1>8, <1>9
  <2> HIDE DEF order
  <2> QED BY <2>1, <2>2
<1> HIDE DEF order
<1>13. order \in Seq({0} \cup DOMAIN cs) /\ Len(order) = Cardinality(S)
  <2>1. S \subseteq {0} \cup DOMAIN cs
    BY <1>2, <1>3
  <2>2. order \in Seq(S) /\ DOMAIN order = 1..Cardinality(S)
    BY <1>12
  <2>3. Len(order) = Cardinality(S)
    <3>1. DOMAIN order = 1..Len(order) /\ Len(order) \in Nat
      BY <2>2, LenProperties
    <3> QED BY <1>12, <2>2, <3>1
  <2>4. PICK T : T = {0} \cup DOMAIN cs
    OBVIOUS
  <2>5. order \in [1..Cardinality(S) -> T]
    BY <1>12, <2>1, <2>4
  <2>6. order \in Seq(T)
    BY <1>12, <2>5
  <2> QED BY <2>3, <2>4, <2>6
<1>14. head \in Seq({0} \cup DOMAIN cs) /\ Len(head) \in Nat
  <2>1. PICK T : T = {0} \cup DOMAIN cs
    OBVIOUS
  <2>2. 0 \in T
    BY <2>1
  <2>3. head \in Seq(T) /\ Len(head) \in Nat
    BY <2>2
  <2> HIDE DEF head
  <2> QED BY <2>1, <2>3
<1> HIDE DEF head
<1>15. PICK T : T = {0} \cup DOMAIN cs
  OBVIOUS
<1>16. /\ head \o order \in Seq(T) /\ Len(head \o order) = Len(head) + Len(order)
       /\ \A i \in 1..(Len(head) + Len(order)) :
            (head \o order)[i] = IF i <= Len(head) THEN head[i] ELSE order[i - Len(head)]
  BY <1>13, <1>14, <1>15, ConcatProperties
<1>17. DOMAIN (head \o order) = 1..Len(head \o order)
  BY <1>16, LenProperties
<1>18. ASSUME NEW i \in S PROVE \E k \in DOMAIN (head \o order) : (head \o order)[k] = i
  <2>1. PICK k \in 1..Cardinality(S) : order[k] = i
    BY <1>12
  <2>2. k + Len(head) \in DOMAIN (head \o order) /\ (head \o order)[k + Len(head)] = i
    BY <1>12, <1>13, <1>14, <1>16, <1>17, <2>1
  <2> QED BY <2>2
<1> QED BY <1>1, <1>15, <1>16, <1>18 DEF S

LEMMA LaunchValidationsKeeps ==
  ASSUME SInv, sess.status = "VALIDATING", NEW cs \in Seq(ContRows), NEW serving \in Nat, NEW wantRef
  PROVE  LET v == LaunchValidations(cs, serving, wantRef) IN
         /\ PassOK(cs, v) /\ (v.runs = runs \/ Settled)
         /\ v.waiting \/ \A i \in DOMAIN cs : v.conts[i].st # "REGISTERED"
<1> DEFINE start == [conts |-> cs, runs |-> runs, serving |-> serving, waiting |-> FALSE]
           first == ~\E i \in Own(runs) : runs[i].kind = "EXPERIMENT"
           skipped == [i \in DOMAIN cs |-> IF cs[i].st = "REGISTERED"
                                           THEN [cs[i] EXCEPT !.st = "SKIPPED"] ELSE cs[i]]
           v == LaunchValidations(cs, serving, wantRef)
<1>1. /\ runs \in Seq(RunRows) /\ (~sess.asked => \A i \in DOMAIN runs : ~runs[i].past)
      /\ Sole(runs, other, knobs.shares \/ sess.asked)
  BY UndisturbedParts DEF SInv, Shapes, NightOK
<1>2. DOMAIN cs = 1..Len(cs) /\ Len(cs) \in Nat /\ \A i \in DOMAIN cs : cs[i] \in ContRows
  BY LenProperties
<1>3. /\ DOMAIN skipped = DOMAIN cs /\ \A i \in DOMAIN cs : skipped[i].st # "REGISTERED"
      /\ skipped \in Seq(ContRows)
  <2>1. \A i \in DOMAIN cs : skipped[i] \in ContRows /\ skipped[i].st # "REGISTERED"
    BY <1>2 DEF ContRows, ContenderStates
  <2>2. skipped \in [1..Len(cs) -> ContRows]
    BY <1>2, <2>1
  <2> QED BY <1>2, <2>1, <2>2
<1> HIDE DEF skipped
<1>4. ASSUME NEW c2 \in Seq(ContRows), NEW wt \in BOOLEAN, DOMAIN c2 = DOMAIN cs,
             \A i \in DOMAIN cs : c2[i].st = "REGISTERED" => cs[i].st = "REGISTERED"
      PROVE  PassOK(cs, [conts |-> c2, runs |-> runs, serving |-> serving, waiting |-> wt])
  <2>1. PICK w : w = [conts |-> c2, runs |-> runs, serving |-> serving, waiting |-> wt]
    OBVIOUS
  <2>2. w \in PassRows /\ w.conts = c2 /\ w.runs = runs
    <3>1. PICK A, B : A = Seq(ContRows) /\ B = Seq(RunRows)
      OBVIOUS
    <3>2. w \in [conts : A, runs : B, serving : Nat, waiting : BOOLEAN] /\ w.conts = c2 /\ w.runs = runs
      BY <1>1, <2>1, <3>1
    <3> QED BY <3>1, <3>2 DEF PassRows
  <2>3. PassOK(cs, w)
    BY <1>1, <1>4, <2>2 DEF PassOK
  <2> QED BY <2>1, <2>3
<1>5. \/ v = [conts |-> cs, runs |-> runs, serving |-> serving, waiting |-> TRUE]
      \/ v = [conts |-> skipped, runs |-> runs, serving |-> serving, waiting |-> FALSE]
      \/ ~(first /\ TeardownBlocking) /\ v = LaunchPass(start, LaunchQueue(cs, wantRef))
  <2> HIDE DEF first
  <2>1. CASE first /\ TeardownBlocking
    BY <2>1 DEF LaunchValidations, first
  <2>2. CASE ~(first /\ TeardownBlocking) /\ clock \in {"late", "over"}
    BY <2>2 DEF LaunchValidations, first, skipped
  <2>3. CASE ~(first /\ TeardownBlocking) /\ clock \notin {"late", "over"}
    BY <2>3 DEF LaunchValidations, first
  <2> QED BY <2>1, <2>2, <2>3
<1>6. CASE v = [conts |-> cs, runs |-> runs, serving |-> serving, waiting |-> TRUE]
  <2>1. PassOK(cs, v)
    BY <1>4, <1>6
  <2> HIDE DEF v
  <2>2. v.runs = runs /\ v.waiting
    BY <1>6
  <2> QED BY <2>1, <2>2 DEF v
<1>7. CASE v = [conts |-> skipped, runs |-> runs, serving |-> serving, waiting |-> FALSE]
  <2>1. PassOK(cs, v)
    BY <1>3, <1>4, <1>7
  <2> HIDE DEF v
  <2>2. v.runs = runs /\ v.conts = skipped
    BY <1>7
  <2> QED BY <1>3, <2>1, <2>2 DEF v
<1>8. CASE ~(first /\ TeardownBlocking) /\ v = LaunchPass(start, LaunchQueue(cs, wantRef))
  <2>1. Settled
    <3> SUFFICES ASSUME ~knobs.shares, ~sess.asked, other # "none" PROVE FALSE
      BY DEF Settled
    <3>1. sess.placed /\ sess.status \in Started
      BY DEF SInv, NightOK, Started
    <3>2. other # "live" /\ ~Validated(runs)
      BY <3>1, Zenon DEF SInv, Alone
    <3>3. other = "dying"
      BY <3>2 DEF SInv, Shapes
    <3>4. first
      BY <3>2, Zenon DEF Own, Validated
    <3> QED BY <1>8, <3>3, <3>4 DEF TeardownBlocking
  <2>2. PassOK(cs, start)
    BY <1>4
  <2>3. PICK queue : queue = LaunchQueue(cs, wantRef)
    OBVIOUS
  <2>4. /\ queue \in Seq({0} \cup DOMAIN cs)
        /\ \A i \in DOMAIN cs : cs[i].st = "REGISTERED" => \E k \in DOMAIN queue : queue[k] = i
    BY <2>3, QueueHolds
  <2> HIDE DEF start, v
  <2>5. v = LaunchPass(start, queue)
    BY <1>8, <2>3
  <2>6. /\ PassOK(cs, v)
        /\ v.waiting \/ \A k \in DOMAIN queue : queue[k] \in DOMAIN cs => v.conts[queue[k]].st # "REGISTERED"
    BY <2>1, <2>2, <2>4, <2>5, PassKeeps
  <2>7. v.waiting \/ \A i \in DOMAIN cs : v.conts[i].st # "REGISTERED"
    BY <2>4, <2>6 DEF PassOK
  <2> QED BY <2>1, <2>6, <2>7 DEF v
<1> QED BY <1>5, <1>6, <1>7, <1>8


\* What a tick of a validating session comes to.
Validates(v) ==
  /\ PassOK(v.conts, v) /\ (v.runs = runs \/ Settled)
  /\ conts' = v.conts
  /\ \/ sess' = [sess EXCEPT !.serving = v.serving] /\ runs' = v.runs /\ mach' = mach
     \/ /\ Terminate([sess EXCEPT !.serving = v.serving], v.runs, Verdict)
        /\ \A i \in DOMAIN v.conts : v.conts[i].st \notin PENDING_CONTENDER_STATES

LEMMA ResolvedRow ==
  ASSUME NEW c \in ContRows, NEW i, NEW serving, NEW expired
  PROVE  Resolved(i, c, serving, expired) \in ContRows
<1>1. \A st \in {"SKIPPED", "VALIDATED", "FAILED"} : [c EXCEPT !.st = st] \in ContRows
  BY DEF ContRows, ContenderStates
<1>2. \/ Resolved(i, c, serving, expired) = c
      \/ \E st \in {"SKIPPED", "VALIDATED", "FAILED"} : Resolved(i, c, serving, expired) = [c EXCEPT !.st = st]
  BY DEF Resolved
<1> QED BY <1>1, <1>2

LEMMA AdvanceValidatingForms ==
  ASSUME SInv, AdvanceValidating PROVE \E v : Validates(v)
<1>0. sess.status = "VALIDATING"
  BY DEF AdvanceValidating
<1>1. PICK expired \in BOOLEAN :
       LET cs == [i \in DOMAIN conts |-> Resolved(i, conts[i], sess.serving, expired)]
           serving == IF sess.serving # 0 /\ cs[sess.serving].st # "SERVING" THEN 0 ELSE sess.serving
           ref == {i \in Own(runs) : runs[i].ref}
           wantRef == /\ knobs.production /\ ref = {}
                      /\ \E i \in DOMAIN cs : cs[i].st \in {"REGISTERED", "SERVING", "VALIDATED"}
           w == IF wantRef \/ \E i \in DOMAIN cs : cs[i].st = "REGISTERED"
                THEN LaunchValidations(cs, serving, wantRef)
                ELSE [conts |-> cs, runs |-> runs, serving |-> serving, waiting |-> FALSE]
           s == [sess EXCEPT !.serving = w.serving]
       IN  /\ conts' = w.conts
           /\ IF w.waiting \/ ~Landed(w.conts, ref)
              THEN sess' = s /\ runs' = w.runs /\ UNCHANGED <<box, token, mach, camp>>
              ELSE Terminate(s, w.runs, Verdict)
  BY Zenon DEF AdvanceValidating
<1> DEFINE cs == [i \in DOMAIN conts |-> Resolved(i, conts[i], sess.serving, expired)]
           serving == IF sess.serving # 0 /\ cs[sess.serving].st # "SERVING" THEN 0 ELSE sess.serving
           ref == {i \in Own(runs) : runs[i].ref}
           wantRef == /\ knobs.production /\ ref = {}
                      /\ \E i \in DOMAIN cs : cs[i].st \in {"REGISTERED", "SERVING", "VALIDATED"}
           some == wantRef \/ \E i \in DOMAIN cs : cs[i].st = "REGISTERED"
           idle == [conts |-> cs, runs |-> runs, serving |-> serving, waiting |-> FALSE]
           w == IF some THEN LaunchValidations(cs, serving, wantRef) ELSE idle
<1>2. /\ conts' = w.conts
      /\ IF w.waiting \/ ~Landed(w.conts, ref)
         THEN /\ sess' = [sess EXCEPT !.serving = w.serving] /\ runs' = w.runs
              /\ UNCHANGED <<box, token, mach, camp>>
         ELSE Terminate([sess EXCEPT !.serving = w.serving], w.runs, Verdict)
  BY <1>1
<1>3. cs \in Seq(ContRows)
  <2>1. conts \in Seq(ContRows)
    BY DEF SInv, Shapes
  <2>2. DOMAIN conts = 1..Len(conts) /\ Len(conts) \in Nat
    BY <2>1, LenProperties
  <2>3. \A i \in DOMAIN conts : conts[i] \in ContRows
    BY <2>1, <2>2
  <2>4. cs \in [1..Len(conts) -> ContRows]
    BY <2>2, <2>3, ResolvedRow
  <2> QED BY <2>2, <2>4
<1>4. serving \in Nat
  BY DEF SInv, Shapes, SessRows
<1> HIDE DEF cs, serving, wantRef, ref
<1>5. /\ PassOK(cs, w) /\ (w.runs = runs \/ Settled)
      /\ w.waiting \/ \A i \in DOMAIN cs : w.conts[i].st # "REGISTERED"
  <2>1. CASE some
    BY <1>0, <1>3, <1>4, <2>1, LaunchValidationsKeeps
  <2>2. CASE ~some
    <3>1. w = idle
      BY <2>2
    <3> HIDE DEF w
    <3>2. idle.conts = cs /\ idle.runs = runs /\ \A i \in DOMAIN cs : cs[i].st # "REGISTERED"
      BY <2>2
    <3>3. idle \in PassRows
      <4>1. PICK A, B : A = Seq(ContRows) /\ B = Seq(RunRows)
        OBVIOUS
      <4>2. cs \in A /\ runs \in B
        BY <1>3, <4>1 DEF SInv, Shapes
      <4>3. idle \in [conts : A, runs : B, serving : Nat, waiting : BOOLEAN]
        BY <1>4, <4>2
      <4> HIDE DEF idle
      <4> QED BY <4>1, <4>3 DEF PassRows
    <3> HIDE DEF idle
    <3>4. /\ ~sess.asked => \A i \in DOMAIN runs : ~runs[i].past
          /\ Sole(runs, other, knobs.shares \/ sess.asked)
      BY UndisturbedParts DEF SInv, NightOK
    <3>5. PassOK(cs, idle)
      BY <3>2, <3>3, <3>4 DEF PassOK
    <3> QED BY <3>1, <3>2, <3>5
  <2> QED BY <2>1, <2>2
<1> HIDE DEF w
<1>6. PassOK(w.conts, w) /\ DOMAIN w.conts = DOMAIN cs /\ w.waiting \in BOOLEAN
  BY <1>5 DEF PassOK, PassRows
<1>7. ~w.waiting /\ Landed(w.conts, ref) =>
        \A i \in DOMAIN w.conts : w.conts[i].st \notin PENDING_CONTENDER_STATES
  BY <1>5, <1>6 DEF Landed, PENDING_CONTENDER_STATES
<1>8. Validates(w)
  BY <1>2, <1>5, <1>6, <1>7 DEF Validates
<1> QED BY <1>8

LEMMA AdvanceValidatingKeeps ==
  ASSUME SInv, Overtakes, Calm, AdvanceValidating PROVE SInv'
<1>0. sess.status = "VALIDATING" /\ sess \in SessRows /\ sess.placed
  BY DEF AdvanceValidating, SInv, Shapes, NightOK, Started
<1>1. PICK v : Validates(v)
  BY AdvanceValidatingForms
<1>2. /\ v \in PassRows /\ Standing(runs) \subseteq Standing(v.runs) /\ (v.runs = runs \/ Settled)
      /\ ~sess.asked => \A i \in DOMAIN v.runs : ~v.runs[i].past
      /\ Sole(v.runs, other, knobs.shares \/ sess.asked)
      /\ conts' = v.conts
  BY <1>1 DEF Validates, PassOK
<1>3. v.conts \in Seq(ContRows) /\ v.runs \in Seq(RunRows) /\ v.serving \in Nat
  BY <1>2 DEF PassRows
<1>4. PICK s : s = [sess EXCEPT !.serving = v.serving]
  OBVIOUS
<1>5. /\ s \in SessRows /\ s.status = "VALIDATING" /\ s.placed /\ s.asked = sess.asked
  BY <1>0, <1>3, <1>4 DEF SessRows
<1>6. /\ runs' = v.runs /\ sess' \in SessRows /\ sess'.asked = sess.asked /\ sess'.placed
      /\ \/ sess'.status = "VALIDATING" /\ mach' = mach
         \/ sess'.status \in {"DONE", "FAILED"} /\ mach' = ReleaseIfIdle(sess', runs')
  <2>1. CASE sess' = [sess EXCEPT !.serving = v.serving] /\ runs' = v.runs /\ mach' = mach
    BY <1>4, <1>5, <2>1
  <2>2. CASE Terminate([sess EXCEPT !.serving = v.serving], v.runs, Verdict)
    <3>1. Terminate(s, v.runs, Verdict)
      BY <1>4, <2>2
    <3>2. Verdict \in {"DONE", "FAILED"}
      BY DEF Verdict
    <3>3. /\ sess' = [s EXCEPT !.status = Verdict] /\ runs' = v.runs
          /\ mach' = ReleaseIfIdle([s EXCEPT !.status = Verdict], v.runs)
      BY <1>5, <3>1 DEF Terminate
    <3>4. sess' \in SessRows /\ sess'.asked = s.asked /\ sess'.placed = s.placed /\ sess'.status = Verdict
      BY <1>5, <3>2, <3>3, ToStatus DEF SessionStates, TERMINAL_SESSION_STATES
    <3> QED BY <1>5, <3>2, <3>3, <3>4
  <2> QED BY <1>1, <2>1, <2>2 DEF Validates
<1>7. req'.kind # "launch" /\ req' \in Requests
  <2>1. req'.kind = "launch" => req.kind = "launch" /\ ~req.over
    BY TickRequest DEF Overtakes
  <2> QED BY <1>0, <2>1, TickRequest DEF SInv, FreshRequest, Exploring
<1>8. Shapes'
  <2>1. mach' \in {"AVAILABLE", "RESERVED"}
    BY <1>6, Released DEF SInv, Shapes
  <2> QED BY <1>2, <1>3, <1>6, <1>7, <2>1 DEF SInv, Shapes, Calm
<1>9. NightOK'
  BY <1>2, <1>6 DEF NightOK, Early
<1>10. NoneYet' /\ FreshRequest'
  BY <1>6, <1>7 DEF NoneYet, FreshRequest, Early
<1>11. Alone'
  <2>1. ~knobs.shares /\ ~sess.asked => other # "live"
    BY <1>0 DEF SInv, Alone, Started
  <2>2. ~knobs.shares /\ ~sess.asked /\ Validated(runs) => other = "none"
    BY <1>0 DEF SInv, Alone, Started
  <2>3. ~knobs.shares /\ ~sess.asked /\ Validated(runs') => other = "none"
    BY <1>2, <1>6, <2>2 DEF Settled
  <2>4. ~knobs'.shares /\ ~sess'.asked => other' # "live" /\ (Validated(runs') => other' = "none")
    BY <1>6, <2>1, <2>3 DEF Calm
  <2> QED BY <2>4 DEF Alone, Validated
<1>12. ValidationUndisturbed'
  <2>1. Sole(runs', other', knobs'.shares \/ sess'.asked)
    BY <1>2, <1>6 DEF Calm
  <2> QED BY <2>1, UndisturbedPartsNext
<1>13. HeldForTheNight'
  <2>1. ~sess.asked => mach = "RESERVED"
    BY <1>0 DEF SInv, HeldForTheNight, Started
  <2>2. CASE sess'.status = "VALIDATING" /\ mach' = mach
    BY <1>6, <2>1, <2>2 DEF HeldForTheNight, Started
  <2>3. CASE sess'.status \in {"DONE", "FAILED"} /\ mach' = ReleaseIfIdle(sess', runs')
    <3>1. mach' = "RESERVED" => Standing(runs') # {} \/ other' # "none"
      BY <2>3 DEF ReleaseIfIdle, Standing, Calm, Started
    <3> QED BY <2>3, <3>1 DEF HeldForTheNight, Started, Standing, LiveRuns, Dying
  <2> QED BY <1>6, <2>2, <2>3
<1> QED BY <1>8, <1>9, <1>10, <1>11, <1>12, <1>13 DEF SInv


(***************************************************************************)
(* An operator's validation, and the other tenant.                         *)
(***************************************************************************)
LEMMA SameStanding ==
  ASSUME NEW rs, NEW ss, DOMAIN ss = DOMAIN rs,
         \A i \in DOMAIN rs : /\ ss[i].kind = rs[i].kind /\ ss[i].cards = rs[i].cards
                              /\ (LiveRun(ss[i]) <=> LiveRun(rs[i])) /\ ss[i].dying = rs[i].dying,
         NEW o, NEW allowed, Sole(rs, o, allowed)
  PROVE  Sole(ss, o, TRUE)
<1>1. /\ Standing(ss) = Standing(rs) /\ Validations(ss) = Validations(rs)
      /\ Standing(rs) \subseteq DOMAIN rs /\ Validations(rs) \subseteq DOMAIN rs
  BY SMT DEF Standing, Validations, LiveRuns, Dying
<1>2. \A i \in DOMAIN rs : ss[i].cards = rs[i].cards /\ (Launched(ss[i]) <=> Launched(rs[i]))
  BY DEF Launched
<1>3. Apart(rs) => Apart(ss)
  BY <1>1, <1>2, SMT DEF Apart
<1>4. Clear(rs) => Clear(ss)
  BY <1>1, <1>2, SMT DEF Clear
<1> QED BY <1>3, <1>4 DEF Sole

LEMMA ValidateConfigsKeeps ==
  ASSUME SInv, Calm, ValidateConfigs PROVE SInv'
<1>1. PICK n \in 1..knobs.contenders : \E list \in [1..n -> knobs.validates] :
        conts' = [k \in DOMAIN list |-> [rank |-> k, cfg |-> list[k], st |-> "REGISTERED", run |-> 0]]
  BY Zenon DEF ValidateConfigs
<1>2. PICK list \in [1..n -> knobs.validates] :
        conts' = [k \in DOMAIN list |-> [rank |-> k, cfg |-> list[k], st |-> "REGISTERED", run |-> 0]]
  BY <1>1
<1>3. conts' \in Seq(ContRows)
  <2>1. n \in Nat /\ knobs.validates \subseteq Configs
    BY DEF SInv, Shapes, Knobs
  <2>2. conts' \in [1..n -> ContRows]
    BY <1>2, <2>1 DEF ContRows, ContenderStates
  <2> QED BY <2>1, <2>2
<1>4. sess' \in SessRows /\ sess'.status = "VALIDATING" /\ sess'.placed /\ sess'.asked
  BY DEF ValidateConfigs, NoSession, SessRows, SessionStates, NoCards
<1>5. runs' = [i \in DOMAIN runs |-> [runs[i] EXCEPT !.past = TRUE]] /\ runs \in Seq(RunRows)
  BY DEF ValidateConfigs, SInv, Shapes
<1>6. DOMAIN runs' = DOMAIN runs
  BY <1>5
<1>7. ASSUME NEW i \in DOMAIN runs
      PROVE  /\ runs'[i] \in RunRows /\ runs'[i].kind = runs[i].kind /\ runs'[i].cards = runs[i].cards
             /\ (LiveRun(runs'[i]) <=> LiveRun(runs[i])) /\ runs'[i].dying = runs[i].dying
  <2>1. PICK r \in RunRows : r = runs[i]
    BY <1>5, ARow
  <2>2. PICK x : x = [r EXCEPT !.past = TRUE]
    OBVIOUS
  <2>3. /\ x \in RunRows /\ x.kind = r.kind /\ x.cards = r.cards
        /\ (LiveRun(x) <=> LiveRun(r)) /\ x.dying = r.dying
    BY <2>2, RowFlags
  <2>4. runs'[i] = x
    BY <1>5, <2>1, <2>2
  <2> QED BY <2>1, <2>3, <2>4
<1>8. runs' \in Seq(RunRows)
  <2>1. DOMAIN runs = 1..Len(runs) /\ Len(runs) \in Nat
    BY <1>5, LenProperties
  <2>2. runs' \in [1..Len(runs) -> RunRows]
    BY <1>5, <1>7, <2>1
  <2> QED BY <2>1, <2>2
<1>9. UNCHANGED <<mach, other, req>> /\ req.kind = "none"
  BY DEF ValidateConfigs
<1>10. Shapes'
  BY <1>3, <1>4, <1>8, <1>9 DEF SInv, Shapes, Calm
<1>11. NightOK' /\ NoneYet' /\ FreshRequest' /\ Alone'
  BY <1>4, <1>9 DEF NightOK, NoneYet, FreshRequest, Alone, Early
<1>12. ValidationUndisturbed'
  <2>1. Sole(runs, other, knobs.shares \/ sess.asked)
    BY UndisturbedParts DEF SInv
  <2>2. PICK a : a = (knobs.shares \/ sess.asked)
    OBVIOUS
  <2>3. Sole(runs, other, a)
    BY <2>1, <2>2
  <2>4. Sole(runs', other, TRUE)
    BY <1>6, <1>7, <2>3, SameStanding
  <2>5. Sole(runs', other', knobs'.shares \/ sess'.asked)
    BY <1>4, <1>9, <2>4 DEF Sole
  <2> QED BY <2>5, UndisturbedPartsNext
<1>13. HeldForTheNight'
  BY <1>4 DEF HeldForTheNight, Started
<1> QED BY <1>10, <1>11, <1>12, <1>13 DEF SInv

\* The other tenant comes or goes: who may be there is the same, or fewer.
LEMMA OtherKeeps ==
  ASSUME SInv, knobs' = knobs, UNCHANGED <<sess, conts, runs, req>>,
         mach' \in {"AVAILABLE", "RESERVED"}, other' \in {"none", "live", "dying"},
         Sole(runs, other', knobs.shares \/ sess.asked), Alone', HeldForTheNight'
  PROVE  SInv'
<1>1. Shapes' /\ NightOK' /\ NoneYet' /\ FreshRequest'
  BY DEF SInv, Shapes, NightOK, NoneYet, FreshRequest, Exploring, Validated
<1>2. ValidationUndisturbed'
  BY UndisturbedPartsNext
<1> QED BY <1>1, <1>2 DEF SInv

LEMMA OtherStartsKeeps ==
  ASSUME SInv, knobs' = knobs, OtherStarts PROVE SInv'
<1>1. /\ other = "none" /\ other' = "live" /\ mach' = "RESERVED" /\ UNCHANGED <<sess, conts, runs, req>>
      /\ knobs.shares \/ Standing(runs) = {}
      /\ Holding(sess) => knobs.shares
      /\ knobs.shares => \A i \in Standing(runs) : runs[i].cards \cap OtherCards = {}
  BY DEF OtherStarts, Standing, Holding
<1>2. Sole(runs, other, knobs.shares \/ sess.asked)
  BY UndisturbedParts DEF SInv
<1>3. Validations(runs) \subseteq Standing(runs)
  BY DEF Validations, Standing
<1>4. Clear(runs) /\ (Validations(runs) # {} => knobs.shares)
  BY <1>1, <1>3 DEF Clear
<1>5. Sole(runs, other', knobs.shares \/ sess.asked)
  BY <1>2, <1>4 DEF Sole
<1>6. Alone'
  <2>1. sess.status \in Started => Holding(sess)
    BY DEF SInv, NightOK, Holding
  <2>2. ~knobs'.shares => ~Holding(sess') /\ sess'.status \notin Started
    BY <1>1, <2>1
  <2> QED BY <2>2 DEF Alone, Holding
<1>7. HeldForTheNight'
  BY <1>1 DEF HeldForTheNight
<1> QED BY <1>1, <1>5, <1>6, <1>7, OtherKeeps

LEMMA OtherEndsKeeps ==
  ASSUME SInv, knobs' = knobs, OtherEnds PROVE SInv'
<1>1. /\ other # "none" /\ other' = (IF other = "live" THEN "dying" ELSE "none")
      /\ UNCHANGED <<sess, conts, runs, req>>
      /\ mach' = IF other = "dying" /\ mach = "RESERVED" /\ Standing(runs) = {} /\ ~Holding(sess)
                 THEN "AVAILABLE" ELSE mach
      /\ other \in {"none", "live", "dying"} /\ mach \in {"AVAILABLE", "RESERVED"}
  BY DEF OtherEnds, Standing, Holding, SInv, Shapes
<1>2. Sole(runs, other, knobs.shares \/ sess.asked)
  BY UndisturbedParts DEF SInv
<1>3. Sole(runs, other', knobs.shares \/ sess.asked)
  BY <1>1, <1>2 DEF Sole
<1>4. Alone'
  <2>1. ~knobs.shares /\ ~sess.asked => ~(sess.status \in Started /\ Validated(runs))
    BY <1>1 DEF SInv, Alone
  <2>2. ~knobs'.shares /\ ~sess'.asked => other' # "live" /\ ~(sess'.status \in Started /\ Validated(runs'))
    BY <1>1, <2>1
  <2> QED BY <2>2 DEF Alone, Validated
<1>5. HeldForTheNight'
  <2>1. sess.status \in Started => Holding(sess)
    BY DEF SInv, NightOK, Holding
  <2>2. sess'.status \in Started /\ ~sess'.asked => mach' = "RESERVED"
    BY <1>1, <2>1 DEF SInv, HeldForTheNight
  <2>3. mach' = "RESERVED" => Holding(sess') \/ Standing(runs') # {} \/ other' # "none"
    BY <1>1
  <2> QED BY <2>2, <2>3 DEF HeldForTheNight, Holding, Standing, LiveRuns, Dying
<1>6. mach' \in {"AVAILABLE", "RESERVED"} /\ other' \in {"none", "live", "dying"}
  BY <1>1
<1> QED BY <1>1, <1>3, <1>4, <1>5, <1>6, OtherKeeps

(***************************************************************************)
(* The theorems.                                                           *)
(***************************************************************************)
LEMMA InitInv == ASSUME Init PROVE SInv
<1>1. runs = <<>> /\ conts = <<>> /\ req = NoRequest /\ sess = NoSession /\ mach = "AVAILABLE" /\ other = "none"
  BY DEF Init
<1>2. Shapes
  <2>1. sess \in SessRows
    BY <1>1 DEF NoSession, SessRows, SessionStates, Early, NoCards
  <2>2. knobs \in Knobs
    BY CampaignAssumption DEF Init
  <2> QED BY <1>1, <2>1, <2>2 DEF Shapes, Requests
<1>3. sess.status = "ABSENT" /\ ~sess.placed /\ ~sess.asked /\ req.kind = "none" /\ DOMAIN runs = {}
  <2>1. sess.status = "ABSENT" /\ ~sess.placed /\ ~sess.asked
    BY <1>1 DEF NoSession
  <2>2. req.kind = "none"
    BY <1>1 DEF NoRequest
  <2>3. DOMAIN runs = {}
    BY <1>1
  <2> QED BY <2>1, <2>2, <2>3
<1>4. NightOK /\ NoneYet /\ FreshRequest /\ Alone
  BY <1>1, <1>3 DEF NightOK, NoneYet, FreshRequest, Alone, Validated, Started
<1>5. ValidationUndisturbed /\ HeldForTheNight
  BY <1>1, <1>3 DEF ValidationUndisturbed, HeldForTheNight, LiveRuns, Started
<1> QED BY <1>2, <1>4, <1>5 DEF SInv

LEMMA VerdictType == Verdict \in TERMINAL_SESSION_STATES
BY DEF Verdict, TERMINAL_SESSION_STATES

LEMMA TickInv == ASSUME SInv, Tick, knobs' = knobs PROVE SInv'
<1>1. Overtakes /\ Calm
  BY DEF Tick, Calm
<1>2. CASE EnsureSession
  BY <1>1, <1>2, EnsureSessionQuiet, QuietKeeps
<1>3. CASE TryReserve
  BY <1>1, <1>3, TryReserveKeeps
<1>4. CASE sess.status \in Started \cup {"PENDING"} /\ AdvanceOne
  <2>1. CASE KillAndTerminate("ABORTED")
    BY <1>1, <1>4, <2>1, KillAndTerminateQuiet, QuietKeeps DEF TERMINAL_SESSION_STATES
  <2>2. CASE KillAndTerminate(Verdict)
    BY <1>1, <1>4, <2>2, VerdictType, KillAndTerminateQuiet, QuietKeeps
  <2>3. CASE AdvancePending
    BY <1>1, <2>3, AdvancePendingQuiet, QuietKeeps
  <2>4. CASE CrashInLaunch
    BY <1>1, <2>4, CrashInLaunchQuiet, QuietKeeps
  <2>5. CASE AdvanceStarting
    BY <1>1, <2>5, AdvanceStartingQuiet, QuietKeeps
  <2>6. CASE AdvanceSearching
    BY <1>1, <2>6, AdvanceSearchingQuiet, QuietKeeps
  <2>7. CASE AdvanceFinalizing
    BY <1>1, <2>7, AdvanceFinalizingQuiet, QuietKeeps
  <2>8. CASE AdvanceValidating
    BY <1>1, <2>8, AdvanceValidatingKeeps
  <2> QED BY <1>4, <2>1, <2>2, <2>3, <2>4, <2>5, <2>6, <2>7, <2>8 DEF AdvanceOne
<1> QED BY <1>2, <1>3, <1>4 DEF Tick

LEMMA NextInv == ASSUME SInv, [Next]_vars PROVE SInv'
<1>1. CASE Tick /\ UNCHANGED knobs
  BY <1>1, TickInv
<1>2. CASE AdvanceRuns /\ UNCHANGED knobs
  BY <1>2, AdvanceRunsQuiet, QuietKeeps DEF AdvanceRuns, Calm
<1>3. CASE Policy /\ UNCHANGED knobs
  <2>1. Calm
    BY <1>3 DEF Policy, Calm
  <2>2. CASE Heartbeat
    BY <2>1, <2>2, HeartbeatQuiet, QuietKeeps
  <2>3. CASE Finalized
    BY <2>1, <2>3, FinalizedQuiet, QuietKeeps
  <2>4. CASE ReleaseLaunch
    BY <2>1, <2>4, ReleaseLaunchQuiet, QuietKeeps
  <2>5. CASE CancelBenchmark
    BY <2>1, <2>5, CancelBenchmarkQuiet, QuietKeeps
  <2>6. CASE ReadRequest
    BY <2>1, <2>6, ReadRequestQuiet, QuietKeeps
  <2>7. CASE CommitRequest
    BY <2>1, <2>7, CommitRequestKeeps
  <2> QED BY <1>3, <2>2, <2>3, <2>4, <2>5, <2>6, <2>7 DEF Policy
<1>4. CASE AbortSession /\ UNCHANGED knobs
  BY <1>4, AbortSessionQuiet, QuietKeeps DEF AbortSession, Calm
<1>5. CASE ForceStop /\ UNCHANGED knobs
  BY <1>5, ForceStopQuiet, QuietKeeps DEF ForceStop, Calm
<1>6. CASE ValidateConfigs /\ UNCHANGED knobs
  BY <1>6, ValidateConfigsKeeps DEF ValidateConfigs, Calm
<1>7. CASE Environment /\ UNCHANGED knobs
  <2>1. CASE ContainerStops \/ FallsSilent \/ TimePasses \/ WindowMoves
    <3>1. Calm
      BY <1>7, <2>1 DEF ContainerStops, FallsSilent, TimePasses, WindowMoves, Calm
    <3> QED BY <2>1, <3>1, OutsideQuiet, QuietKeeps
  <2>2. CASE OtherStarts
    BY <1>7, <2>2, OtherStartsKeeps
  <2>3. CASE OtherEnds
    BY <1>7, <2>3, OtherEndsKeeps
  <2> QED BY <1>7, <2>1, <2>2, <2>3 DEF Environment
<1>8. CASE UNCHANGED vars
  BY <1>8 DEF vars, SInv, Shapes, NightOK, NoneYet, FreshRequest, Alone, Validated, Exploring,
     ValidationUndisturbed, HeldForTheNight, LiveRuns, Dying
<1> QED BY <1>1, <1>2, <1>3, <1>4, <1>5, <1>6, <1>7, <1>8 DEF Next

\* The invariant of a night.
THEOREM NightInvariant == Spec => []SInv
<1>1. Init => SInv
  BY InitInv
<1>2. SInv /\ [Next]_vars => SInv'
  BY NextInv
<1> QED BY <1>1, <1>2, PTL DEF Spec

\* A validation measures its config alone on its cards, whatever request the
\* tick that ended the search overtook (_validation_cards, _teardown_blocking).
THEOREM ValidationsUndisturbed == Spec => []ValidationUndisturbed
<1>1. SInv => ValidationUndisturbed
  BY DEF SInv
<1> QED BY <1>1, NightInvariant, PTL

\* The machine is held from the container's launch to the end of the session,
\* and no longer than something stands on it (_release_machine_if_idle).
THEOREM MachineHeldForTheNight == Spec => []HeldForTheNight
<1>1. SInv => HeldForTheNight
  BY DEF SInv
<1> QED BY <1>1, NightInvariant, PTL


Judged ==
  sess.status \notin TERMINAL_SESSION_STATES /\ sess'.status \in {"DONE", "FAILED"} /\ ~CutOff =>
    \A i \in DOMAIN conts' : conts'[i].st \notin PENDING_CONTENDER_STATES

\* A step that is no tick ends no session.
LEMMA OnlyTicksEnd ==
  ASSUME SInv, Next, ~Tick, sess.status \notin TERMINAL_SESSION_STATES
  PROVE  sess'.status \notin TERMINAL_SESSION_STATES
<1>0. sess \in SessRows
  BY DEF SInv, Shapes
<1>1. CASE AdvanceRuns
  BY <1>1 DEF AdvanceRuns
<1>2. CASE Policy
  <2>1. CASE Heartbeat \/ Finalized
    BY <1>0, <2>1 DEF Heartbeat, Finalized, SessRows
  <2>2. CASE ReleaseLaunch \/ CancelBenchmark \/ ReadRequest
    BY <2>2 DEF ReleaseLaunch, CancelBenchmark, ReadRequest
  <2>3. CASE CommitRequest
    <3>1. sess' = sess \/ sess' = MarkActivity(sess)
      BY <2>3 DEF CommitRequest, CommitContenders, CommitLaunch, CommitBench, CommitExternal, CommitServing
    <3> QED BY <1>0, <3>1 DEF MarkActivity, SessRows
  <2> QED BY <1>2, <2>1, <2>2, <2>3 DEF Policy
<1>3. CASE AbortSession
  BY <1>0, <1>3 DEF AbortSession, SessRows
<1>4. CASE ForceStop
  BY <1>0, <1>4 DEF ForceStop, SessRows
<1>5. CASE ValidateConfigs
  BY <1>5 DEF ValidateConfigs, NoSession, TERMINAL_SESSION_STATES
<1>6. CASE Environment
  BY <1>0, <1>6 DEF Environment, ContainerStops, FallsSilent, TimePasses, WindowMoves, OtherStarts,
     OtherEnds, SessRows
<1> QED BY <1>1, <1>2, <1>3, <1>4, <1>5, <1>6 DEF Next

LEMMA StepJudges == ASSUME SInv, [Next]_vars PROVE Judged
<1> SUFFICES ASSUME sess.status \notin TERMINAL_SESSION_STATES, sess'.status \in {"DONE", "FAILED"}, ~CutOff
             PROVE  \A i \in DOMAIN conts' : conts'[i].st \notin PENDING_CONTENDER_STATES
  BY DEF Judged
<1>0. sess \in SessRows /\ sess'.status \in TERMINAL_SESSION_STATES /\ sess'.status # "ABORTED"
  BY DEF SInv, Shapes, TERMINAL_SESSION_STATES
<1>1. Tick
  <2>1. Next
    BY <1>0 DEF vars
  <2> QED BY <1>0, <2>1, OnlyTicksEnd
<1>2. ~EnsureSession /\ ~TryReserve
  BY <1>0 DEF EnsureSession, TryReserve, SessRows, TERMINAL_SESSION_STATES
<1>3. ~KillAndTerminate("ABORTED")
  BY <1>0 DEF KillAndTerminate, Terminate, SessRows
<1>4. ~CrashInLaunch /\ ~AdvanceFinalizing
  BY <1>0 DEF CrashInLaunch, AdvanceFinalizing, SessRows, TERMINAL_SESSION_STATES
<1>5. ASSUME NEW reason PROVE ~FailTowardValidation(reason)
  BY <1>0 DEF FailTowardValidation, SessRows, TERMINAL_SESSION_STATES
<1>6. ASSUME NEW s \in SessRows, NEW reason PROVE ~BeginFinalizing(s, reason)
  BY <1>0 DEF BeginFinalizing, SessRows, TERMINAL_SESSION_STATES
<1>7. ~AdvanceStarting
  BY <1>0, <1>5 DEF AdvanceStarting, SessRows, TERMINAL_SESSION_STATES
<1>8. ~AdvanceSearching
  <2>1. ~BeginFinalizing(sess, "policy_exhausted") /\ ~BeginFinalizing(sess, "other")
    BY <1>0, <1>6
  <2>2. [sess EXCEPT !.fail = TRUE] \in SessRows
    BY <1>0 DEF SessRows
  <2>3. ~BeginFinalizing([sess EXCEPT !.fail = TRUE], "other")
    BY <1>6, <2>2
  <2>4. ~IdleWatchdog
    <3>1. PICK s : s = [sess EXCEPT !.strikes = @ + 1]
      OBVIOUS
    <3>2. s \in SessRows /\ s.status = sess.status
      <4>1. sess.strikes \in Nat
        BY <1>0 DEF SessRows
      <4>2. PICK n \in Nat : n = sess.strikes + 1
        BY <4>1
      <4>3. s = [sess EXCEPT !.strikes = n]
        BY <3>1, <4>2
      <4> QED BY <1>0, <4>3 DEF SessRows
    <3>3. IdleWatchdog => BeginFinalizing(s, "other") \/ sess' = s
      BY <3>1 DEF IdleWatchdog
    <3> QED BY <1>0, <1>6, <3>2, <3>3
  <2> HIDE DEF BeginFinalizing, FailTowardValidation, IdleWatchdog
  <2> QED BY <1>5, <2>1, <2>3, <2>4 DEF AdvanceSearching
<1>9. AdvancePending \/ AdvanceValidating
  <2>1. AdvanceOne
    BY <1>1, <1>2 DEF Tick
  <2> QED BY <1>3, <1>4, <1>7, <1>8, <2>1 DEF AdvanceOne
<1>10. CASE AdvancePending
  <2>1. conts' = conts /\ conts = <<>>
    BY <1>10 DEF AdvancePending, SInv, NightOK
  <2> QED BY <2>1
<1>11. CASE AdvanceValidating
  <2>1. PICK v : Validates(v)
    BY <1>11, AdvanceValidatingForms
  <2>2. sess' # [sess EXCEPT !.serving = v.serving]
    BY <1>0 DEF SessRows
  <2> QED BY <2>1, <2>2 DEF Validates
<1> QED BY <1>9, <1>10, <1>11

\* A session that ends by itself leaves no contender without a verdict: the
\* queue holds every registered contender, the pass goes through all of it
\* unless it is left waiting, and the night ends when no measurement is under
\* way (_advance_validating).
THEOREM ContendersJudged == Spec => EveryContenderJudged
<1>1. SInv /\ [Next]_vars => [Judged]_vars
  BY StepJudges
<1>2. EveryContenderJudged <=> [][Judged]_vars
  BY DEF EveryContenderJudged, Judged
<1> QED BY <1>1, <1>2, NightInvariant, PTL DEF Spec
=============================================================================

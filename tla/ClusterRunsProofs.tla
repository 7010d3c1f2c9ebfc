-------------------------- MODULE ClusterRunsProofs --------------------------
(***************************************************************************)
(* Runs on a cluster, for every number of runs and every site: a run that  *)
(* is over has left nothing behind (OverIsClean), the fixed port leads to   *)
(* the run that was given it (PortLeadsHome), and a run is submitted twice  *)
(* only after a loss (SubmittedOnce).                                       *)
(***************************************************************************)
EXTENDS ClusterRuns, TLAPS, WellFoundedInduction

(***************************************************************************)
(* The inductive invariant.                                                *)
(***************************************************************************)
Fresh == {"absent", "PENDING"}
Up == {"LAUNCHING", "WAITING_READY", "HEALTH_CHECK", "BENCHING", "SERVING"}
\* Before the benchmark platform knows of the run.
Early == Fresh \cup {"LAUNCHING", "WAITING_READY", "HEALTH_CHECK"}

Rows ==
  [st : RunStatus \cup {"absent"}, tp : BOOLEAN, ep : {"", "own", "port"},
   wait : {"", "NODE_PORT", "CARDS"}, age : 0..2, sub : Nat, inc : Int,
   stop : BOOLEAN, release : BOOLEAN, quit : BOOLEAN]
Pods ==
  {"none", "queued", "unplaceable", "pulling", "badimage", "badmount", "running", "ready",
   "exited", "restarted"}
Phases == {"", "Pending", "Starting", "Ready", "Failed", "Expired"}
Objs ==
  [prim : {"none", "live", "deleting"}, work : BOOLEAN,
   svc : {"none", "claim", "own", "deleting"}, owned : BOOLEAN, phase : Phases,
   seen : BOOLEAN, old : BOOLEAN, pod : Pods, inc : Nat]
TypeOK ==
  /\ site \in Sites
  /\ saved \in [Runs -> Rows] /\ row \in [Runs -> Rows]
  /\ obj \in [Runs -> Objs]
  /\ subm \in [Runs -> [n : Nat, on : SUBSET Nat]]
  /\ spent \in [faults : Nat, crashes : Nat, upsets : Nat]

\* The tick is at a run its stage has something to do with; between ticks the
\* session's rows are the committed ones.
StageNames == {"reconcile", "stop", "place", "advance", "reap"}
Done == [at |-> "commit", run |-> 0]
TurnAt(t, rows) ==
  \/ t = Idle \/ t = Done
  \/ t \in [at : StageNames, run : Runs] /\ Concerns(t.at, t.run, rows)
TurnOK == TurnAt(turn, row) /\ (turn = Idle => row = saved)

\* Only a run that is over is torn down, and only where the port is fixed
\* does a row name it.
RowOK(rw) == (rw.tp => Terminal(rw)) /\ (rw.ep = "port" => HasFixedService)
\* A run that is over, torn down and not given up on has left nothing.
Settled(rw) == Terminal(rw) /\ ~rw.tp
Cleared(rw, o) == Settled(rw) /\ ~rw.quit => o.prim = "none" /\ released(o)
RowsOK ==
  \A r \in Runs :
    /\ RowOK(row[r]) /\ RowOK(saved[r]) /\ Cleared(row[r], obj[r])
    /\ Settled(saved[r]) => row[r] = saved[r]

\* The API server gives the fixed port to one Service at a time.
OnePort ==
  HasFixedService => \A r, q \in Runs : r # q => obj[r].svc = "none" \/ obj[q].svc = "none"

\* While no tick is lost a run has no Service before its launch, and from its
\* launch on nobody takes it away.
Standing(rw, o) ==
  /\ rw.st \in Fresh => o.svc = "none"
  /\ rw.st \in Up => o.prim # "deleting" /\ o.svc \notin {"none", "deleting"}
Undisturbed ==
  spent.crashes = 0 =>
    /\ turn.at # "reconcile"
    /\ HasFixedService => \A r \in Runs : Standing(row[r], obj[r])

\* Each submission a row does not know of was paid for by a loss.
Losses == spent.crashes + spent.faults
Counted ==
  \A r \in Runs : /\ subm[r].n <= 1 + Losses
                  /\ row[r].st \in Early => subm[r].n <= Losses

CInv == TypeOK /\ TurnOK /\ RowsOK /\ OnePort /\ Undisturbed /\ Counted

(***************************************************************************)
(* The operators the model is built from.                                  *)
(***************************************************************************)

\* A site is of one of the three kinds.
LEMMA SiteFacts ==
  ASSUME site \in Sites
  PROVE  /\ site.kind \in {"deployment", "custom", "llmservice"}
         /\ site.fixed \in BOOLEAN /\ HasFixedService \in BOOLEAN
         /\ site.runs \in 1..N /\ site.policy \subseteq Runs
BY SiteAssumption DEF SiteType, HasFixedService

\* A place in the tick is a natural number.
LEMMA OrderType ==
  ASSUME NEW u \in [at : StageNames, run : 0..N]
  PROVE  Order(u) \in Nat
<1>1. Len(Stages) = 5
  BY DEF Stages
<1>2. \E i \in 1..Len(Stages) : Stages[i] = u.at
  BY <1>1 DEF Stages, StageNames
<1> DEFINE stage == CHOOSE i \in 1..Len(Stages) : Stages[i] = u.at
<1>3. stage \in 1..5
  BY <1>1, <1>2
<1> HIDE DEF stage
<1>a. stage \in Nat /\ N + 1 \in Nat
  BY <1>3, NAssumption
<1>4. stage * (N + 1) \in Nat
  BY <1>a
<1>5. u.run \in Nat
  BY NAssumption
<1> QED
  BY <1>4, <1>5 DEF Order, stage

\* The tick goes on with a run its next stage has something to do with, or to
\* its commit, and never from its own stages to the start-up's.
LEMMA AfterFacts ==
  ASSUME NEW t \in [at : StageNames, run : 0..N], NEW rows
  PROVE  /\ TurnAt(After(t, rows), rows) /\ After(t, rows) # Idle
         /\ t.at # "reconcile" => After(t, rows).at # "reconcile"
<1> DEFINE stages == IF t.at = "reconcile" THEN {"reconcile"}
                     ELSE {"stop", "place", "advance", "reap"}
           later == {u \in [at : stages, run : Runs] :
                       Order(t) < Order(u) /\ Concerns(u.at, u.run, rows)}
<1>1. After(t, rows) = IF later = {} THEN Done
                       ELSE CHOOSE u \in later : \A v \in later : Order(u) <= Order(v)
  BY DEF After, Done
<1>2. CASE later = {}
  BY <1>1, <1>2 DEF TurnAt, Done, Idle
<1>3. CASE later # {}
  <2>1. \A u \in later : u \in [at : StageNames, run : 0..N] /\ u.run \in Runs
    BY NAssumption DEF StageNames, Runs
  <2> DEFINE places == {Order(u) : u \in later}
  <2>2. places \subseteq Nat /\ places # {}
    BY <1>3, <2>1, OrderType
  <2> DEFINE Rel == OpToRel(<, Nat)
  <2>3. IsWellFoundedOn(Rel, Nat)
    BY NatLessThanWellFounded
  <2> HIDE DEF places, Rel
  <2>4. PICK p \in places : \A x \in places : ~(<<x, p>> \in Rel)
    BY <2>2, <2>3, WFMin
  <2>a. \A x \in places : ~(x < p)
    BY <2>2, <2>4 DEF Rel, OpToRel
  <2>5. \A x \in places : p <= x
    BY <2>2, <2>a
  <2>6. \E u \in later : \A v \in later : Order(u) <= Order(v)
    BY <2>5 DEF places
  <2> HIDE DEF later
  <2>7. After(t, rows) \in later
    BY <1>1, <1>3, <2>6
  <2>8. /\ After(t, rows) \in [at : stages, run : Runs]
        /\ Concerns(After(t, rows).at, After(t, rows).run, rows)
    BY <2>7 DEF later
  <2>9. After(t, rows).at \in StageNames /\ After(t, rows).at # "idle"
    BY <2>8 DEF StageNames
  <2> QED
    BY <2>8, <2>9 DEF TurnAt, Idle, StageNames
<1> QED
  BY <1>2, <1>3

\* Deleting a Service leaves the rest of the run's objects alone.
LEMMA DeleteServiceFacts ==
  ASSUME NEW o \in Objs, NEW x \in DeleteService(o)
  PROVE  /\ x \in Objs /\ x.prim = o.prim
         /\ x.svc \in {"none", "deleting"} /\ (o.svc = "none" => x.svc = "none")
<1>1. CASE o.svc = "none"
  BY <1>1 DEF DeleteService
<1>2. CASE o.svc # "none"
  <2>1. PICK s \in {"none", "deleting"} : x = [o EXCEPT !.svc = s, !.owned = FALSE]
    BY <1>2 DEF DeleteService
  <2> QED
    BY <1>2, <2>1 DEF Objs
<1> QED
  BY <1>1, <1>2

LEMMA LeftoversFacts ==
  ASSUME NEW o \in Objs, NEW x \in Leftovers(o)
  PROVE  /\ x \in Objs /\ x.prim = o.prim
         /\ (o.svc = "none" => x.svc = "none")
BY DeleteServiceFacts DEF Leftovers

\* Attaching makes no Service, takes none away, and leaves the workload alone.
LEMMA AttachedFacts ==
  ASSUME NEW o \in Objs
  PROVE  /\ Attached(o) \in Objs /\ Attached(o).prim = o.prim
         /\ Attached(o).svc = "none" <=> o.svc = "none"
         /\ Attached(o).svc = "deleting" => o.svc = "deleting"
BY DEF Attached, Objs

LEMMA DeletedFacts ==
  ASSUME site \in Sites, NEW o \in Objs, NEW x \in Deleted(o)
  PROVE  x \in Objs /\ (o.svc = "none" => x.svc = "none")
<1>1. CASE site.kind = "deployment"
  <2>1. [o EXCEPT !.prim = "none", !.work = FALSE] \in Objs
    BY DEF Objs
  <2>2. [o EXCEPT !.prim = "none", !.work = FALSE].svc = o.svc
    BY DEF Objs
  <2> QED
    BY <1>1, <2>1, <2>2, DeleteServiceFacts DEF Deleted
<1>2. CASE site.kind = "custom"
  BY <1>2 DEF Deleted, Objs
<1>3. CASE site.kind = "llmservice"
  <2>1. [o EXCEPT !.prim = "deleting"] \in Objs /\ [o EXCEPT !.prim = "deleting"].svc = o.svc
    BY DEF Objs
  <2> QED
    BY <1>3, <2>1, DeleteServiceFacts DEF Deleted
<1> QED
  BY <1>1, <1>2, <1>3, SiteFacts

\* What is reported clean is gone: a teardown makes no Service either.
LEMMA TeardownsFacts ==
  ASSUME site \in Sites, NEW o \in Objs, NEW t \in Teardowns(o)
  PROVE  /\ t.obj \in Objs /\ t.clean \in BOOLEAN
         /\ t.clean => t.obj.prim = "none" /\ released(t.obj)
         /\ o.svc = "none" => t.obj.svc = "none"
<1>1. \A x : released(x) \in BOOLEAN
  BY DEF released
<1>2. CASE o.prim = "none"
  <2>1. PICK x \in Leftovers(o) : t = [clean |-> released(x), obj |-> x]
    BY <1>2 DEF Teardowns
  <2>2. t.clean = released(x) /\ t.obj = x
    BY <2>1
  <2> QED
    BY <1>1, <1>2, <2>2, LeftoversFacts
<1>3. CASE o.prim # "none"
  <2>1. PICK x \in Deleted(Attached(o)) :
          t \in IF is_gone(x) THEN {[clean |-> released(y), obj |-> y] : y \in Leftovers(x)}
                ELSE {[clean |-> FALSE, obj |-> x]}
    BY <1>3 DEF Teardowns
  <2>2. x \in Objs /\ (o.svc = "none" => x.svc = "none")
    BY AttachedFacts, DeletedFacts
  <2>3. CASE is_gone(x)
    <3>1. PICK y \in Leftovers(x) : t = [clean |-> released(y), obj |-> y]
      BY <2>1, <2>3
    <3>2. t.clean = released(y) /\ t.obj = y
      BY <3>1
    <3> QED
      BY <1>1, <2>2, <2>3, <3>2, LeftoversFacts DEF is_gone
  <2>4. CASE ~is_gone(x)
    <3>1. t.clean = FALSE /\ t.obj = x
      BY <2>1, <2>4
    <3> QED
      BY <2>2, <3>1
  <2> QED
    BY <2>3, <2>4
<1> QED
  BY <1>2, <1>3

LEMMA FailedTeardownsFacts ==
  ASSUME NEW o \in Objs, NEW t \in FailedTeardowns(o)
  PROVE  /\ t.obj \in Objs /\ t.clean = FALSE
         /\ o.svc = "none" => t.obj.svc = "none"
<1> DEFINE half == [o EXCEPT !.prim = "none", !.work = FALSE]
<1>1. half \in Objs /\ half.svc = o.svc
  BY DEF Objs
<1>2. PICK x \in {o, half} : t = [clean |-> FALSE, obj |-> x]
  BY DEF FailedTeardowns
<1>3. t.obj = x /\ t.clean = FALSE
  BY <1>2
<1> HIDE DEF half
<1> QED
  BY <1>1, <1>2, <1>3

\* A launch leaves the workload standing, and the Service of a site whose
\* port is fixed; so far as it fails it leaves the run's objects.
LEMMA LaunchedFacts ==
  ASSUME site \in Sites, NEW o \in Objs
  PROVE  /\ Launched(o) \in Objs /\ Launched(o).prim = "live"
         /\ o.svc # "deleting" => Launched(o).svc # "deleting"
         /\ HasFixedService => Launched(o).svc # "none"
BY SiteFacts DEF Launched, DeploymentApplied, ServiceApplied, TuningRunApplied,
                 LLMServiceApplied, Objs, HasFixedService

LEMMA PartlyLaunchedFacts ==
  ASSUME site \in Sites, NEW o \in Objs, NEW x \in PartlyLaunched(o)
  PROVE  x \in Objs
<1>1. Launched(o) \in Objs
  BY LaunchedFacts
<1>2. DeploymentApplied(o) \in Objs /\ ServiceApplied(o) \in Objs
  BY DEF DeploymentApplied, ServiceApplied, Objs
<1>3. [Launched(o) EXCEPT !.prim = o.prim] \in Objs
  BY <1>1 DEF Objs
<1> QED
  BY <1>1, <1>2, <1>3, SiteFacts, DeleteServiceFacts DEF PartlyLaunched

LEMMA EndpointFacts ==
  ASSUME NEW o \in Objs
  PROVE  /\ Endpoint(o) \in {"", "own", "port"}
         /\ Endpoint(o) = "port" => HasFixedService
         /\ Endpoint(o) = "port" /\ site.kind # "deployment" => o.svc # "none"
BY DEF Endpoint

(***************************************************************************)
(* A step of the tick is about one run: what it must do to that run's row, *)
(* objects and submissions for the invariant to stand.                     *)
(***************************************************************************)
Spending == [faults : Nat, crashes : Nat, upsets : Nat]
Submissions == [Runs -> [n : Nat, on : SUBSET Nat]]

\* No tick is lost, and what is counted only grows.
Calm ==
  /\ site' = site /\ spent' \in Spending /\ subm' \in Submissions
  /\ spent'.crashes = spent.crashes /\ spent'.faults >= spent.faults
\* Nothing is submitted.
Quiet == Calm /\ \A q \in Runs : subm'[q].n = subm[q].n

Paid(r, rw) ==
  /\ \A q \in Runs : q # r => subm'[q].n = subm[q].n
  /\ subm'[r].n <= 1 + Losses'
  /\ rw.st \in Early => subm'[r].n <= Losses'

\* A Service appears only where the API server had the port free.
Served(r, o) == HasFixedService /\ o.svc # "none" => obj[r].svc # "none" \/ PortFree(r)

Moved(r, at, rw, o) ==
  /\ turn = [at |-> at, run |-> r] /\ Step(r, rw, o) /\ Calm
  /\ RowOK(rw) /\ Cleared(rw, o) /\ Served(r, o) /\ Paid(r, rw)
  /\ HasFixedService /\ spent.crashes = 0 => Standing(rw, o)

\* The counters are numbers, and losses only add up.
LEMMA LossesFacts ==
  ASSUME TypeOK, Calm
  PROVE  Losses \in Nat /\ Losses' \in Nat /\ Losses' >= Losses
BY DEF TypeOK, Calm, Spending, Losses

\* The tick is never at a run that is over and torn down.
LEMMA ConcernsUnsettled ==
  ASSUME NEW at \in StageNames, NEW r \in Runs, NEW rows, Concerns(at, r, rows)
  PROVE  /\ ~Settled(rows[r])
         /\ at # "place" => Live(rows[r]) \/ rows[r].tp
         /\ at = "place" => rows[r].st = "absent"
         /\ at \in {"stop", "advance", "reconcile"} => Live(rows[r])
         /\ at = "reap" => rows[r].tp
<1>1. \A rw : ~(Live(rw) /\ Terminal(rw))
  BY DEF Live, Terminal, LiveStates, TERMINAL_RUN_STATES
<1>2. \A rw : rw.st = "absent" => ~Terminal(rw)
  BY DEF Terminal, TERMINAL_RUN_STATES
<1>3. CASE at = "stop"
  BY <1>1, <1>3 DEF Concerns, Settled
<1>4. CASE at = "place"
  BY <1>2, <1>4 DEF Concerns, Settled
<1>5. CASE at = "advance"
  BY <1>1, <1>5 DEF Concerns, Settled
<1>6. CASE at = "reap"
  BY <1>6 DEF Concerns, Settled
<1>7. CASE at = "reconcile"
  BY <1>1, <1>7 DEF Concerns, Settled
<1> QED
  BY <1>3, <1>4, <1>5, <1>6, <1>7 DEF StageNames

\* What the invariant says of the run the tick is at.
LEMMA AtRun ==
  ASSUME CInv, NEW at \in StageNames, NEW r \in Runs, turn = [at |-> at, run |-> r]
  PROVE  /\ Concerns(at, r, row) /\ turn \in [at : StageNames, run : 0..N]
         /\ turn.at = at /\ turn.run = r
         /\ row[r] \in Rows /\ obj[r] \in Objs /\ site \in Sites
         /\ RowOK(row[r]) /\ Cleared(row[r], obj[r])
         /\ HasFixedService /\ spent.crashes = 0 => Standing(row[r], obj[r])
<1>1. turn.at = at /\ turn.run = r
  OBVIOUS
<1>2. turn # Idle /\ turn # Done
  BY <1>1 DEF Idle, Done, StageNames
<1>3. Concerns(at, r, row)
  BY <1>1, <1>2 DEF CInv, TurnOK, TurnAt
<1>4. turn \in [at : StageNames, run : 0..N]
  BY NAssumption DEF Runs
<1> QED
  BY <1>1, <1>3, <1>4 DEF CInv, TypeOK, RowsOK, Undisturbed

\* A step that moves one run that way keeps the invariant.
LEMMA MovedKeeps ==
  ASSUME CInv, NEW at \in StageNames, NEW r \in Runs, NEW rw \in Rows, NEW o \in Objs,
         Moved(r, at, rw, o)
  PROVE  CInv'
<1>1. turn = [at |-> at, run |-> r] /\ Calm /\ Step(r, rw, o)
  BY DEF Moved
<1>2. /\ Concerns(at, r, row) /\ turn \in [at : StageNames, run : 0..N]
      /\ turn.at = at /\ site \in Sites
  BY <1>1, AtRun
<1>3. /\ row' = [row EXCEPT ![r] = rw] /\ obj' = [obj EXCEPT ![r] = o]
      /\ turn' = After(turn, row') /\ saved' = saved
  BY <1>1 DEF Step
<1>4. site' = site /\ spent'.crashes = spent.crashes /\ HasFixedService' = HasFixedService
  BY <1>1 DEF Calm, HasFixedService
<1>5. TypeOK'
  BY <1>1, <1>3, <1>4 DEF CInv, TypeOK, Calm, Spending, Submissions
<1>6. /\ row'[r] = rw /\ obj'[r] = o
      /\ \A q \in Runs : q # r => row'[q] = row[q] /\ obj'[q] = obj[q]
  BY <1>3 DEF CInv, TypeOK
<1>7. /\ TurnAt(turn', row') /\ turn' # Idle
      /\ turn.at # "reconcile" => turn'.at # "reconcile"
  BY <1>2, <1>3, AfterFacts
<1>8. TurnOK'
  <2>1. TurnAt(turn', row') = TurnAt(turn, row)'
    BY <1>4 DEF TurnAt, Concerns, Idle, Done, Live
  <2> QED
    BY <1>7, <2>1 DEF TurnOK, Idle
<1>9. RowsOK'
  <2>1. \A x \in Rows, y \in Objs : RowOK(x)' = RowOK(x) /\ Cleared(x, y)' = Cleared(x, y)
    BY <1>4 DEF RowOK, Cleared, released
  <2>2. ~Settled(row[r]) /\ ~Settled(saved[r])
    BY <1>2, ConcernsUnsettled DEF CInv, RowsOK
  <2>3. ASSUME NEW q \in Runs
        PROVE  /\ RowOK(row'[q]) /\ RowOK(saved'[q]) /\ Cleared(row'[q], obj'[q])
               /\ Settled(saved'[q]) => row'[q] = saved'[q]
    <3>1. CASE q = r
      BY <1>3, <1>6, <2>2, <3>1 DEF CInv, RowsOK, Moved
    <3>2. CASE q # r
      BY <1>3, <1>6, <3>2 DEF CInv, RowsOK
    <3> QED
      BY <3>1, <3>2
  <2>4. \A q \in Runs : row'[q] \in Rows /\ saved'[q] \in Rows /\ obj'[q] \in Objs
    BY <1>5 DEF TypeOK
  <2> QED
    BY <1>4, <2>3, <2>4 DEF RowsOK, RowOK, Cleared, released, Settled, Terminal
<1>10. OnePort'
  BY <1>4, <1>6 DEF CInv, OnePort, Moved, Served, PortFree
<1>11. Undisturbed'
  BY <1>4, <1>6, <1>7 DEF CInv, Undisturbed, Moved, Standing
<1>12. Counted'
  <2>1. Losses \in Nat /\ Losses' \in Nat /\ Losses' >= Losses
    BY <1>1, LossesFacts DEF CInv
  <2>2. \A q \in Runs : subm[q].n \in Nat
    BY DEF CInv, TypeOK
  <2> QED
    BY <1>6, <2>1, <2>2 DEF CInv, Counted, Moved, Paid
<1> QED
  BY <1>5, <1>8, <1>9, <1>10, <1>11, <1>12 DEF CInv

\* The states are what their names say.
LEMMA StateFacts ==
  /\ \A rw : Live(rw) <=> rw.st = "PENDING" \/ rw.st \in Up
  /\ \A rw : Terminal(rw) => rw.st \notin Fresh /\ rw.st \notin Up /\ rw.st \notin Early
  /\ Fresh \cap Up = {} /\ Fresh \subseteq Early
  /\ RunStatus \cup {"absent"} = Fresh \cup Up \cup TERMINAL_RUN_STATES
BY DEF Live, Terminal, Fresh, Up, Early, LiveStates, TERMINAL_RUN_STATES, RunStatus

\* A call that fails, an upset or neither, and a benchmark that is cancelled
\* or not: nothing is submitted.
LEMMA QuietFacts ==
  ASSUME TypeOK, site' = site, subm' = subm \/ \E r \in Runs : subm' = Cancelled(r),
         Fine \/ Fault \/ Upset
  PROVE  Quiet
<1>1. spent' \in Spending /\ spent'.crashes = spent.crashes /\ spent'.faults >= spent.faults
  BY DEF TypeOK, Fine, Fault, Upset, Spending
<1>2. subm' \in Submissions /\ \A q \in Runs : subm'[q].n = subm[q].n
  <2>1. CASE subm' = subm
    BY <2>1 DEF TypeOK, Submissions
  <2>2. CASE \E r \in Runs : subm' = Cancelled(r)
    BY <2>2 DEF TypeOK, Submissions, Cancelled
  <2> QED
    BY <2>1, <2>2
<1> QED
  BY <1>1, <1>2 DEF Quiet, Calm

LEMMA QuietPaid ==
  ASSUME CInv, Quiet, NEW r \in Runs, NEW rw, rw.st \in Early => row[r].st \in Early
  PROVE  Calm /\ Paid(r, rw)
<1>1. Losses \in Nat /\ Losses' \in Nat /\ Losses' >= Losses
  BY LossesFacts DEF CInv, Quiet
<1>2. subm[r].n \in Nat
  BY DEF CInv, TypeOK
<1> QED
  BY <1>1, <1>2 DEF CInv, Counted, Quiet, Paid

\* A run that stays where it is, or goes on while it is up.
LEMMA GoesOnKeeps ==
  ASSUME CInv, NEW at \in StageNames, NEW r \in Runs, turn = [at |-> at, run |-> r],
         NEW rw \in Rows, NEW o \in {obj[r], Attached(obj[r])}, Step(r, rw, o), Quiet,
         RowOK(rw), Cleared(rw, o),
         rw.st \in Fresh => row[r].st \in Fresh, rw.st \in Up => row[r].st \in Up,
         rw.st \in Early => row[r].st \in Early
  PROVE  CInv'
<1>1. /\ row[r] \in Rows /\ obj[r] \in Objs /\ site \in Sites
      /\ HasFixedService /\ spent.crashes = 0 => Standing(row[r], obj[r])
  BY AtRun
<1>2. o \in Objs /\ o.prim = obj[r].prim /\ (o.svc = "none" <=> obj[r].svc = "none")
        /\ (o.svc = "deleting" => obj[r].svc = "deleting")
  BY <1>1, AttachedFacts
<1>3. Served(r, o)
  BY <1>2 DEF Served
<1>4. HasFixedService /\ spent.crashes = 0 => Standing(rw, o)
  BY <1>1, <1>2 DEF Standing
<1>5. Calm /\ Paid(r, rw)
  BY QuietPaid
<1>6. Moved(r, at, rw, o)
  BY <1>3, <1>4, <1>5 DEF Moved
<1> QED
  BY <1>2, <1>6, MovedKeeps

\* A run that ends, whatever its teardown could do.
LEMMA EndsKeeps ==
  ASSUME CInv, NEW at \in StageNames, NEW r \in Runs, turn = [at |-> at, run |-> r],
         NEW st \in TERMINAL_RUN_STATES, NEW clean \in BOOLEAN, NEW o \in Objs,
         clean => o.prim = "none" /\ released(o), Served(r, o), Quiet,
         NEW rw, rw = [row[r] EXCEPT !.st = st, !.tp = ~clean, !.age = 0], Step(r, rw, o)
  PROVE  CInv'
<1>1. row[r] \in Rows /\ RowOK(row[r])
  BY AtRun
<1>2. rw \in Rows /\ rw.st = st /\ rw.ep = row[r].ep /\ (rw.tp <=> ~clean)
  <2>1. st \in RunStatus \cup {"absent"} /\ 0 \in 0..2 /\ (~clean) \in BOOLEAN
    BY DEF RunStatus
  <2>2. rw \in Rows
    BY <1>1, <2>1 DEF Rows
  <2>3. rw.st = st /\ rw.ep = row[r].ep
    BY <1>1 DEF Rows
  <2>4. rw.tp <=> ~clean
    BY <1>1 DEF Rows
  <2> QED
    BY <2>2, <2>3, <2>4
<1>3. Terminal(rw) /\ rw.st \notin Fresh /\ rw.st \notin Up /\ rw.st \notin Early
  BY <1>2, StateFacts DEF Terminal
<1>4. RowOK(rw) /\ Cleared(rw, o)
  BY <1>1, <1>2, <1>3 DEF RowOK, Cleared, Settled
<1>5. Calm /\ Paid(r, rw)
  BY <1>3, QuietPaid
<1>6. Moved(r, at, rw, o)
  BY <1>3, <1>4, <1>5 DEF Moved, Standing
<1> QED
  BY <1>2, <1>6, MovedKeeps

LEMMA FinishKeeps ==
  ASSUME CInv, NEW at \in StageNames, NEW r \in Runs, turn = [at |-> at, run |-> r],
         NEW st \in TERMINAL_RUN_STATES, NEW faulty \in BOOLEAN, Finish(r, st, faulty), Quiet
  PROVE  CInv'
<1>1. PICK t \in IF faulty THEN FailedTeardowns(obj[r]) ELSE Teardowns(obj[r]) :
        Step(r, [row[r] EXCEPT !.st = st, !.tp = ~t.clean, !.age = 0], t.obj)
  BY DEF Finish
<1>2. obj[r] \in Objs /\ site \in Sites
  BY AtRun
<1>3. /\ t.obj \in Objs /\ t.clean \in BOOLEAN
      /\ t.clean => t.obj.prim = "none" /\ released(t.obj)
      /\ obj[r].svc = "none" => t.obj.svc = "none"
  BY <1>2, TeardownsFacts, FailedTeardownsFacts
<1>4. Served(r, t.obj)
  BY <1>3 DEF Served
<1> QED
  BY <1>1, <1>3, <1>4, EndsKeeps

(***************************************************************************)
(* The steps of the tick.                                                  *)
(***************************************************************************)

\* A live run is not being torn down.
LEMMA LiveRow ==
  ASSUME CInv, NEW at \in {"stop", "advance", "reconcile"}, NEW r \in Runs,
         turn = [at |-> at, run |-> r]
  PROVE  Live(row[r]) /\ ~row[r].tp /\ ~Terminal(row[r])
<1>1. at \in StageNames
  BY DEF StageNames
<1>2. Concerns(at, r, row) /\ RowOK(row[r])
  BY <1>1, AtRun
<1>3. Live(row[r])
  BY <1>1, <1>2, ConcernsUnsettled
<1>4. ~Terminal(row[r])
  BY <1>3 DEF Live, Terminal, LiveStates, TERMINAL_RUN_STATES
<1> QED
  BY <1>2, <1>3, <1>4 DEF RowOK

\* A live run that stays as it is, or goes on while it is up.
LEMMA UpKeeps ==
  ASSUME CInv, NEW at \in {"advance", "reconcile"}, NEW r \in Runs,
         turn = [at |-> at, run |-> r],
         NEW rw \in Rows, NEW o \in {obj[r], Attached(obj[r])}, Step(r, rw, o), Quiet,
         ~rw.tp, rw.ep = "port" => row[r].ep = "port" \/ HasFixedService,
         \/ rw.st = row[r].st
         \/ rw.st \in Up /\ row[r].st \in Up /\ (rw.st \in Early => row[r].st \in Early)
  PROVE  CInv'
<1>1. at \in StageNames /\ at \in {"stop", "advance", "reconcile"}
  BY DEF StageNames
<1>2. Live(row[r]) /\ RowOK(row[r])
  BY <1>1, LiveRow, AtRun
<1>3. Live(rw)
  BY <1>2, StateFacts
<1>4. ~Terminal(rw)
  BY <1>3 DEF Live, Terminal, LiveStates, TERMINAL_RUN_STATES
<1>5. RowOK(rw) /\ Cleared(rw, o)
  BY <1>2, <1>4 DEF RowOK, Cleared, Settled
<1>6. /\ rw.st \in Fresh => row[r].st \in Fresh
      /\ rw.st \in Up => row[r].st \in Up
      /\ rw.st \in Early => row[r].st \in Early
  BY StateFacts
<1> QED
  BY <1>1, <1>5, <1>6, GoesOnKeeps

LEMMA StopKeeps ==
  ASSUME CInv, NEW r \in Runs, StopOne(r)
  PROVE  CInv'
<1>1. turn = [at |-> "stop", run |-> r] /\ Quiet
  BY QuietFacts DEF StopOne, CInv
<1>2. PICK faulty \in BOOLEAN : Finish(r, "KILLED", faulty)
  BY DEF StopOne
<1>3. "stop" \in StageNames /\ "KILLED" \in TERMINAL_RUN_STATES
  BY DEF StageNames, TERMINAL_RUN_STATES
<1> QED
  BY <1>1, <1>2, <1>3, FinishKeeps

\* No row, and a row just made.
LEMMA NoRowType ==
  /\ NoRow \in Rows /\ [NoRow EXCEPT !.st = "PENDING"] \in Rows
  /\ [NoRow EXCEPT !.st = "PENDING"].st = "PENDING" /\ NoRow.st = "absent"
  /\ ~NoRow.tp /\ ~[NoRow EXCEPT !.st = "PENDING"].tp
  /\ NoRow.ep = "" /\ [NoRow EXCEPT !.st = "PENDING"].ep = ""
<1>1. -1 \in Int
  OBVIOUS
<1>2. NoRow \in Rows
  BY <1>1 DEF NoRow, Rows
<1>3. "PENDING" \in RunStatus
  BY DEF RunStatus, LiveStates
<1>4. NoRow.st = "absent" /\ ~NoRow.tp /\ NoRow.ep = ""
  BY DEF NoRow
<1> HIDE DEF NoRow
<1>5. [NoRow EXCEPT !.st = "PENDING"] \in Rows
  BY <1>2, <1>3 DEF Rows
<1> QED
  BY <1>2, <1>4, <1>5 DEF Rows

\* A row that is made has no Service yet: its objects are as they were.
LEMMA PlaceKeeps ==
  ASSUME CInv, NEW r \in Runs, PlaceOne(r)
  PROVE  CInv'
<1>1. turn = [at |-> "place", run |-> r] /\ Quiet /\ "place" \in StageNames
  BY QuietFacts DEF PlaceOne, CInv, Skip, StageNames
<1>2. /\ Concerns("place", r, row) /\ row[r] \in Rows
      /\ RowOK(row[r]) /\ Cleared(row[r], obj[r])
  BY <1>1, AtRun
<1>3. row[r].st = "absent"
  BY <1>1, <1>2, ConcernsUnsettled
<1>4. CASE Skip(r)
  BY <1>1, <1>2, <1>4, GoesOnKeeps DEF Skip
<1>5. CASE Step(r, [NoRow EXCEPT !.st = "PENDING"], obj[r])
  <2> DEFINE new == [NoRow EXCEPT !.st = "PENDING"]
  <2>1. new \in Rows /\ ~new.tp /\ new.ep = "" /\ new.st = "PENDING"
    BY NoRowType
  <2> HIDE DEF new
  <2>2. /\ row[r].st \in Fresh /\ new.st \in Fresh /\ row[r].st \in Early
        /\ new.st \notin Up /\ ~Terminal(new)
    BY <1>3, <2>1 DEF Fresh, Early, Up, Terminal, TERMINAL_RUN_STATES
  <2>3. RowOK(new) /\ Cleared(new, obj[r])
    BY <2>1, <2>2 DEF RowOK, Cleared, Settled
  <2>4. Step(r, new, obj[r])
    BY <1>5 DEF new
  <2> QED
    BY <1>1, <2>1, <2>2, <2>3, <2>4, GoesOnKeeps
<1> QED
  BY <1>4, <1>5 DEF PlaceOne

\* The platform took it: either the row notes it, or the loss is counted.
LEMMA SubmitKeeps ==
  ASSUME CInv, NEW r \in Runs, turn = [at |-> "advance", run |-> r], site' = site,
         row[r].st = "HEALTH_CHECK", NEW k \in {1, 2}, subm' = Sent(r, k),
         NEW rw \in Rows, Step(r, rw, Attached(obj[r])), ~rw.tp, rw.ep = row[r].ep,
         \/ Fine /\ k = 1 /\ rw.st = "BENCHING"
         \/ Fault /\ rw.st = "BENCHING"
         \/ Fault /\ k = 1 /\ rw.st = "HEALTH_CHECK"
  PROVE  CInv'
<1> DEFINE o == Attached(obj[r])
<1>1. "advance" \in StageNames
  BY DEF StageNames
<1>2. /\ row[r] \in Rows /\ obj[r] \in Objs /\ RowOK(row[r])
      /\ HasFixedService /\ spent.crashes = 0 => Standing(row[r], obj[r])
  BY <1>1, AtRun
<1>3. o \in Objs /\ o.prim = obj[r].prim /\ (o.svc = "none" <=> obj[r].svc = "none")
        /\ (o.svc = "deleting" => obj[r].svc = "deleting")
  BY <1>2, AttachedFacts
<1>4. subm[r] \in [n : Nat, on : SUBSET Nat] /\ Losses \in Nat /\ subm[r].n <= Losses
  BY DEF CInv, TypeOK, Counted, Early, Losses
<1>5. subm' \in Submissions /\ subm'[r].n = subm[r].n + k
        /\ \A q \in Runs : q # r => subm'[q].n = subm[q].n
  <2>1. subm[r].on \cup (subm[r].n + 1)..(subm[r].n + k) \in SUBSET Nat
    BY <1>4
  <2> DEFINE on == subm[r].on \cup (subm[r].n + 1)..(subm[r].n + k)
             n == subm[r].n + k
  <2>2. subm' = [subm EXCEPT ![r] = [subm[r] EXCEPT !.n = n, !.on = on]]
    BY DEF CInv, TypeOK, Sent
  <2>3. n \in Nat
    BY <1>4
  <2> HIDE DEF n, on
  <2>4. [subm[r] EXCEPT !.n = n, !.on = on] \in [n : Nat, on : SUBSET Nat]
    BY <1>4, <2>1, <2>3 DEF on
  <2>5. [subm[r] EXCEPT !.n = n, !.on = on].n = n
    BY <1>4
  <2> QED
    BY <2>2, <2>4, <2>5 DEF CInv, TypeOK, Submissions, n
<1>6. Calm
  BY <1>5 DEF CInv, TypeOK, Calm, Spending, Fine, Fault
<1>7. Fine => Losses' = Losses
  BY DEF Fine, Losses
<1>8. Fault => Losses' = Losses + 1
  BY DEF CInv, TypeOK, Fault, Losses
<1>9. Paid(r, rw)
  BY <1>4, <1>5, <1>7, <1>8 DEF Paid, Early, Fresh
<1> HIDE DEF o
<1>10. ~Terminal(rw) /\ rw.st \in Up /\ rw.st \notin Fresh /\ row[r].st \in Up
  BY DEF Terminal, TERMINAL_RUN_STATES, Up, Fresh
<1>11. RowOK(rw) /\ Cleared(rw, o) /\ Served(r, o)
  BY <1>2, <1>3, <1>10 DEF RowOK, Cleared, Settled, Served
<1>12. HasFixedService /\ spent.crashes = 0 => Standing(rw, o)
  BY <1>2, <1>3, <1>10 DEF Standing
<1>13. Moved(r, "advance", rw, o)
  BY <1>6, <1>9, <1>11, <1>12 DEF Moved, o
<1> QED
  BY <1>1, <1>3, <1>13, MovedKeeps

\* launch_nodes: the Service is the run's own from here on, or the run is over.
LEMMA LaunchKeeps ==
  ASSUME CInv, NEW r \in Runs, Launch(r)
  PROVE  CInv'
<1>1. /\ turn = [at |-> "advance", run |-> r] /\ "advance" \in StageNames
      /\ row[r].st = "PENDING" /\ PortFree(r)
  BY DEF Launch, Advancing, StageNames
<1>2. /\ row[r] \in Rows /\ obj[r] \in Objs /\ site \in Sites /\ RowOK(row[r])
      /\ HasFixedService /\ spent.crashes = 0 => Standing(row[r], obj[r])
  BY <1>1, AtRun
<1>3. ~row[r].tp
  BY <1>1, LiveRow
<1>4. Quiet
  BY QuietFacts DEF Launch, Advancing, CInv
<1>5. \A o : Served(r, o)
  BY <1>1 DEF Served
<1>6. CASE Step(r, [row[r] EXCEPT !.st = "LAUNCHING", !.wait = "", !.age = 0,
                                  !.ep = Endpoint(Launched(obj[r]))],
                Launched(obj[r]))
  <2> DEFINE o == Launched(obj[r])
             ep == Endpoint(o)
             rw == [row[r] EXCEPT !.st = "LAUNCHING", !.wait = "", !.age = 0, !.ep = ep]
  <2>1. /\ o \in Objs /\ o.prim = "live" /\ (HasFixedService => o.svc # "none")
        /\ (obj[r].svc # "deleting" => o.svc # "deleting")
    BY <1>2, LaunchedFacts
  <2>2. Step(r, rw, o)
    BY <1>6
  <2> HIDE DEF o
  <2>3. ep \in {"", "own", "port"} /\ (ep = "port" => HasFixedService)
    BY <2>1, EndpointFacts
  <2> HIDE DEF ep
  <2>4. "LAUNCHING" \in RunStatus \cup {"absent"} /\ 0 \in 0..2
    BY DEF RunStatus, LiveStates
  <2>5. rw \in Rows
    BY <1>2, <2>3, <2>4 DEF Rows
  <2>6. rw.st = "LAUNCHING" /\ rw.ep = ep /\ ~rw.tp
    BY <1>2, <1>3 DEF Rows
  <2> HIDE DEF rw
  <2>7. RowOK(rw) /\ Cleared(rw, o)
    BY <2>3, <2>6 DEF RowOK, Cleared, Settled, Terminal, TERMINAL_RUN_STATES
  <2>8. HasFixedService /\ spent.crashes = 0 => Standing(rw, o)
    BY <1>1, <1>2, <2>1, <2>6 DEF Standing, Fresh, Up
  <2>9. Calm /\ Paid(r, rw)
    BY <1>1, <1>4, QuietPaid DEF Early, Fresh
  <2>10. Moved(r, "advance", rw, o)
    BY <1>1, <1>5, <2>2, <2>7, <2>8, <2>9 DEF Moved
  <2> QED
    BY <1>1, <2>1, <2>5, <2>10, MovedKeeps
<1>7. CASE \E o \in PartlyLaunched(obj[r]), faulty \in BOOLEAN :
             \E t \in IF faulty THEN FailedTeardowns(o) ELSE Teardowns(o) :
               Step(r, [row[r] EXCEPT !.st = "FAILED", !.tp = ~t.clean, !.age = 0], t.obj)
  <2>1. PICK o \in PartlyLaunched(obj[r]), faulty \in BOOLEAN :
          \E t \in IF faulty THEN FailedTeardowns(o) ELSE Teardowns(o) :
            Step(r, [row[r] EXCEPT !.st = "FAILED", !.tp = ~t.clean, !.age = 0], t.obj)
    BY <1>7
  <2>2. PICK t \in IF faulty THEN FailedTeardowns(o) ELSE Teardowns(o) :
          Step(r, [row[r] EXCEPT !.st = "FAILED", !.tp = ~t.clean, !.age = 0], t.obj)
    BY <2>1
  <2>3. o \in Objs
    BY <1>2, PartlyLaunchedFacts
  <2>4. /\ t.obj \in Objs /\ t.clean \in BOOLEAN
        /\ t.clean => t.obj.prim = "none" /\ released(t.obj)
    BY <1>2, <2>3, TeardownsFacts, FailedTeardownsFacts
  <2>5. "FAILED" \in TERMINAL_RUN_STATES
    BY DEF TERMINAL_RUN_STATES
  <2> QED
    BY <1>1, <1>4, <1>5, <2>2, <2>4, <2>5, EndsKeeps
<1> QED
  BY <1>6, <1>7 DEF Launch

\* LaunchDeferred touches its own objects, which are none yet, and the Service
\* of a run that is over, torn down and has left it behind.
LEMMA DeferredKeeps ==
  ASSUME CInv, NEW r \in Runs, Deferred(r)
  PROVE  CInv'
<1>1. /\ turn = [at |-> "advance", run |-> r] /\ "advance" \in StageNames
      /\ row[r].st = "PENDING" /\ ~PortFree(r) /\ site' = site /\ subm' = subm
      /\ spent' = spent /\ saved' = saved /\ turn' = After(turn, row')
      /\ row' = [row EXCEPT ![r].wait = "NODE_PORT"]
  BY DEF Deferred, Advancing, StageNames, Fine
<1>2. /\ turn \in [at : StageNames, run : 0..N] /\ turn.at = "advance"
      /\ obj[r] \in Objs /\ site \in Sites
  BY <1>1, AtRun
<1>3. ~row[r].tp /\ ~Terminal(row[r])
  BY <1>1, LiveRow
<1>4. HasFixedService /\ HasFixedService' = HasFixedService
  BY <1>1 DEF PortFree, HasFixedService
<1>5. row' \in [Runs -> Rows] /\ \A q \in Runs : /\ row'[q].st = row[q].st
                                                 /\ row'[q].tp = row[q].tp
                                                 /\ row'[q].ep = row[q].ep
                                                 /\ q # r => row'[q] = row[q]
  <2> DEFINE new == [row[r] EXCEPT !.wait = "NODE_PORT"]
  <2>1. row[r] \in Rows /\ row \in [Runs -> Rows]
    BY DEF CInv, TypeOK
  <2>2. row' = [row EXCEPT ![r] = new]
    BY <1>1
  <2>3. new \in Rows
    BY <2>1 DEF Rows
  <2>4. new.st = row[r].st /\ new.tp = row[r].tp /\ new.ep = row[r].ep
    BY <2>1 DEF Rows
  <2> HIDE DEF new
  <2>5. row'[r] = new /\ \A q \in Runs : q # r => row'[q] = row[q]
    BY <2>1, <2>2
  <2> QED
    BY <2>1, <2>2, <2>3, <2>4, <2>5
<1>6. obj' \in [Runs -> Objs] /\ \A x \in Runs :
        /\ obj[x].svc = "none" => obj'[x].svc = "none"
        /\ x # r => \/ obj'[x] = obj[x]
                    \/ Settled(row[x]) /\ obj[x].svc # "none" /\ obj'[x].prim = obj[x].prim
  <2>1. PICK mine \in IF site.kind = "deployment" THEN Deleted(obj[r]) ELSE {obj[r]} :
          LET left == {q \in SeenHolder(r) : Reclaimable(r, q)}
              here == [obj EXCEPT ![r] = mine]
          IN  IF left = {} THEN obj' = here
              ELSE \E q \in left : \E o \in DeleteService(obj[q]) :
                     obj' = [here EXCEPT ![q] = o]
    BY DEF Deferred
  <2> DEFINE here == [obj EXCEPT ![r] = mine]
  <2>2. mine \in Objs /\ (obj[r].svc = "none" => mine.svc = "none")
    BY <1>2, DeletedFacts
  <2>3. CASE obj' = here
    BY <2>2, <2>3 DEF CInv, TypeOK
  <2>4. CASE \E q \in SeenHolder(r) : Reclaimable(r, q)
               /\ \E o \in DeleteService(obj[q]) : obj' = [here EXCEPT ![q] = o]
    <3>1. PICK q \in SeenHolder(r) : Reclaimable(r, q)
            /\ \E o \in DeleteService(obj[q]) : obj' = [here EXCEPT ![q] = o]
      BY <2>4
    <3>2. PICK o \in DeleteService(obj[q]) : obj' = [here EXCEPT ![q] = o]
      BY <3>1
    <3>3. q \in Runs /\ q # r /\ obj[q].svc # "none" /\ Settled(row[q])
      BY <3>1 DEF SeenHolder, Reclaimable, Settled
    <3>4. o \in Objs /\ o.prim = obj[q].prim
      BY <3>3, DeleteServiceFacts DEF CInv, TypeOK
    <3> QED
      BY <2>2, <3>2, <3>3, <3>4 DEF CInv, TypeOK
  <2> QED
    BY <2>1, <2>3, <2>4
<1>7. TypeOK'
  BY <1>1, <1>5, <1>6 DEF CInv, TypeOK
<1>8. TurnAt(turn', row') /\ turn' # Idle /\ turn'.at # "reconcile"
  BY <1>1, <1>2, AfterFacts
<1>9. TurnOK'
  <2>1. TurnAt(turn', row') = TurnAt(turn, row)'
    BY <1>1 DEF TurnAt, Concerns, Idle, Done, Live
  <2> QED
    BY <1>8, <2>1 DEF TurnOK, Idle
<1>10. RowsOK'
  <2>1. \A x \in Runs : RowOK(row'[x]) /\ RowOK(saved'[x])
    BY <1>1, <1>5 DEF CInv, RowsOK, RowOK, Terminal
  <2>2. ASSUME NEW x \in Runs PROVE Cleared(row'[x], obj'[x])
    <3>1. CASE x = r
      BY <1>3, <1>5, <3>1 DEF Cleared, Settled, Terminal
    <3>2. CASE x # r
      BY <1>4, <1>5, <1>6, <3>2 DEF CInv, RowsOK, Cleared, released
    <3> QED
      BY <3>1, <3>2
  <2>3. \A x \in Runs : Settled(saved'[x]) => row'[x] = saved'[x]
    <3>1. ~Settled(saved[r])
      BY <1>3 DEF CInv, RowsOK, Settled
    <3> QED
      BY <1>1, <1>5, <3>1 DEF CInv, RowsOK
  <2> QED
    BY <1>4, <2>1, <2>2, <2>3 DEF RowsOK, RowOK, Cleared, released, Settled, Terminal
<1>11. OnePort'
  BY <1>4, <1>6 DEF CInv, OnePort
<1>12. Undisturbed'
  <2>1. \A x \in Runs : Standing(row[x], obj[x]) => Standing(row'[x], obj'[x])
    <3>1. row[r].st \in Fresh /\ row[r].st \notin Up
      BY <1>1 DEF Fresh, Up
    <3>2. \A x \in Runs : Settled(row[x]) => row[x].st \notin Up
      BY StateFacts DEF Settled
    <3> QED
      BY <1>5, <1>6, <3>1, <3>2 DEF Standing
  <2> QED
    BY <1>1, <1>4, <1>8, <2>1 DEF CInv, Undisturbed, Standing
<1>13. Counted'
  BY <1>1, <1>5 DEF CInv, Counted, Losses
<1> QED
  BY <1>7, <1>9, <1>10, <1>11, <1>12, <1>13 DEF CInv

\* What the steps of _advance_one have in common.
LEMMA AdvanceFacts ==
  ASSUME CInv, NEW r \in Runs, Advancing(r)
  PROVE  /\ turn = [at |-> "advance", run |-> r] /\ "advance" \in StageNames
         /\ site' = site /\ row[r] \in Rows /\ obj[r] \in Objs /\ ~row[r].tp
         /\ subm' = subm /\ (Fine \/ Fault \/ Upset) => Quiet
         /\ \A st \in {"SUCCEEDED", "FAILED"}, faulty \in BOOLEAN :
              Quiet /\ Finish(r, st, faulty) => CInv'
<1>1. turn = [at |-> "advance", run |-> r] /\ "advance" \in StageNames /\ site' = site
  BY DEF Advancing, StageNames
<1>2. row[r] \in Rows /\ obj[r] \in Objs
  BY <1>1, AtRun
<1>3. ~row[r].tp
  BY <1>1, LiveRow
<1>4. subm' = subm /\ (Fine \/ Fault \/ Upset) => Quiet
  BY <1>1, QuietFacts DEF CInv
<1>5. \A st \in {"SUCCEEDED", "FAILED"} : st \in TERMINAL_RUN_STATES
  BY DEF TERMINAL_RUN_STATES
<1> QED
  BY <1>1, <1>2, <1>3, <1>4, <1>5, FinishKeeps

\* Time has two marks.
LEMMA AgeRange == \A rw \in Rows : rw.age \in 0..2
BY DEF Rows

LEMMA StartupKeeps ==
  ASSUME CInv, NEW r \in Runs,
         HeldByARun(r) \/ StartupGone(r) \/ StartupReady(r) \/ StartupFails(r) \/ StartupWaits(r)
  PROVE  CInv'
<1> DEFINE o == Attached(obj[r])
<1>1. Advancing(r) /\ subm' = subm /\ Fine
  BY DEF HeldByARun, StartupGone, StartupReady, StartupFails, StartupWaits
<1>2. /\ turn = [at |-> "advance", run |-> r] /\ row[r] \in Rows /\ obj[r] \in Objs
      /\ ~row[r].tp /\ Quiet
      /\ \A st \in {"SUCCEEDED", "FAILED"}, faulty \in BOOLEAN :
           Quiet /\ Finish(r, st, faulty) => CInv'
  BY <1>1, AdvanceFacts
<1>3. CASE HeldByARun(r)
  <2> DEFINE rw == [row[r] EXCEPT !.wait = "NODE_PORT"]
  <2>1. rw \in Rows /\ ~rw.tp /\ rw.ep = row[r].ep /\ rw.st = row[r].st
    BY <1>2 DEF Rows
  <2>2. Step(r, rw, obj[r])
    BY <1>3 DEF HeldByARun
  <2> HIDE DEF rw
  <2> QED
    BY <1>2, <2>1, <2>2, UpKeeps
<1>4. CASE StartupGone(r) \/ StartupFails(r)
  BY <1>2, <1>4 DEF StartupGone, StartupFails
<1>5. CASE StartupReady(r)
  <2> DEFINE ep == IF Endpoint(o) # "" THEN Endpoint(o) ELSE row[r].ep
             rw == [row[r] EXCEPT !.st = "HEALTH_CHECK", !.wait = "", !.ep = ep]
  <2>1. o \in Objs
    BY <1>2, AttachedFacts
  <2>2. /\ ep \in {"", "own", "port"}
        /\ ep = "port" => row[r].ep = "port" \/ HasFixedService
    BY <1>2, <2>1, EndpointFacts DEF Rows
  <2>3. Step(r, rw, o) /\ row[r].st \in Up /\ row[r].st \in Early
    BY <1>5 DEF StartupReady, Starting, Up, Early
  <2> HIDE DEF ep, o
  <2>4. "HEALTH_CHECK" \in RunStatus \cup {"absent"}
    BY DEF RunStatus, LiveStates
  <2>5. rw \in Rows
    BY <1>2, <2>2, <2>4 DEF Rows
  <2>6. ~rw.tp /\ rw.ep = ep /\ rw.st \in Up
    BY <1>2 DEF Rows, Up
  <2> HIDE DEF rw
  <2> QED
    BY <1>2, <2>2, <2>3, <2>5, <2>6, UpKeeps DEF o
<1>6. CASE StartupWaits(r)
  <2> DEFINE waits == startup_timed_out(row[r], o)[2]
             since == IF row[r].wait = "CARDS" /\ ~waits THEN 0 ELSE row[r].age
             why == IF waits THEN "CARDS" ELSE ""
             rw == [row[r] EXCEPT !.st = "WAITING_READY", !.age = since, !.wait = why]
  <2>1. Step(r, rw, o) /\ row[r].st \in Up /\ row[r].st \in Early
    BY <1>6 DEF StartupWaits, Starting, Up, Early
  <2> HIDE DEF waits, o
  <2>2. since \in 0..2 /\ why \in {"", "CARDS", "NODE_PORT"}
    <3>1. since = 0 \/ since = row[r].age
      BY Zenon
    <3>2. why = "CARDS" \/ why = ""
      BY Zenon
    <3> HIDE DEF since, why
    <3>3. row[r].age \in 0..2
      BY <1>2, AgeRange, Zenon
    <3>4. since \in 0..2
      BY <3>1, <3>3
    <3> QED
      BY <3>2, <3>4
  <2> HIDE DEF since, why
  <2>3. "WAITING_READY" \in RunStatus \cup {"absent"}
    BY DEF RunStatus, LiveStates
  <2>4. rw \in Rows
    BY <1>2, <2>2, <2>3 DEF Rows
  <2>5. ~rw.tp /\ rw.ep = row[r].ep /\ rw.st \in Up
    BY <1>2 DEF Rows, Up
  <2> HIDE DEF rw
  <2> QED
    BY <1>2, <2>1, <2>4, <2>5, UpKeeps DEF o
<1> QED
  BY <1>3, <1>4, <1>5, <1>6

LEMMA HealthKeeps ==
  ASSUME CInv, NEW r \in Runs, HealthRuns(r) \/ HealthFails(r) \/ HealthPasses(r)
  PROVE  CInv'
<1> DEFINE o == Attached(obj[r])
           n == subm[r].n
<1>1. Advancing(r) /\ row[r].st = "HEALTH_CHECK"
  BY DEF HealthRuns, HealthFails, HealthPasses
<1>2. /\ turn = [at |-> "advance", run |-> r] /\ row[r] \in Rows /\ obj[r] \in Objs
      /\ ~row[r].tp /\ site' = site
      /\ subm' = subm /\ (Fine \/ Fault \/ Upset) => Quiet
      /\ \A st \in {"SUCCEEDED", "FAILED"}, faulty \in BOOLEAN :
           Quiet /\ Finish(r, st, faulty) => CInv'
  BY <1>1, AdvanceFacts
<1>3. CASE HealthRuns(r)
  BY <1>2, <1>3, UpKeeps DEF HealthRuns
<1>4. CASE HealthFails(r)
  BY <1>2, <1>4 DEF HealthFails
<1>5. n \in Nat
  BY DEF CInv, TypeOK
<1>6. ASSUME NEW k \in {1, 2}
      PROVE  /\ Submitted(r, n + k) \in Rows /\ ~Submitted(r, n + k).tp
             /\ Submitted(r, n + k).ep = row[r].ep /\ Submitted(r, n + k).st = "BENCHING"
  <2>1. "BENCHING" \in RunStatus \cup {"absent"}
    BY DEF RunStatus, LiveStates
  <2> DEFINE m == n + k
  <2>2. m \in Nat
    BY <1>5
  <2> HIDE DEF m
  <2>3. Submitted(r, m) \in Rows
    BY <1>2, <2>1, <2>2 DEF Submitted, Rows
  <2>4. ~Submitted(r, m).tp /\ Submitted(r, m).ep = row[r].ep
    BY <1>2 DEF Submitted, Rows
  <2>5. Submitted(r, m).st = "BENCHING"
    BY <1>2 DEF Submitted, Rows
  <2> QED
    BY <2>3, <2>4, <2>5 DEF m
<1>7. CASE HealthPasses(r)
  <2>1. CASE /\ Step(r, [row[r] EXCEPT !.st = "SERVING",
                                       !.inc = IF obj[r].pod = "none" THEN -1 ELSE obj[r].inc], o)
             /\ Fine /\ subm' = subm
    <3> DEFINE inc == IF obj[r].pod = "none" THEN -1 ELSE obj[r].inc
               rw == [row[r] EXCEPT !.st = "SERVING", !.inc = inc]
    <3>1. inc \in Int
      BY <1>2 DEF Objs
    <3> HIDE DEF inc
    <3>2. "SERVING" \in RunStatus \cup {"absent"}
      BY DEF RunStatus, LiveStates
    <3>3. rw \in Rows /\ ~rw.tp /\ rw.ep = row[r].ep /\ rw.st = "SERVING"
      BY <1>2, <3>1, <3>2 DEF Rows
    <3>4. Step(r, rw, o)
      BY <2>1 DEF inc
    <3> HIDE DEF rw
    <3>5. rw.st \in Up /\ row[r].st \in Up /\ row[r].st \in Early
      BY <1>1, <3>3 DEF Up, Early
    <3> QED
      BY <1>2, <2>1, <3>3, <3>4, <3>5, UpKeeps
  <2>2. CASE Step(r, Submitted(r, n + 1), o) /\ subm' = Sent(r, 1) /\ Fine
    BY <1>1, <1>2, <1>6, <2>2, SubmitKeeps
  <2>3. CASE Fault /\ Step(r, Submitted(r, n + 2), o) /\ subm' = Sent(r, 2)
    BY <1>1, <1>2, <1>6, <2>3, SubmitKeeps
  <2>4. CASE Fault /\ Step(r, row[r], o) /\ subm' = Sent(r, 1)
    BY <1>1, <1>2, <2>4, SubmitKeeps
  <2>5. CASE Finish(r, "FAILED", FALSE) /\ Upset /\ subm' = subm
    BY <1>2, <2>5
  <2> QED
    BY <1>7, <2>1, <2>2, <2>3, <2>4, <2>5 DEF HealthPasses
<1> QED
  BY <1>3, <1>4, <1>7

LEMMA MeasuredKeeps ==
  ASSUME CInv, NEW r \in Runs, Benching(r) \/ Serving(r) \/ AdvanceRaises(r)
  PROVE  CInv'
<1>1. Advancing(r) /\ subm' = subm /\ (Fine \/ Fault)
  BY DEF Benching, Serving, AdvanceRaises
<1>2. /\ turn = [at |-> "advance", run |-> r] /\ row[r] \in Rows /\ obj[r] \in Objs
      /\ ~row[r].tp /\ Quiet
      /\ \A st \in {"SUCCEEDED", "FAILED"}, faulty \in BOOLEAN :
           Quiet /\ Finish(r, st, faulty) => CInv'
  BY <1>1, AdvanceFacts
<1>3. \/ Step(r, row[r], Attached(obj[r]))
      \/ \E st \in {"SUCCEEDED", "FAILED"}, faulty \in BOOLEAN : Finish(r, st, faulty)
  <2>1. CASE Benching(r)
    BY <2>1 DEF Benching
  <2>2. CASE Serving(r)
    BY <2>2 DEF Serving
  <2>3. CASE AdvanceRaises(r)
    BY <2>3 DEF AdvanceRaises
  <2> QED
    BY <2>1, <2>2, <2>3
<1>4. Step(r, row[r], Attached(obj[r])) => CInv'
  BY <1>2, UpKeeps
<1> QED
  BY <1>2, <1>3, <1>4

\* A run that is being torn down, or given up on.
LEMMA TornKeeps ==
  ASSUME CInv, NEW r \in Runs, turn = [at |-> "reap", run |-> r], Quiet,
         NEW rw \in Rows, NEW o \in Objs, Step(r, rw, o),
         rw.st = row[r].st, rw.ep = row[r].ep, Cleared(rw, o),
         obj[r].svc = "none" => o.svc = "none"
  PROVE  CInv'
<1>1. "reap" \in StageNames
  BY DEF StageNames
<1>2. Concerns("reap", r, row) /\ RowOK(row[r])
  BY <1>1, AtRun
<1>3. row[r].tp
  BY <1>1, <1>2, ConcernsUnsettled
<1>4. Terminal(rw)
  BY <1>2, <1>3 DEF RowOK, Terminal
<1>5. rw.st \notin Fresh /\ rw.st \notin Up /\ rw.st \notin Early
  BY <1>4, StateFacts
<1>6. RowOK(rw) /\ Served(r, o)
  BY <1>2, <1>4 DEF RowOK, Served
<1>7. Calm /\ Paid(r, rw)
  BY <1>5, QuietPaid
<1>8. Moved(r, "reap", rw, o)
  BY <1>5, <1>6, <1>7 DEF Moved, Standing
<1> QED
  BY <1>1, <1>8, MovedKeeps

LEMMA ReapKeeps ==
  ASSUME CInv, NEW r \in Runs, Reap(r)
  PROVE  CInv'
<1>1. turn = [at |-> "reap", run |-> r] /\ Quiet /\ "reap" \in StageNames
  BY QuietFacts DEF Reap, ReapGone, ReapStuck, ReapRaises, Reaping, CInv, StageNames
<1>2. /\ row[r] \in Rows /\ obj[r] \in Objs /\ site \in Sites /\ Concerns("reap", r, row)
      /\ Cleared(row[r], obj[r])
  BY <1>1, AtRun
<1>3. row[r].tp
  BY <1>1, <1>2, ConcernsUnsettled
<1>4. \A o : Cleared(row[r], o)
  BY <1>3 DEF Cleared, Settled
<1> DEFINE quits == [row[r] EXCEPT !.tp = FALSE, !.quit = TRUE]
<1>5. /\ quits \in Rows /\ quits.st = row[r].st /\ quits.ep = row[r].ep
      /\ \A o : Cleared(quits, o)
  <2>1. quits \in Rows /\ quits.st = row[r].st /\ quits.ep = row[r].ep
    BY <1>2 DEF Rows
  <2>2. quits.quit
    BY <1>2 DEF Rows
  <2> HIDE DEF quits
  <2> QED
    BY <2>1, <2>2 DEF Cleared
<1>6. Attached(obj[r]) \in Objs /\ (obj[r].svc = "none" => Attached(obj[r]).svc = "none")
  BY <1>2, AttachedFacts
<1>7. CASE ReapGone(r)
  <2>1. PICK o \in Leftovers(obj[r]) :
          Step(r, [row[r] EXCEPT !.tp = ~Confirmed(r, o),
                                 !.quit = Confirmed(r, o) /\ ~released(o)], o)
    BY <1>7 DEF ReapGone
  <2>2. o \in Objs /\ o.prim = "none" /\ (obj[r].svc = "none" => o.svc = "none")
    BY <1>2, <1>7, LeftoversFacts DEF ReapGone
  <2> DEFINE tp == ~Confirmed(r, o)
             quit == Confirmed(r, o) /\ ~released(o)
             rw == [row[r] EXCEPT !.tp = tp, !.quit = quit]
  <2>3. tp \in BOOLEAN /\ quit \in BOOLEAN /\ (~tp /\ ~quit => released(o))
    BY DEF Confirmed, released
  <2>4. Step(r, rw, o)
    BY <2>1
  <2> HIDE DEF tp, quit
  <2>5. rw \in Rows
    BY <1>2, <2>3 DEF Rows
  <2>6. rw.st = row[r].st /\ rw.ep = row[r].ep
    BY <1>2 DEF Rows
  <2>7. (rw.tp <=> tp) /\ (rw.quit <=> quit)
    BY <1>2, <2>3 DEF Rows
  <2> HIDE DEF rw
  <2>8. Cleared(rw, o)
    BY <2>2, <2>3, <2>7 DEF Cleared, Settled
  <2> QED
    BY <1>1, <2>2, <2>4, <2>5, <2>6, <2>8, TornKeeps
<1> HIDE DEF quits
<1>8. CASE ReapStuck(r)
  <2>1. \/ Step(r, quits, Attached(obj[r]))
        \/ \E x \in Deleted(Attached(obj[r])) : Step(r, row[r], x)
        \/ Step(r, row[r], Attached(obj[r]))
    BY <1>8 DEF ReapStuck, quits
  <2>2. \A x \in Deleted(Attached(obj[r])) :
          x \in Objs /\ (obj[r].svc = "none" => x.svc = "none")
    BY <1>2, <1>6, DeletedFacts
  <2> QED
    BY <1>1, <1>2, <1>4, <1>5, <1>6, <2>1, <2>2, TornKeeps
<1>9. CASE ReapRaises(r)
  <2>1. Step(r, row[r], obj[r]) \/ Step(r, quits, obj[r])
    BY <1>9 DEF ReapRaises, quits
  <2> QED
    BY <1>1, <1>2, <1>4, <1>5, <2>1, TornKeeps
<1> QED
  BY <1>7, <1>8, <1>9 DEF Reap

(***************************************************************************)
(* The rest of the worker.                                                 *)
(***************************************************************************)

\* The turn a pass over the committed rows starts with.
LEMMA FirstOfFacts ==
  ASSUME NEW stage \in StageNames, NEW rows
  PROVE  /\ TurnAt(FirstOf(stage, rows), rows) /\ FirstOf(stage, rows) # Idle
         /\ stage # "reconcile" => FirstOf(stage, rows).at # "reconcile"
<1> DEFINE t == [at |-> stage, run |-> 0]
<1>1. t \in [at : StageNames, run : 0..N] /\ t.at = stage
  BY NAssumption
<1> HIDE DEF t
<1> QED
  BY <1>1, AfterFacts DEF FirstOf, t

\* What the session held is forgotten, at the price of a loss: every submission
\* the rows do not know of is paid for.
LEMMA RestartKeeps ==
  ASSUME CInv, site' = site, saved' = saved, obj' = obj, subm' = subm, row' = saved,
         turn' \in {Idle, FirstOf("reconcile", saved)},
         spent' \in Spending, spent'.crashes # 0, Losses' = Losses + 1
  PROVE  CInv'
<1>1. TypeOK'
  BY DEF CInv, TypeOK, Spending
<1>2. TurnOK'
  <2>1. "reconcile" \in StageNames
    BY DEF StageNames
  <2>2. TurnAt(turn', saved)
    BY <2>1, FirstOfFacts DEF TurnAt
  <2>3. TurnAt(turn', row') = TurnAt(turn, row)'
    BY DEF TurnAt, Concerns, Idle, Done, Live
  <2> QED
    BY <2>2, <2>3 DEF TurnOK
<1>3. RowsOK'
  <2>1. \A r \in Runs : RowOK(saved[r]) /\ Cleared(saved[r], obj[r])
    BY DEF CInv, RowsOK, Cleared, Settled
  <2> QED
    BY <2>1 DEF RowsOK, RowOK, Cleared, released, HasFixedService
<1>4. OnePort'
  BY DEF CInv, OnePort, HasFixedService
<1>5. Undisturbed'
  BY DEF Undisturbed
<1>6. Counted'
  BY DEF CInv, TypeOK, Counted, Losses
<1> QED
  BY <1>1, <1>2, <1>3, <1>4, <1>5, <1>6 DEF CInv

LEMMA LostKeeps ==
  ASSUME CInv, TickLost
  PROVE  CInv'
<1>1. spent' \in Spending /\ spent'.crashes # 0 /\ Losses' = Losses + 1
  BY DEF TickLost, CInv, TypeOK, Spending, Losses
<1> QED
  BY <1>1, RestartKeeps DEF TickLost

LEMMA ReconcileKeeps ==
  ASSUME CInv, NEW r \in Runs, ReconcileOne(r)
  PROVE  CInv'
<1>1. /\ turn = [at |-> "reconcile", run |-> r] /\ "reconcile" \in StageNames
      /\ site' = site /\ subm' = subm /\ turn.at = "reconcile"
  BY DEF ReconcileOne, StageNames
<1>2. row[r] \in Rows /\ ~row[r].tp /\ obj[r] \in Objs
  BY <1>1, AtRun, LiveRow
<1>3. CASE Finish(r, "FAILED", FALSE) /\ Fine
  <2>1. Quiet
    BY <1>1, <1>3, QuietFacts DEF CInv
  <2>2. "FAILED" \in TERMINAL_RUN_STATES
    BY DEF TERMINAL_RUN_STATES
  <2> QED
    BY <1>1, <1>3, <2>1, <2>2, FinishKeeps
<1>4. CASE Step(r, row[r], Attached(obj[r])) /\ Fine
  <2>1. Quiet
    BY <1>1, <1>4, QuietFacts DEF CInv
  <2> QED
    BY <1>1, <1>2, <1>4, <2>1, UpKeeps
<1>5. CASE Fault /\ row' = saved /\ turn' = FirstOf("reconcile", saved) /\ UNCHANGED <<saved, obj>>
  <2>1. spent.crashes # 0
    BY <1>1 DEF CInv, Undisturbed
  <2>2. spent' \in Spending /\ spent'.crashes # 0 /\ Losses' = Losses + 1
    BY <1>5, <2>1 DEF Fault, CInv, TypeOK, Spending, Losses
  <2> QED
    BY <1>1, <1>5, <2>2, RestartKeeps
<1> QED
  BY <1>3, <1>4, <1>5 DEF ReconcileOne

LEMMA BeginsKeeps ==
  ASSUME CInv, TickBegins
  PROVE  CInv'
<1>1. /\ turn = Idle /\ saved = row /\ row' = row /\ turn' = FirstOf("stop", saved)
      /\ UNCHANGED <<site, saved, obj, subm, spent>>
  BY DEF TickBegins, CInv, TurnOK
<1>2. "stop" \in StageNames
  BY DEF StageNames
<1>3. TurnAt(turn', row') /\ turn' # Idle /\ turn'.at # "reconcile"
  BY <1>1, <1>2, FirstOfFacts
<1>4. TurnOK'
  <2>1. TurnAt(turn', row') = TurnAt(turn, row)'
    BY <1>1 DEF TurnAt, Concerns, Idle, Done, Live
  <2> QED
    BY <1>3, <2>1 DEF TurnOK, Idle
<1>5. RowsOK'
  BY <1>1 DEF CInv, RowsOK, RowOK, Cleared, released, HasFixedService
<1>6. OnePort'
  BY <1>1 DEF CInv, OnePort, HasFixedService
<1>7. Undisturbed'
  BY <1>1, <1>3 DEF CInv, Undisturbed, HasFixedService
<1>8. TypeOK' /\ Counted'
  BY <1>1 DEF CInv, TypeOK, Counted, Losses
<1> QED
  BY <1>4, <1>5, <1>6, <1>7, <1>8 DEF CInv

LEMMA CommitKeeps ==
  ASSUME CInv, Commit
  PROVE  CInv'
<1>1. /\ saved' = row /\ turn' = Idle
      /\ UNCHANGED <<site, row, obj, subm, spent>>
  BY DEF Commit
<1>2. TurnOK'
  BY <1>1 DEF TurnOK, TurnAt, Idle
<1>3. RowsOK'
  BY <1>1 DEF CInv, RowsOK, RowOK, Cleared, released, HasFixedService
<1>4. OnePort'
  BY <1>1 DEF CInv, OnePort, HasFixedService
<1>5. Undisturbed'
  BY <1>1 DEF CInv, Undisturbed, HasFixedService, Idle
<1>6. TypeOK' /\ Counted'
  BY <1>1 DEF CInv, TypeOK, Counted, Losses
<1> QED
  BY <1>2, <1>3, <1>4, <1>5, <1>6 DEF CInv

(***************************************************************************)
(* Requests and time: a row is written between two ticks.                  *)
(***************************************************************************)
LEMMA WriteKeeps ==
  ASSUME CInv, NEW r \in Runs, NEW rw \in Rows, turn = Idle,
         saved' = [saved EXCEPT ![r] = rw], row' = saved',
         UNCHANGED <<site, turn, obj, subm>>, Calm,
         RowOK(rw), ~Settled(rw), ~Settled(saved[r]),
         rw.st \in Fresh => saved[r].st \in Fresh, rw.st \in Up => saved[r].st \in Up,
         rw.st \in Early => saved[r].st \in Early
  PROVE  CInv'
<1>1. row = saved /\ HasFixedService' = HasFixedService
  BY DEF CInv, TurnOK, HasFixedService
<1>2. /\ row' \in [Runs -> Rows] /\ row'[r] = rw
      /\ \A q \in Runs : q # r => row'[q] = row[q]
  BY <1>1 DEF CInv, TypeOK
<1>3. TypeOK'
  BY <1>2 DEF CInv, TypeOK, Calm, Spending
<1>4. TurnOK'
  BY DEF TurnOK, TurnAt, Idle
<1>5. RowsOK'
  BY <1>1, <1>2 DEF CInv, RowsOK, RowOK, Cleared, released, Settled, Terminal
<1>6. OnePort'
  BY <1>1 DEF CInv, OnePort
<1>7. Undisturbed'
  <2>1. \A q \in Runs : Standing(row[q], obj[q]) => Standing(row'[q], obj[q])
    BY <1>1, <1>2 DEF Standing
  <2> QED
    BY <1>1, <2>1 DEF CInv, Undisturbed, Calm, Standing
<1>8. Counted'
  <2>1. Losses \in Nat /\ Losses' \in Nat /\ Losses' >= Losses
    BY LossesFacts DEF CInv
  <2>2. \A q \in Runs : subm[q].n \in Nat
    BY DEF CInv, TypeOK
  <2> QED
    BY <1>1, <1>2, <2>1, <2>2 DEF CInv, Counted
<1> QED
  BY <1>3, <1>4, <1>5, <1>6, <1>7, <1>8 DEF CInv

LEMMA RequestsKeep ==
  ASSUME CInv, NEW r \in Runs,
         RequestLaunch(r) \/ RequestRelease(r) \/ RequestStop(r) \/ TimePasses(r)
  PROVE  CInv'
<1>1. /\ turn = Idle /\ row' = saved' /\ UNCHANGED <<site, turn, obj, subm>> /\ Calm
      /\ saved[r] \in Rows /\ RowOK(saved[r])
  <2>1. turn = Idle /\ row' = saved' /\ UNCHANGED <<site, turn, obj, subm>>
          /\ (spent' = spent \/ Upset)
    BY DEF RequestLaunch, RequestRelease, RequestStop, TimePasses, Write
  <2>2. Calm
    BY <2>1, QuietFacts DEF Quiet, CInv, Fine
  <2> QED
    BY <2>1, <2>2 DEF CInv, TypeOK, RowsOK
<1>2. CASE RequestLaunch(r)
  <2> DEFINE new == [NoRow EXCEPT !.st = "PENDING"]
  <2>1. saved[r].st = "absent" /\ saved' = [saved EXCEPT ![r] = new]
    BY <1>2 DEF RequestLaunch, Write
  <2>2. new \in Rows /\ ~new.tp /\ new.ep = "" /\ new.st = "PENDING"
    BY NoRowType
  <2> HIDE DEF new
  <2>3. RowOK(new) /\ ~Settled(new) /\ ~Settled(saved[r])
    BY <2>1, <2>2 DEF RowOK, Settled, Terminal, TERMINAL_RUN_STATES
  <2>4. saved[r].st \in Fresh /\ saved[r].st \in Early /\ new.st \notin Up
    BY <2>1, <2>2 DEF Fresh, Early, Up
  <2> QED
    BY <1>1, <2>1, <2>2, <2>3, <2>4, WriteKeeps
<1>3. CASE RequestRelease(r)
  <2> DEFINE new == [saved[r] EXCEPT !.release = TRUE]
  <2>1. saved[r].st = "SERVING" /\ saved' = [saved EXCEPT ![r] = new]
    BY <1>3 DEF RequestRelease, Write
  <2>2. new \in Rows /\ new.tp = saved[r].tp /\ new.ep = saved[r].ep /\ new.st = saved[r].st
    BY <1>1 DEF Rows
  <2> HIDE DEF new
  <2>3. RowOK(new) /\ ~Settled(new) /\ ~Settled(saved[r])
    BY <1>1, <2>1, <2>2 DEF RowOK, Settled, Terminal, TERMINAL_RUN_STATES
  <2> QED
    BY <1>1, <2>1, <2>2, <2>3, WriteKeeps
<1>4. CASE RequestStop(r)
  <2> DEFINE new == [saved[r] EXCEPT !.stop = TRUE]
  <2>1. Live(saved[r]) /\ saved' = [saved EXCEPT ![r] = new]
    BY <1>4 DEF RequestStop, CInv, TypeOK
  <2>2. new \in Rows /\ new.tp = saved[r].tp /\ new.ep = saved[r].ep /\ new.st = saved[r].st
    BY <1>1 DEF Rows
  <2> HIDE DEF new
  <2>3. RowOK(new) /\ ~Settled(new) /\ ~Settled(saved[r])
    BY <1>1, <2>1, <2>2 DEF RowOK, Settled, Terminal, TERMINAL_RUN_STATES, Live, LiveStates
  <2> QED
    BY <1>1, <2>1, <2>2, <2>3, WriteKeeps
<1>5. CASE TimePasses(r)
  <2> DEFINE new == [saved[r] EXCEPT !.age = saved[r].age + 1]
  <2>1. /\ saved[r].st \in {"LAUNCHING", "WAITING_READY"} \/ saved[r].tp
        /\ saved' = [saved EXCEPT ![r] = new] /\ saved[r].age < 2
    BY <1>5 DEF TimePasses, Write
  <2>2. saved[r].age + 1 \in 0..2
    <3>1. saved[r].age \in 0..2
      BY <1>1, AgeRange, Zenon
    <3> QED
      BY <2>1, <3>1
  <2> DEFINE later == saved[r].age + 1
  <2> HIDE DEF later
  <2>a. new = [saved[r] EXCEPT !.age = later] /\ later \in 0..2
    BY <2>2 DEF later
  <2> HIDE DEF new
  <2>3. new \in Rows /\ new.tp = saved[r].tp /\ new.ep = saved[r].ep /\ new.st = saved[r].st
    BY <1>1, <2>a DEF Rows
  <2>4. RowOK(new) /\ ~Settled(new) /\ ~Settled(saved[r])
    BY <1>1, <2>1, <2>3 DEF RowOK, Settled, Terminal, TERMINAL_RUN_STATES
  <2> QED
    BY <1>1, <2>1, <2>3, <2>4, WriteKeeps
<1> QED
  BY <1>2, <1>3, <1>4, <1>5

(***************************************************************************)
(* The benchmark platform, the cluster and its operators.                  *)
(***************************************************************************)
LEMMA WorldKeeps ==
  ASSUME CInv, NEW r \in Runs, NEW o \in Objs, obj' = [obj EXCEPT ![r] = o],
         UNCHANGED <<site, saved, row, turn>>, Quiet,
         Cleared(row[r], o),
         HasFixedService => /\ obj[r].svc = "none" => o.svc = "none"
                            /\ spent.crashes = 0 => Standing(row[r], o)
  PROVE  CInv'
<1>1. HasFixedService' = HasFixedService /\ Calm
  BY DEF HasFixedService, Quiet
<1>2. /\ obj' \in [Runs -> Objs] /\ obj'[r] = o
      /\ \A q \in Runs : q # r => obj'[q] = obj[q]
  BY DEF CInv, TypeOK
<1>3. TypeOK'
  BY <1>1, <1>2 DEF CInv, TypeOK, Calm, Spending, Submissions
<1>4. TurnOK'
  BY DEF CInv, TurnOK, TurnAt, Concerns, Live
<1>5. RowsOK'
  BY <1>1, <1>2 DEF CInv, RowsOK, RowOK, Cleared, released
<1>6. OnePort'
  BY <1>1, <1>2 DEF CInv, OnePort
<1>7. Undisturbed'
  BY <1>1, <1>2 DEF CInv, Undisturbed, Calm, Standing
<1>8. Counted'
  <2>1. Losses \in Nat /\ Losses' \in Nat /\ Losses' >= Losses
    BY <1>1, LossesFacts DEF CInv
  <2>2. \A q \in Runs : subm[q].n \in Nat
    BY DEF CInv, TypeOK
  <2> QED
    BY <2>1, <2>2 DEF CInv, Counted, Quiet
<1> QED
  BY <1>3, <1>4, <1>5, <1>6, <1>7, <1>8 DEF CInv

\* A move of the cluster that leaves the workload's object and the Service alone.
LEMMA PodKeeps ==
  ASSUME CInv, NEW r \in Runs, NEW o \in Objs, Cluster(r, o), Fine \/ Upset,
         o.prim = obj[r].prim, o.svc = obj[r].svc
  PROVE  CInv'
<1>1. Quiet /\ obj' = [obj EXCEPT ![r] = o] /\ UNCHANGED <<site, saved, row, turn>>
  BY QuietFacts DEF Cluster, CInv
<1>2. Cleared(row[r], o)
  BY DEF CInv, RowsOK, Cleared, released
<1>3. HasFixedService /\ spent.crashes = 0 => Standing(row[r], o)
  BY DEF CInv, Undisturbed, Standing
<1> QED
  BY <1>1, <1>2, <1>3, WorldKeeps

\* On a site of TuningRuns no Service holds the fixed port.
LEMMA CustomKeeps ==
  ASSUME CInv, site.kind = "custom", NEW r \in Runs, NEW o \in Objs, Cluster(r, o), Fine,
         o.prim = obj[r].prim
  PROVE  CInv'
<1>1. Quiet /\ obj' = [obj EXCEPT ![r] = o] /\ UNCHANGED <<site, saved, row, turn>>
  BY QuietFacts DEF Cluster, CInv
<1>2. ~HasFixedService
  BY DEF HasFixedService
<1>3. Cleared(row[r], o)
  BY <1>2 DEF CInv, RowsOK, Cleared, released
<1> QED
  BY <1>1, <1>2, <1>3, WorldKeeps

LEMMA PodsKeep ==
  ASSUME CInv, NEW r \in Runs, PodProgress(r) \/ PodUpset(r) \/ PodTerminates(r)
  PROVE  CInv'
<1>1. obj[r] \in Objs
  BY DEF CInv, TypeOK
<1>2. \A p \in Pods :
        LET o == [obj[r] EXCEPT !.pod = p]
        IN  o \in Objs /\ o.prim = obj[r].prim /\ o.svc = obj[r].svc
  BY <1>1 DEF Objs
<1>3. \A p \in {"ready", "pulling", "restarted"} :
        LET o == [obj[r] EXCEPT !.pod = p, !.inc = @ + 1]
        IN  o \in Objs /\ o.prim = obj[r].prim /\ o.svc = obj[r].svc
  <2> SUFFICES ASSUME NEW p \in {"ready", "pulling", "restarted"}
               PROVE  LET o == [obj[r] EXCEPT !.pod = p, !.inc = @ + 1]
                      IN  o \in Objs /\ o.prim = obj[r].prim /\ o.svc = obj[r].svc
    OBVIOUS
  <2> DEFINE k == obj[r].inc + 1
             o == [obj[r] EXCEPT !.pod = p, !.inc = k]
  <2>1. k \in Nat
    BY <1>1 DEF Objs
  <2> HIDE DEF k
  <2>2. o \in Objs
    BY <1>1, <2>1 DEF Objs, Pods
  <2>3. o.prim = obj[r].prim /\ o.svc = obj[r].svc
    BY <1>1 DEF Objs
  <2> QED
    BY <2>2, <2>3 DEF k
<1>4. CASE PodProgress(r)
  BY <1>2, <1>4, PodKeeps DEF PodProgress, Pods
<1>5. CASE PodTerminates(r)
  BY <1>2, <1>5, PodKeeps DEF PodTerminates, Pods
<1>6. CASE PodUpset(r)
  <2>1. PICK o \in Befalls(obj[r]) : Cluster(r, o) /\ Upset
    BY <1>6 DEF PodUpset
  <2>2. o \in Objs /\ o.prim = obj[r].prim /\ o.svc = obj[r].svc
    BY <1>2, <1>3, <2>1 DEF Befalls, Pods
  <2> QED
    BY <2>1, <2>2, PodKeeps
<1> QED
  BY <1>4, <1>5, <1>6

\* A Service that was deleted goes, and so does a chart that is uninstalled:
\* not from under a run that is up.
LEMMA ServicesKeep ==
  ASSUME CInv, NEW r \in Runs, ServiceGoes(r) \/ ChartInstalled(r) \/ ChartUninstalled(r)
  PROVE  CInv'
<1>1. obj[r] \in Objs /\ Cleared(row[r], obj[r])
        /\ (HasFixedService /\ spent.crashes = 0 => Standing(row[r], obj[r]))
  BY DEF CInv, TypeOK, RowsOK, Undisturbed
<1>2. CASE ServiceGoes(r)
  <2> DEFINE o == [obj[r] EXCEPT !.svc = "none"]
  <2>1. o \in Objs /\ o.prim = obj[r].prim /\ o.svc = "none"
    BY <1>1 DEF Objs
  <2>2. obj[r].svc = "deleting" /\ Cluster(r, o) /\ Fine
    BY <1>2 DEF ServiceGoes
  <2> HIDE DEF o
  <2>3. Quiet /\ obj' = [obj EXCEPT ![r] = o] /\ UNCHANGED <<site, saved, row, turn>>
    BY <2>2, QuietFacts DEF Cluster, CInv
  <2>4. Cleared(row[r], o)
    BY <1>1, <2>1 DEF Cleared, released
  <2>5. HasFixedService /\ spent.crashes = 0 => Standing(row[r], o)
    BY <1>1, <2>1, <2>2 DEF Standing
  <2> QED
    BY <2>1, <2>3, <2>4, <2>5, WorldKeeps
<1>3. CASE ChartInstalled(r)
  <2> DEFINE a == [obj[r] EXCEPT !.work = TRUE]
             b == [obj[r] EXCEPT !.phase = "Failed"]
  <2>1. /\ a \in Objs /\ a.prim = obj[r].prim /\ a.svc = obj[r].svc
        /\ b \in Objs /\ b.prim = obj[r].prim /\ b.svc = obj[r].svc
    BY <1>1 DEF Objs, Phases
  <2>2. (Cluster(r, a) /\ Fine) \/ (Cluster(r, b) /\ Upset)
    BY <1>3 DEF ChartInstalled
  <2> HIDE DEF a, b
  <2> QED
    BY <2>1, <2>2, PodKeeps
<1>4. CASE ChartUninstalled(r)
  <2> DEFINE s == IF obj[r].owned THEN "none" ELSE obj[r].svc
             o == [obj[r] EXCEPT !.prim = "none", !.work = FALSE, !.svc = s, !.owned = FALSE]
  <2>1. obj[r].prim = "deleting" /\ Cluster(r, o) /\ Fine
    BY <1>4 DEF ChartUninstalled
  <2>2. /\ s \in {"none", "claim", "own", "deleting"}
        /\ obj[r].svc = "none" => s = "none"
    <3>1. obj[r].svc \in {"none", "claim", "own", "deleting"}
      BY <1>1 DEF Objs
    <3> QED
      BY <3>1
  <2> HIDE DEF s
  <2>3. o \in Objs /\ o.prim = "none" /\ o.svc = s
    BY <1>1, <2>2 DEF Objs
  <2> HIDE DEF o
  <2>4. Quiet /\ obj' = [obj EXCEPT ![r] = o] /\ UNCHANGED <<site, saved, row, turn>>
    BY <2>1, QuietFacts DEF Cluster, CInv
  <2>5. Cleared(row[r], o)
    BY <1>1, <2>1 DEF Cleared
  <2>6. HasFixedService /\ spent.crashes = 0 => Standing(row[r], o)
    BY <1>1, <2>1, <2>2, <2>3 DEF Standing
  <2> QED
    BY <2>2, <2>3, <2>4, <2>5, <2>6, WorldKeeps
<1> QED
  BY <1>2, <1>3, <1>4

LEMMA OperatorKeeps ==
  ASSUME CInv, NEW r \in Runs,
         OperatorReads(r) \/ OperatorActs(r) \/ TooOld(r) \/ Collected(r)
  PROVE  CInv'
<1>1. obj[r] \in Objs /\ site.kind = "custom" /\ Fine
  BY DEF CInv, TypeOK, OperatorReads, OperatorActs, TooOld, Collected
<1>2. /\ [obj[r] EXCEPT !.seen = TRUE] \in Objs
      /\ [obj[r] EXCEPT !.seen = TRUE].prim = obj[r].prim
      /\ [obj[r] EXCEPT !.old = TRUE] \in Objs
      /\ [obj[r] EXCEPT !.old = TRUE].prim = obj[r].prim
  BY <1>1 DEF Objs
<1>3. [obj[r] EXCEPT !.work = FALSE, !.svc = "none", !.phase = ""] \in Objs
  BY <1>1 DEF Objs, Phases
<1>4. [obj[r] EXCEPT !.work = FALSE, !.svc = "none", !.phase = ""].prim = obj[r].prim
  BY <1>1 DEF Objs
<1>5. Reconciled(obj[r]) \in Objs /\ Reconciled(obj[r]).prim = obj[r].prim
  <2>1. ASSUME NEW x \in Objs, NEW phase \in Phases
        PROVE  Reported(x, phase) \in Objs /\ Reported(x, phase).prim = x.prim
    <3> DEFINE p == IF x.prim = "live" THEN phase ELSE ""
    <3>1. p \in Phases
      BY DEF Phases
    <3> HIDE DEF p
    <3>2. [x EXCEPT !.seen = FALSE, !.phase = p] \in Objs
      BY <3>1 DEF Objs
    <3>3. [x EXCEPT !.seen = FALSE, !.phase = p].prim = x.prim
      BY DEF Objs
    <3> QED
      BY <3>2, <3>3 DEF Reported, p
  <2>2. TornDown(obj[r]) \in Objs /\ TornDown(obj[r]).prim = obj[r].prim
    BY <1>1 DEF TornDown, Objs
  <2>3. Ensured(obj[r]) \in Objs /\ Ensured(obj[r]).prim = obj[r].prim
    BY <1>1 DEF Ensured, Objs
  <2>4. phaseFromPod(obj[r]) \in Phases /\ "Expired" \in Phases
    BY DEF phaseFromPod, Phases
  <2> QED
    BY <2>1, <2>2, <2>3, <2>4 DEF Reconciled
<1> QED
  BY <1>1, <1>2, <1>3, <1>4, <1>5, CustomKeeps
     DEF OperatorReads, OperatorActs, TooOld, Collected

LEMMA BenchmarkKeeps ==
  ASSUME CInv, NEW r \in Runs, BenchmarkEnds(r)
  PROVE  CInv'
<1>1. /\ UNCHANGED <<site, saved, row, turn, obj, spent>>
      /\ subm' \in Submissions /\ \A q \in Runs : subm'[q].n = subm[q].n
  BY DEF BenchmarkEnds, CInv, TypeOK, Submissions
<1>2. Quiet
  BY <1>1 DEF Quiet, Calm, CInv, TypeOK, Spending
<1>3. obj[r] \in Objs /\ obj' = [obj EXCEPT ![r] = obj[r]] /\ Cleared(row[r], obj[r])
        /\ (HasFixedService /\ spent.crashes = 0 => Standing(row[r], obj[r]))
  BY <1>1 DEF CInv, TypeOK, RowsOK, Undisturbed
<1> QED
  BY <1>1, <1>2, <1>3, WorldKeeps

(***************************************************************************)
(* The invariant holds, and the properties follow from it.                 *)
(***************************************************************************)
LEMMA InitKeeps == Init => CInv
<1> SUFFICES ASSUME Init PROVE CInv
  OBVIOUS
<1>1. \A r \in Runs : row[r] = NoRow /\ saved[r] = NoRow /\ obj[r] = Nothing
                        /\ subm[r].n = 0
  BY DEF Init
<1>2. Nothing \in Objs /\ Nothing.svc = "none"
  BY DEF Nothing, Objs, Pods, Phases
<1>3. TypeOK
  BY <1>2, NoRowType DEF Init, TypeOK
<1>4. TurnOK
  BY DEF Init, TurnOK, TurnAt
<1>5. ~Terminal(NoRow) /\ ~NoRow.tp /\ NoRow.ep # "port" /\ NoRow.st \notin Up
  BY NoRowType DEF Terminal, TERMINAL_RUN_STATES, Up
<1>6. RowsOK
  BY <1>1, <1>5 DEF RowsOK, RowOK, Cleared, Settled
<1>7. OnePort
  BY <1>1, <1>2 DEF OnePort
<1>8. Undisturbed
  BY <1>1, <1>2, <1>5 DEF Init, Undisturbed, Standing, Idle
<1>9. Counted
  BY <1>1 DEF Init, Counted, Losses
<1> QED
  BY <1>3, <1>4, <1>6, <1>7, <1>8, <1>9 DEF CInv

\* Every step of the tick, of a request, of the platform or of the cluster
\* keeps the invariant.
LEMMA StepKeeps == CInv /\ [Next]_vars => CInv'
<1> SUFFICES ASSUME CInv, [Next]_vars PROVE CInv'
  OBVIOUS
<1>1. CASE UNCHANGED vars
  BY <1>1 DEF vars, CInv, TypeOK, TurnOK, TurnAt, Concerns, Live, RowsOK, RowOK, Cleared,
              released, HasFixedService, OnePort, Undisturbed, Counted, Losses
<1>2. ASSUME NEW r \in Runs, Advance(r) PROVE CInv'
  BY <1>2, LaunchKeeps, DeferredKeeps, StartupKeeps, HealthKeeps, MeasuredKeeps DEF Advance
<1>3. CASE Tick
  BY <1>2, <1>3, BeginsKeeps, CommitKeeps, StopKeeps, PlaceKeeps, ReapKeeps, ReconcileKeeps
     DEF Tick
<1>4. CASE Requests
  BY <1>4, RequestsKeep DEF Requests
<1>5. ASSUME NEW r \in Runs, BenchmarkEnds(r) \/ PodUpset(r) \/ TooOld(r) \/ ClusterMoves(r)
                               \/ OperatorMoves(r)
      PROVE  CInv'
  BY <1>5, BenchmarkKeeps, PodsKeep, ServicesKeep, OperatorKeeps
     DEF ClusterMoves, OperatorMoves
<1> QED
  BY <1>1, <1>3, <1>4, <1>5, LostKeeps DEF Next

LEMMA CInvHolds == Spec => []CInv
BY InitKeeps, StepKeeps, PTL DEF Spec

\* OverIsClean: whatever calls fail and wherever a tick is cut off between what
\* it does to the cluster and its commit, a run whose row says it is over and
\* torn down, and which the janitor did not give up on, holds no cards and no
\* port (_begin_teardown, _finish, _reap_teardowns, release_leftovers).
THEOREM OverRunsAreClean == Spec => []OverIsClean
<1>1. CInv => OverIsClean
  BY DEF CInv, TurnOK, RowsOK, Cleared, Settled, OverIsClean
<1> QED
  BY <1>1, CInvHolds, PTL

\* PortLeadsHome: on a site with one fixed NodePort, while no tick is lost, no
\* other run's Service answers on the port a run is checked or measured on,
\* for any number of runs and whatever their registrations claim (port_holder,
\* launch_nodes, _reclaim_orphan_port).
THEOREM PortsLeadHome == Spec => []PortLeadsHome
<1>1. CInv => PortLeadsHome
  <2> SUFFICES ASSUME CInv, NEW r \in Runs, NEW q \in Runs, spent.crashes = 0, r # q,
                      row[r].st \in {"HEALTH_CHECK", "BENCHING", "SERVING"},
                      row[r].ep = "port"
               PROVE  obj[q].svc # "own"
    BY DEF PortLeadsHome
  <2>1. HasFixedService
    BY DEF CInv, RowsOK, RowOK
  <2>2. obj[r].svc # "none"
    BY <2>1 DEF CInv, Undisturbed, Standing, Up
  <2> QED
    BY <2>1, <2>2 DEF CInv, OnePort
<1> QED
  BY <1>1, CInvHolds, PTL

\* SubmittedOnce: a run reaches the benchmark platform once, and once more at
\* most for every tick that was cut off and every answer that was lost
\* (bench.start, the tick's commit).
THEOREM SubmittedOnceOrLost == Spec => []SubmittedOnce
<1>1. CInv => SubmittedOnce
  <2> SUFFICES ASSUME CInv, NEW r \in Runs
               PROVE  subm[r].n <= 1 + spent.crashes + spent.faults
    BY DEF SubmittedOnce
  <2>1. subm[r].n <= 1 + (spent.crashes + spent.faults)
    BY DEF CInv, Counted, Losses
  <2>2. spent.crashes \in Nat /\ spent.faults \in Nat /\ subm[r].n \in Nat
    BY DEF CInv, TypeOK
  <2> QED
    BY <2>1, <2>2
<1> QED
  BY <1>1, CInvHolds, PTL
=============================================================================

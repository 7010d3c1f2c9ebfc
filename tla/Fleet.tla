------------------------------- MODULE Fleet -------------------------------
(***************************************************************************)
(* The orchestrator's core: machines and their leases, the runs placed on  *)
(* them, the containers those runs start, and the teardown janitor         *)
(* (control/orchestrator/supervisor.py, lifecycle.py, packing.py,          *)
(* control/run_nodes.py, api/leases.py, api/runs.py, api/campaigns.py).    *)
(*                                                                         *)
(* One worker process ticks for ever.  A tick is a fixed sequence of       *)
(* phases; each phase queries the rows it will handle (todo) and then      *)
(* handles them one by one, and one step here is one row's handler.  A     *)
(* tick commits once, at its end; the API's requests modelled here fall    *)
(* between two ticks.  The outside world (containers, clocks) moves at any *)
(* time.                                                                   *)
(*                                                                         *)
(* A container is the pair of a run and a machine it stands on.  What the  *)
(* worker knows of it comes from the driver's calls, which can time out    *)
(* (the call raises) or be refused (ssh exits non-zero, which the driver   *)
(* reads as "no such container").  SshFaults says which happen.            *)
(***************************************************************************)
EXTENDS Integers, FiniteSets, RunStates

CONSTANTS
  Machines,     \* ids of the machine rows
  Gpus,         \* [Machines -> Nat]: gpu_count
  K8s,          \* machines whose driver has a scheduler's queue
  Pools,        \* machines that are k8s node pools, always shared
  Campaigns,
  Share,        \* [Campaigns -> BOOLEAN]: share_machine
  Pins,         \* [Campaigns -> SUBSET Machines]: machine_names
  Group,        \* [Campaigns -> SUBSET Machines]: node_group's members, or {}
  Leader,       \* [Campaigns -> Machines]: rank 0 of the group
  Candidates,   \* ids of the candidate rows
  CampaignOf,   \* [Candidates -> Campaigns]
  Cards,        \* [Candidates -> Nat]: cards the config uses in all
  MaxRuns,      \* bound: run rows an instance may create
  MAX_ATTEMPTS_PER_CANDIDATE,
  SshFaults,    \* subset of {"timeout", "refused"}
  Requests      \* the outside requests an instance serves

Runs == 1..MaxRuns

RequestNames ==
  {"lease", "end", "state", "stop", "force_stop", "status", "retry", "window",
   "due", "restart"}

ASSUME MachinesAssumption == Machines \subseteq Nat /\ IsFiniteSet(Machines)
ASSUME GpusAssumption == Gpus \in [Machines -> Nat]
ASSUME SubstrateAssumption == K8s \subseteq Machines /\ Pools \subseteq K8s
ASSUME CampaignAssumption ==
  /\ Share \in [Campaigns -> BOOLEAN]
  /\ Pins \in [Campaigns -> SUBSET Machines]
  /\ Group \in [Campaigns -> SUBSET Machines]
  /\ Leader \in [Campaigns -> Machines]
ASSUME GroupAssumption == \A k \in Campaigns : Group[k] # {} => Leader[k] \in Group[k]
ASSUME CandidateAssumption ==
  /\ Candidates \subseteq Nat
  /\ CampaignOf \in [Candidates -> Campaigns]
  /\ Cards \in [Candidates -> Nat]
ASSUME BoundAssumption == MaxRuns \in Nat /\ MAX_ATTEMPTS_PER_CANDIDATE \in Nat
ASSUME FaultAssumption ==
  SshFaults \subseteq {"timeout", "refused"} /\ Requests \subseteq RequestNames

VARIABLES
  \* machines
  state,       \* AWAY, AVAILABLE, RESERVED
  lease,       \* NONE, ACTIVE, DRAINING, RELEASED
  endMode,     \* lease_end_mode
  due,         \* lease_due_at against the clock: never, later, passed
  deadline,    \* lease_deadline_at, likewise
  attention,   \* needs_attention: quarantined
  \* runs
  status,      \* RunStatus, or NONE for an id not used yet
  cand,        \* the candidate the run measures
  at,          \* its nodes: the machines it occupies
  master,      \* rank 0
  cards,       \* gpu_indices, the same on every node
  pending,     \* teardown_pending
  age,         \* time since finished_at: 0, 1 = past grace, 2 = past giveup
  class,       \* failure_class, as the retry rule tells them apart
  stop,        \* the stop_requested event waiting for it
  \* candidates and campaigns
  cstat, camp, window,
  \* outside: the machines a container of the run stands on
  box,
  \* the worker
  phase, todo, blocked

machineVars == <<state, lease, endMode, due, deadline, attention>>
leaseVars == <<lease, endMode, due, deadline>>
rowVars == <<cand, at, master, cards>>
runVars == <<status, cand, at, master, cards, pending, age, class, stop>>
campVars == <<cstat, camp, window>>
workerVars == <<phase, todo, blocked>>
vars == <<machineVars, runVars, campVars, box, workerVars>>

NoCandidate == -1
NoMachine == -1

Classes == {"", "infrastructure", "other", "released"}
Phases ==
  {"idle", "reconcile", "leases", "stops", "paused", "schedule", "advance",
   "windows", "reap"}

(***************************************************************************)
(* Queries over the rows.                                                  *)
(***************************************************************************)
\* Mutant: only failed and killed runs count as over.
LiveButSucceeded(r) == status[r] \notin {"NONE", "FAILED", "KILLED"}
Live(r) == status[r] \in LiveStates
live_runs_on(m) == {r \in Runs : Live(r) /\ m \in at[r]}
teardown_pending_on(m) == {r \in Runs : pending[r] /\ m \in at[r]}
CampaignOfRun(r) == CampaignOf[cand[r]]

\* Mutant: a gang is seen from the machine of its rank 0 only.
GangSeenFromLead(m) == \E r \in live_runs_on(m) : at[r] # {m} /\ master[r] = m
\* A live run with more than one node, one of them here.
machine_hosts_live_gang(m) == \E r \in live_runs_on(m) : at[r] # {m}

\* Mutant: a machine on its way out still takes work.
AcceptsWhileDraining(m) == state[m] # "AWAY"
accepts_new_work(m) == state[m] # "AWAY" /\ lease[m] # "DRAINING"

lease_expired(m) == lease[m] = "ACTIVE" /\ due[m] = "passed"

\* Only paused campaigns use the machine, so its lease clock is stopped.
frozen_by_pause(m) ==
  LET using == {k \in Campaigns : camp[k] \in {"ACTIVE", "PAUSED"} /\ m \in Pins[k]}
  IN  using # {} /\ \A k \in using : camp[k] = "PAUSED"

\* For a machine that is draining in the given mode.
drain_kills_running(m, mode) == mode = "EAGER" \/ deadline[m] = "passed"

(***************************************************************************)
(* The driver, as the worker sees it (control/launch/base.py,              *)
(* control/launch/ssh_docker.py).                                          *)
(***************************************************************************)

\* attach(spec): the deployment is there when its master's container is.  A
\* refused connection reads as gone, a timed out one raises.
attach(r, standing) ==
  {IF master[r] \in standing THEN "there" ELSE "gone"}
    \cup (IF "refused" \in SshFaults THEN {"gone"} ELSE {})
    \cup (IF "timeout" \in SshFaults THEN {"error"} ELSE {})

\* is_gone(handle): no node stands, or none of them could be asked.
is_gone(standing) == standing = {} \/ "refused" \in SshFaults

\* unfinished(handle): the nodes not confirmed gone.  When asking fails, or
\* names nobody, it is the master that counts as stuck.
StuckMachines(r) ==
  {IF names = {} THEN {master[r]} ELSE names :
     names \in {box[r]}
                 \cup (IF "refused" \in SshFaults THEN SUBSET box[r] ELSE {})
                 \cup (IF "timeout" \in SshFaults THEN {{}} ELSE {})}

(***************************************************************************)
(* Ending a run.                                                           *)
(***************************************************************************)

\* Mutant: a stop signal that was delivered counts as a container gone.
OptimisticTeardown(seen, standing) ==
  {t \in [left : SUBSET standing, clean : BOOLEAN] :
     /\ seen # "there" => t.left = standing
     /\ seen = "error" => ~t.clean}

\* _begin_teardown, given what attach answered: the containers left standing
\* and whether the run counts as gone already.  The stop signal may take any
\* of the containers down at once; what outlives a container (a Service) may
\* or may not be released.
BeginTeardown(seen, standing) ==
  {t \in [left : SUBSET standing, clean : BOOLEAN] :
     /\ seen # "there" => t.left = standing
     /\ seen = "error" => ~t.clean
     /\ seen = "there" => (t.clean => is_gone(t.left))}

\* Mutant: a machine is offered back while another run is still dying on it.
ReleaseIgnoringTeardowns(r) ==
  [m \in Machines |->
     IF m \in at[r] /\ state[m] = "RESERVED" /\ live_runs_on(m) \subseteq {r}
     THEN "AVAILABLE" ELSE state[m]]

\* _release_run_machines: _release_machine_if_idle for every node of r, once r
\* itself holds nothing.
ReleaseRunMachines(r) ==
  [m \in Machines |->
     IF /\ m \in at[r]
        /\ state[m] = "RESERVED"
        /\ live_runs_on(m) \subseteq {r}
        /\ teardown_pending_on(m) \subseteq {r}
     THEN "AVAILABLE" ELSE state[m]]

\* _finish: begin the teardown, close the row, and offer the machines back when
\* nothing is left; a teardown not confirmed stays with the janitor.  standing
\* is where the run's containers are when it is called.
Finish(r, target, why, standing) ==
  \E seen \in attach(r, standing) : \E t \in BeginTeardown(seen, standing) :
    /\ status' = [status EXCEPT ![r] = target]
    /\ class' = [class EXCEPT ![r] = why]
    /\ pending' = [pending EXCEPT ![r] = ~t.clean]
    /\ age' = [age EXCEPT ![r] = 0]
    /\ box' = [box EXCEPT ![r] = t.left]
    /\ state' = IF t.clean THEN ReleaseRunMachines(r) ELSE state
    /\ UNCHANGED <<rowVars, stop>>

\* Runs of the candidate that count against its budget: all but those the
\* platform withdrew itself.  r is the one that has just failed.
Attempts(r) ==
  Cardinality({x \in Runs : cand[x] = cand[r] /\ (x = r \/ class[x] # "released")})

Requeue(c) == [cstat EXCEPT ![c] = "VALID"]

\* _fail: _finish as FAILED, then _requeue_if_infrastructure.
Fail(r, why, standing) ==
  /\ Finish(r, "FAILED", why, standing)
  /\ cstat' = IF why = "infrastructure" /\ Attempts(r) < MAX_ATTEMPTS_PER_CANDIDATE
              THEN Requeue(cand[r]) ELSE cstat

(***************************************************************************)
(* The tick: phases, and the rows each one handles.                        *)
(***************************************************************************)
NextPhase ==
  [reconcile |-> "idle",
   idle      |-> "leases",
   leases    |-> "stops",
   stops     |-> "paused",
   paused    |-> "schedule",
   schedule  |-> "advance",
   advance   |-> "windows",
   windows   |-> "reap",
   reap      |-> "idle"]

\* The rows the query at the head of each phase returns.
Worklist(p) ==
  CASE p = "leases"   -> Machines
    [] p = "stops"    -> {r \in Runs : Live(r) /\ stop[r] # "none"}
    [] p = "paused"   -> {r \in Runs : Live(r) /\ camp[CampaignOfRun(r)] = "PAUSED"}
    [] p = "schedule" -> {k \in Campaigns : camp[k] = "ACTIVE" /\ window[k] = "open"}
    [] p = "advance"  -> {r \in Runs : Live(r)}
    [] p = "windows"  -> {r \in Runs : Live(r) /\ window[CampaignOfRun(r)] = "over"}
    [] p = "reap"     -> {r \in Runs : pending[r]}
    [] OTHER          -> {}

EndPhase ==
  /\ todo = {}
  /\ phase' = NextPhase[phase]
  /\ todo' = Worklist(NextPhase[phase])
  /\ blocked' = {}
  /\ UNCHANGED <<machineVars, runVars, campVars, box>>

\* Handle one row of the phase's worklist, and cross it off.
Handle(p, x) ==
  /\ phase = p
  /\ x \in todo
  /\ todo' = todo \ {x}
  /\ UNCHANGED <<phase, blocked>>

\* A row the handler looks at and leaves as it is.
Skip == UNCHANGED <<machineVars, runVars, campVars, box>>

(***************************************************************************)
(* Leases: _advance_leases, one machine at a time.                         *)
(***************************************************************************)

\* The lease as the handler goes on with it: one that fell due starts a polite
\* drain first.
FellDue(m) == lease_expired(m) /\ ~frozen_by_pause(m)
Draining(m) == lease[m] = "DRAINING" \/ FellDue(m)
DrainMode(m) == IF FellDue(m) THEN "POLITE" ELSE endMode[m]
\* Mutant: only the mode is looked at, never the deadline.
KillOnlyEager(m) == Draining(m) /\ DrainMode(m) = "EAGER"
MustKill(m) == Draining(m) /\ drain_kills_running(m, DrainMode(m))

BeginDrain(m) ==
  /\ lease' = [lease EXCEPT ![m] = IF Draining(m) THEN "DRAINING" ELSE lease[m]]
  /\ endMode' = [endMode EXCEPT ![m] = DrainMode(m)]
  /\ UNCHANGED <<due, deadline, attention>>

\* Not draining, or draining politely with runs still on the machine.
KeepLease(m) ==
  /\ Handle("leases", m)
  /\ Draining(m) => live_runs_on(m) # {} /\ ~MustKill(m)
  /\ BeginDrain(m)
  /\ UNCHANGED <<state, runVars, campVars, box>>

\* Kill the live runs of a machine that must be off, one by one; the machine is
\* not released before the next tick.
KillForLease(m, r) ==
  /\ phase = "leases" /\ m \in todo
  /\ MustKill(m) /\ r \in live_runs_on(m)
  /\ BeginDrain(m)
  /\ Finish(r, "KILLED", class[r], box[r])
  /\ todo' = IF live_runs_on(m) = {r} THEN todo \ {m} ELSE todo
  /\ UNCHANGED <<phase, blocked, campVars>>

\* No live run of ours is on it: hand it back as it is.
ReleaseLease(m) ==
  /\ Handle("leases", m)
  /\ Draining(m) /\ live_runs_on(m) = {}
  /\ lease' = [lease EXCEPT ![m] = "RELEASED"]
  /\ endMode' = [endMode EXCEPT ![m] = DrainMode(m)]
  /\ state' = [state EXCEPT ![m] = "AWAY"]
  /\ UNCHANGED <<due, deadline, attention, runVars, campVars, box>>

(***************************************************************************)
(* Stops and pauses.                                                       *)
(***************************************************************************)

\* Mutant: the stop of a campaign forgets to give the candidate back.
StopWithoutRequeue(r) ==
  /\ Handle("stops", r)
  /\ Finish(r, "KILLED", IF stop[r] = "campaign" THEN "released" ELSE class[r], box[r])
  /\ UNCHANGED <<leaseVars, attention, campVars>>

\* _process_stop_requests: a stop of one run is final, a stop of its campaign
\* gives the candidate back uncharged.
ProcessStop(r) ==
  /\ Handle("stops", r)
  /\ LET whole == stop[r] = "campaign"
     IN  /\ Finish(r, "KILLED", IF whole THEN "released" ELSE class[r], box[r])
         /\ cstat' = IF whole THEN Requeue(cand[r]) ELSE cstat
  /\ UNCHANGED <<leaseVars, attention, camp, window>>

\* _release_queued_while_paused: a pod the cluster has not placed yet, or a run
\* still waiting for the cluster's port to launch at all, is withdrawn, uncharged;
\* anything placed, gone or unreadable is left alone.
ReleaseQueued(r) ==
  /\ Handle("paused", r)
  /\ master[r] \in K8s
  /\ status[r] = "PENDING" \/ "there" \in attach(r, box[r])
  /\ Finish(r, "KILLED", "released", box[r])
  /\ cstat' = Requeue(cand[r])
  /\ UNCHANGED <<leaseVars, attention, camp, window>>

KeepWhilePaused(r) == Handle("paused", r) /\ Skip

(***************************************************************************)
(* Placement: _schedule's turns, _start_one and _start_gang.  The order of *)
(* the turns is the machine queue's business; here any order is possible.  *)
(***************************************************************************)
Waiting(k) == {c \in Candidates : CampaignOf[c] = k /\ cstat[c] = "VALID"}

\* Mutant: the cards of a dying run count as free.
TakenByLive(m) == UNION {cards[r] : r \in live_runs_on(m)}
\* packing.free_indices: the indices no live or dying run of the machine holds.
Taken(m) == UNION {cards[r] : r \in live_runs_on(m) \cup teardown_pending_on(m)}
free_indices(m) == (0..(Gpus[m] - 1)) \ Taken(m)

\* packing.choose_next: the widest pending config that fits, ties to the lowest id.
Fitting(n, pool) == {c \in pool : 0 < Cards[c] /\ Cards[c] <= n}
Widest(pool) ==
  CHOOSE c \in pool : \A d \in pool :
    Cards[d] < Cards[c] \/ (Cards[d] = Cards[c] /\ c <= d)
Lowest(pool) == CHOOSE c \in pool : \A d \in pool : c <= d

\* The n lowest of a set of indices.
FirstOf(free, n) == {i \in free : Cardinality({j \in free : j < i}) < n}

usable_machines(k) == {m \in Pins[k] : accepts_new_work(m) /\ ~attention[m]}

\* _may_share: both sides opt in; a node pool is always shared.
may_share(k, m) ==
  m \in Pools \/ (Share[k] /\ \A r \in live_runs_on(m) : Share[CampaignOfRun(r)])

\* Why a usable machine is closed to the campaign whatever its candidates need.
Closed(k, m) ==
  \/ m \in blocked
  \/ machine_hosts_live_gang(m)
  \/ live_runs_on(m) # {} /\ ~may_share(k, m)
  \/ /\ Gpus[m] > 0
     /\ \E r \in live_runs_on(m) \cup teardown_pending_on(m) : cards[r] = {}
  \/ Gpus[m] = 0 /\ live_runs_on(m) \cup teardown_pending_on(m) # {}

FittingOn(k, m) == Fitting(Cardinality(free_indices(m)), Waiting(k))
Takes(k, m) == ~Closed(k, m) /\ (Gpus[m] = 0 \/ FittingOn(k, m) # {})

\* The machines the campaign could use and found occupied, held against
\* everyone behind it in this pass.
Busy(k) ==
  {m \in usable_machines(k) :
     \/ Closed(k, m)
     \/ ~Takes(k, m) /\ Fitting(Gpus[m], Waiting(k)) # {}}

\* _group_is_idle, and nobody ahead holds a member.
GroupAccepts(k) == \A m \in Group[k] : accepts_new_work(m) /\ ~attention[m]
GroupIsIdle(k) ==
  /\ GroupAccepts(k)
  /\ \A m \in Group[k] :
       /\ Gpus[m] > 0
       /\ live_runs_on(m) = {} /\ teardown_pending_on(m) = {}
GroupFree(k) == GroupIsIdle(k) /\ Group[k] \cap blocked = {}

\* Cards per node, where the world divides over the members and fits each.
PerNode(k, c) == Cards[c] \div Cardinality(Group[k])
GangFitting(k) ==
  LET n == Cardinality(Group[k])
  IN  {c \in Waiting(k) :
         /\ Cards[c] >= n /\ Cards[c] % n = 0
         /\ \A m \in Group[k] : PerNode(k, c) <= Gpus[m]}
\* Widest per node first, ties to the lowest id.
WidestGang(k) ==
  CHOOSE c \in GangFitting(k) : \A d \in GangFitting(k) :
    PerNode(k, d) < PerNode(k, c) \/ (PerNode(k, d) = PerNode(k, c) /\ c <= d)
GangBusy(k) == IF ~GroupFree(k) /\ GroupAccepts(k) THEN Group[k] ELSE {}

\* Bound: an instance creates at most MaxRuns run rows, in id order.
NextRun(r) == status[r] = "NONE" /\ \A x \in 1..(r - 1) : status[x] # "NONE"

\* Every member of the run is taken off the market.
Reserve(members, lead) ==
  [m \in Machines |-> IF m \in members THEN "RESERVED" ELSE state[m]]

\* _create_run: reserve every member, insert the row, spend the candidate.
CreateRun(r, c, members, lead, indices) ==
  /\ NextRun(r)
  /\ state' = Reserve(members, lead)
  /\ status' = [status EXCEPT ![r] = "PENDING"]
  /\ cand' = [cand EXCEPT ![r] = c]
  /\ at' = [at EXCEPT ![r] = members]
  /\ master' = [master EXCEPT ![r] = lead]
  /\ cards' = [cards EXCEPT ![r] = indices]
  /\ cstat' = [cstat EXCEPT ![c] = "EXHAUSTED"]
  /\ UNCHANGED <<leaseVars, attention, pending, age, class, stop, camp, window, box>>

\* The campaign's turn places a run on the first machine, in id order, that
\* takes one; it stays in the queue for another turn.
StartOne(k) ==
  /\ phase = "schedule" /\ k \in todo
  /\ Group[k] = {} /\ Waiting(k) # {}
  /\ \E m \in usable_machines(k), r \in Runs :
       /\ Takes(k, m)
       /\ \A o \in usable_machines(k) : o < m => ~Takes(k, o)
       /\ LET c == IF Gpus[m] = 0 THEN Lowest(Waiting(k)) ELSE Widest(FittingOn(k, m))
              i == IF Gpus[m] = 0 THEN {} ELSE FirstOf(free_indices(m), Cards[c])
          IN  CreateRun(r, c, {m}, m, i)
  /\ UNCHANGED workerVars

StartGang(k) ==
  /\ phase = "schedule" /\ k \in todo
  /\ Cardinality(Group[k]) >= 2
  /\ GroupFree(k) /\ Group[k] \cap K8s = {} /\ GangFitting(k) # {}
  /\ \E r \in Runs :
       LET c == WidestGang(k)
       IN  CreateRun(r, c, Group[k], Leader[k], 0..(PerNode(k, c) - 1))
  /\ UNCHANGED workerVars

CanStart(k) ==
  /\ \E r \in Runs : NextRun(r)
  /\ Waiting(k) # {}
  /\ IF Group[k] = {}
     THEN \E m \in usable_machines(k) : Takes(k, m)
     ELSE /\ Cardinality(Group[k]) >= 2
          /\ GroupFree(k) /\ Group[k] \cap K8s = {} /\ GangFitting(k) # {}

Held(k) ==
  IF Waiting(k) = {} THEN {} ELSE IF Group[k] = {} THEN Busy(k) ELSE GangBusy(k)

\* The turn places nothing: the campaign holds what it found busy, or, with
\* nothing waiting and nothing live, it is over (_maybe_finish_campaign).
NotAdmitted(k) ==
  /\ phase = "schedule" /\ k \in todo
  /\ ~CanStart(k)
  /\ todo' = todo \ {k}
  /\ blocked' = blocked \cup Held(k)
  /\ camp' = IF Waiting(k) = {} /\ \A r \in Runs : Live(r) => CampaignOfRun(r) # k
             THEN [camp EXCEPT ![k] = "DONE"] ELSE camp
  /\ UNCHANGED <<phase, machineVars, runVars, cstat, window, box>>

(***************************************************************************)
(* _advance_runs: _advance_one, by the run's status.                       *)
(***************************************************************************)

\* What an advance leaves alone unless it ends the run.
Step(r, target) ==
  /\ status' = [status EXCEPT ![r] = target]
  /\ UNCHANGED <<rowVars, pending, age, class, stop, machineVars, campVars>>
Ends(r, why, standing) ==
  /\ Fail(r, why, standing)
  /\ UNCHANGED <<leaseVars, attention, camp, window>>

\* PENDING, launch_nodes started every node.
Launch(r) ==
  /\ Handle("advance", r) /\ status[r] = "PENDING"
  /\ box' = [box EXCEPT ![r] = at[r]]
  /\ Step(r, "LAUNCHING")

\* PENDING, launch_nodes raised: it took down the nodes it had started, as far
\* as the removals worked; a node whose own docker run failed or timed out after
\* creating the container is not among those.
LaunchFails(r) ==
  /\ Handle("advance", r) /\ status[r] = "PENDING"
  /\ \E why \in {"infrastructure", "other"}, standing \in SUBSET at[r] :
       Ends(r, why, standing)

\* PENDING and deferred, starting within its budget, health check or benchmark
\* still running, benchmark platform busy.
KeepWaiting(r) ==
  /\ Handle("advance", r)
  /\ \/ status[r] \in {"PENDING", "HEALTH_CHECK", "BENCHING"}
     \/ status[r] = "WAITING_READY" /\ "there" \in attach(r, box[r])
  /\ Skip

\* LAUNCHING or WAITING_READY, and the container answers.
Startup == {"LAUNCHING", "WAITING_READY"}
BecomesReady(r) ==
  /\ Handle("advance", r) /\ status[r] \in Startup
  /\ "there" \in attach(r, box[r])
  /\ Step(r, "HEALTH_CHECK")
  /\ UNCHANGED box

StillStarting(r) ==
  /\ Handle("advance", r) /\ status[r] = "LAUNCHING"
  /\ "there" \in attach(r, box[r])
  /\ Step(r, "WAITING_READY")
  /\ UNCHANGED box

\* The container disappeared, as far as attach can tell.
ContainerGone(r) ==
  /\ Handle("advance", r) /\ status[r] \in Startup
  /\ "gone" \in attach(r, box[r])
  /\ Ends(r, "infrastructure", box[r])

\* It crashed, or ran out of its startup budget; classified from its log, its
\* exit code or the substrate's own reason.
StartupFails(r) ==
  /\ Handle("advance", r) /\ status[r] \in Startup
  /\ "there" \in attach(r, box[r])
  /\ \E why \in {"infrastructure", "other"} : Ends(r, why, box[r])

\* The health check passed and the benchmark platform took the run.
BeginBench(r) ==
  /\ Handle("advance", r) /\ status[r] = "HEALTH_CHECK"
  /\ Step(r, "BENCHING")
  /\ UNCHANGED box

\* A failed health check or a refused submission: neither is infrastructure.
HealthFails(r) ==
  /\ Handle("advance", r) /\ status[r] = "HEALTH_CHECK"
  /\ Ends(r, "other", box[r])

BenchPasses(r) ==
  /\ Handle("advance", r) /\ status[r] = "BENCHING"
  /\ Finish(r, "SUCCEEDED", class[r], box[r])
  /\ UNCHANGED <<leaseVars, attention, campVars>>

BenchFails(r) ==
  /\ Handle("advance", r) /\ status[r] = "BENCHING"
  /\ Ends(r, "other", box[r])

\* attach raised in any status past PENDING: the run fails as the supervisor's
\* own error, which is nobody's infrastructure.
AdvanceRaises(r) ==
  /\ Handle("advance", r) /\ status[r] # "PENDING"
  /\ "error" \in attach(r, box[r])
  /\ Ends(r, "other", box[r])

(***************************************************************************)
(* _enforce_windows, _reap_teardowns, reconcile.                           *)
(***************************************************************************)
CutAtWindow(r) ==
  /\ Handle("windows", r)
  /\ Finish(r, "KILLED", class[r], box[r])
  /\ UNCHANGED <<leaseVars, attention, campVars>>

\* Mutant: the run lets go of its cards and nobody offers its machines back.
ConfirmWithoutRelease(r) ==
  /\ Handle("reap", r)
  /\ "gone" \in attach(r, box[r])
  /\ pending' = [pending EXCEPT ![r] = FALSE]
  /\ UNCHANGED <<machineVars, status, rowVars, age, class, stop, campVars, box>>

\* The master's container is gone, and what outlives it is released, or has
\* refused to be for the whole budget: _confirm_teardown.
ConfirmTeardown(r) ==
  /\ Handle("reap", r)
  /\ "gone" \in attach(r, box[r])
  /\ pending' = [pending EXCEPT ![r] = FALSE]
  /\ state' = ReleaseRunMachines(r)
  /\ UNCHANGED <<leaseVars, attention, status, rowVars, age, class, stop, campVars, box>>

\* Mutant: the machine is quarantined and the run keeps being reaped.
QuarantineWithoutGivingUp(r) ==
  /\ Handle("reap", r)
  /\ "there" \in attach(r, box[r]) /\ age[r] = 2
  /\ \E stuck \in StuckMachines(r) :
       attention' = [m \in Machines |-> m \in stuck \/ attention[m]]
  /\ UNCHANGED <<state, leaseVars, runVars, campVars, box>>

\* Past the budget and still there: the machines stuck are quarantined.
GiveUpTeardown(r) ==
  /\ Handle("reap", r)
  /\ "there" \in attach(r, box[r]) /\ age[r] = 2
  /\ \E stuck \in StuckMachines(r) :
       attention' = [m \in Machines |-> m \in stuck \/ attention[m]]
  /\ pending' = [pending EXCEPT ![r] = FALSE]
  /\ UNCHANGED <<state, leaseVars, status, rowVars, age, class, stop, campVars, box>>

\* Past the grace: removed by force, as far as the removals work.
ForceTeardown(r) ==
  /\ Handle("reap", r)
  /\ "there" \in attach(r, box[r]) /\ age[r] = 1
  /\ \E left \in SUBSET box[r] : box' = [box EXCEPT ![r] = left]
  /\ UNCHANGED <<machineVars, runVars, campVars>>

\* Within the grace; or its leftovers are not released yet; or attach raised.
KeepReaping(r) ==
  /\ Handle("reap", r)
  /\ \/ "there" \in attach(r, box[r]) /\ age[r] = 0
     \/ "gone" \in attach(r, box[r]) /\ age[r] < 2
     \/ "error" \in attach(r, box[r])
  /\ Skip

\* A worker that restarts looks for the container of every run past PENDING; a
\* benchmark can still be polled without one.
Orphaned(r) ==
  /\ Handle("reconcile", r)
  /\ "gone" \in attach(r, box[r]) /\ status[r] # "BENCHING"
  /\ Ends(r, "infrastructure", box[r])

Reattach(r) ==
  /\ Handle("reconcile", r)
  /\ "there" \in attach(r, box[r]) \/ status[r] = "BENCHING"
  /\ Skip

(***************************************************************************)
(* Requests: the lease API, the machine page, and the campaign's buttons.  *)
(***************************************************************************)
Request(name) ==
  /\ name \in Requests
  /\ phase = "idle"
  /\ UNCHANGED <<workerVars, box>>

WhenAsked == IF "due" \in Requests THEN {"none", "later"} ELSE {"none"}

\* POST /machines/lease: refused only while the machine is draining.
lease_machine(m, by) ==
  /\ Request("lease")
  /\ lease[m] # "DRAINING"
  /\ state' = [state EXCEPT ![m] = "AVAILABLE"]
  /\ lease' = [lease EXCEPT ![m] = "ACTIVE"]
  /\ endMode' = [endMode EXCEPT ![m] = ""]
  /\ due' = [due EXCEPT ![m] = by]
  /\ deadline' = [deadline EXCEPT ![m] = "none"]
  /\ UNCHANGED <<attention, runVars, campVars>>

\* POST /machines/{name}/lease/end: again, to escalate, while draining.
end_lease(m, mode, by) ==
  /\ Request("end")
  /\ lease[m] \in {"ACTIVE", "DRAINING"}
  /\ lease' = [lease EXCEPT ![m] = "DRAINING"]
  /\ endMode' = [endMode EXCEPT ![m] = mode]
  /\ deadline' = IF by = "none" THEN deadline ELSE [deadline EXCEPT ![m] = by]
  /\ UNCHANGED <<state, due, attention, runVars, campVars>>

\* PUT /machines/{id}/state: by hand, unless a run has it reserved.
set_machine_state(m, s) ==
  /\ Request("state")
  /\ state[m] # "RESERVED"
  /\ state' = [state EXCEPT ![m] = s]
  /\ UNCHANGED <<leaseVars, attention, runVars, campVars>>

\* POST /runs/{id}/stop: recorded for the worker.
stop_run(r) ==
  /\ Request("stop")
  /\ Live(r) /\ stop[r] = "none"
  /\ stop' = [stop EXCEPT ![r] = "run"]
  /\ UNCHANGED <<machineVars, status, rowVars, pending, age, class, campVars>>

\* POST /campaigns/{id}/force-stop: pause it and stop everything it runs.
force_stop(k) ==
  /\ Request("force_stop")
  /\ camp' = IF camp[k] = "DONE" THEN camp ELSE [camp EXCEPT ![k] = "PAUSED"]
  /\ stop' = [r \in Runs |-> IF Live(r) /\ CampaignOfRun(r) = k /\ stop[r] = "none"
                             THEN "campaign" ELSE stop[r]]
  /\ UNCHANGED <<machineVars, status, rowVars, pending, age, class, cstat, window>>

\* PUT /campaigns/{id}/status: by hand; done only with nothing of it running.
set_campaign_status(k, s) ==
  /\ Request("status")
  /\ s = "DONE" => camp[k] # "ACTIVE" /\ \A r \in Runs : Live(r) => CampaignOfRun(r) # k
  /\ camp' = [camp EXCEPT ![k] = s]
  /\ UNCHANGED <<machineVars, runVars, cstat, window>>

\* Mutant: a live run does not stand in the way.
RetryableWhileLive(c) ==
  /\ cstat[c] = "EXHAUSTED"
  /\ \A r \in Runs : cand[r] = c => status[r] # "SUCCEEDED"
\* POST /campaigns/{id}/retry-failed: every spent candidate none of whose runs
\* succeeded or is still live.
Retryable(c) ==
  /\ cstat[c] = "EXHAUSTED"
  /\ \A r \in Runs : cand[r] = c => status[r] \in {"FAILED", "KILLED"}
retry_failed(k) ==
  /\ Request("retry")
  /\ LET again == {c \in Candidates : CampaignOf[c] = k /\ Retryable(c)}
     IN  /\ cstat' = [c \in Candidates |-> IF c \in again THEN "VALID" ELSE cstat[c]]
         /\ camp' = IF again # {} /\ camp[k] = "DONE"
                    THEN [camp EXCEPT ![k] = "ACTIVE"] ELSE camp
  /\ UNCHANGED <<machineVars, runVars, window>>

\* The worker process is replaced between two ticks.
Restart ==
  /\ "restart" \in Requests
  /\ phase = "idle"
  /\ phase' = "reconcile"
  /\ todo' = {r \in Runs : Live(r) /\ status[r] # "PENDING"}
  /\ UNCHANGED <<machineVars, runVars, campVars, box, blocked>>

(***************************************************************************)
(* The outside world.                                                      *)
(***************************************************************************)

\* A container disappears by itself: removed by hand, or lost with its host.
ContainerLost(r, m) ==
  /\ m \in box[r]
  /\ box' = [box EXCEPT ![r] = @ \ {m}]
  /\ UNCHANGED <<machineVars, runVars, campVars, workerVars>>

TeardownClock(r) ==
  /\ pending[r] /\ age[r] < 2
  /\ age' = [age EXCEPT ![r] = @ + 1]
  /\ UNCHANGED <<machineVars, status, rowVars, pending, class, stop, campVars, box,
                 workerVars>>

DueClock(m) ==
  /\ \/ /\ due[m] = "later"
        /\ due' = [due EXCEPT ![m] = "passed"]
        /\ UNCHANGED deadline
     \/ /\ deadline[m] = "later"
        /\ deadline' = [deadline EXCEPT ![m] = "passed"]
        /\ UNCHANGED due
  /\ UNCHANGED <<state, lease, endMode, attention, runVars, campVars, box, workerVars>>

\* The campaign's window: a new run still fits, no longer fits, is over; the
\* next one opens.
WindowClock(k) ==
  /\ "window" \in Requests
  /\ window' = [window EXCEPT ![k] = CASE @ = "open"    -> "closing"
                                       [] @ = "closing" -> "over"
                                       [] OTHER          -> "open"]
  /\ UNCHANGED <<machineVars, runVars, cstat, camp, box, workerVars>>

-----------------------------------------------------------------------------
Init ==
  /\ state = [m \in Machines |-> IF "lease" \in Requests THEN "AWAY" ELSE "AVAILABLE"]
  /\ lease = [m \in Machines |-> IF "lease" \in Requests THEN "NONE" ELSE "ACTIVE"]
  /\ endMode = [m \in Machines |-> ""]
  /\ due = [m \in Machines |-> "none"]
  /\ deadline = [m \in Machines |-> "none"]
  /\ attention = [m \in Machines |-> FALSE]
  /\ status = [r \in Runs |-> "NONE"]
  /\ cand = [r \in Runs |-> NoCandidate]
  /\ at = [r \in Runs |-> {}]
  /\ master = [r \in Runs |-> NoMachine]
  /\ cards = [r \in Runs |-> {}]
  /\ pending = [r \in Runs |-> FALSE]
  /\ age = [r \in Runs |-> 0]
  /\ class = [r \in Runs |-> ""]
  /\ stop = [r \in Runs |-> "none"]
  /\ cstat = [c \in Candidates |-> "VALID"]
  /\ camp = [k \in Campaigns |-> "ACTIVE"]
  /\ window = [k \in Campaigns |-> "open"]
  /\ box = [r \in Runs |-> {}]
  /\ phase = "idle" /\ todo = {} /\ blocked = {}

LeaseStep(m) ==
  KeepLease(m) \/ ReleaseLease(m) \/ \E r \in Runs : KillForLease(m, r)
PlaceStep(k) == StartOne(k) \/ StartGang(k) \/ NotAdmitted(k)
AdvanceStep(r) ==
  \/ Launch(r) \/ LaunchFails(r) \/ KeepWaiting(r)
  \/ BecomesReady(r) \/ StillStarting(r) \/ ContainerGone(r) \/ StartupFails(r)
  \/ BeginBench(r) \/ HealthFails(r) \/ BenchPasses(r) \/ BenchFails(r)
  \/ AdvanceRaises(r)
ReapStep(r) ==
  ConfirmTeardown(r) \/ GiveUpTeardown(r) \/ ForceTeardown(r) \/ KeepReaping(r)
RunStep(r) ==
  \/ ProcessStop(r) \/ ReleaseQueued(r) \/ KeepWhilePaused(r)
  \/ AdvanceStep(r) \/ CutAtWindow(r) \/ ReapStep(r)
  \/ Orphaned(r) \/ Reattach(r)

Worker ==
  \/ EndPhase
  \/ \E m \in Machines : LeaseStep(m)
  \/ \E k \in Campaigns : PlaceStep(k)
  \/ \E r \in Runs : RunStep(r)

Api ==
  \/ \E m \in Machines :
       \/ \E by \in WhenAsked : lease_machine(m, by)
       \/ \E mode \in {"POLITE", "EAGER"}, by \in WhenAsked : end_lease(m, mode, by)
       \/ \E s \in {"AWAY", "AVAILABLE"} : set_machine_state(m, s)
  \/ \E r \in Runs : stop_run(r)
  \/ \E k \in Campaigns :
       \/ force_stop(k)
       \/ \E s \in {"ACTIVE", "PAUSED", "DONE"} : set_campaign_status(k, s)
       \/ retry_failed(k)

World ==
  \/ \E r \in Runs : TeardownClock(r) \/ \E m \in Machines : ContainerLost(r, m)
  \/ \E m \in Machines : DueClock(m)
  \/ \E k \in Campaigns : WindowClock(k)

Next == Worker \/ Api \/ Restart \/ World

Spec == Init /\ [][Next]_vars

\* The worker's loop never stops ticking, and time passes.
FairSpec == Spec /\ WF_vars(Worker) /\ \A r \in Runs : WF_vars(TeardownClock(r))

(***************************************************************************)
(* Properties.                                                             *)
(***************************************************************************)
MachinesTypeOK ==
  /\ state \in [Machines -> {"AWAY", "AVAILABLE", "RESERVED"}]
  /\ lease \in [Machines -> {"NONE", "ACTIVE", "DRAINING", "RELEASED"}]
  /\ endMode \in [Machines -> {"", "POLITE", "EAGER"}]
  /\ due \in [Machines -> {"none", "later", "passed"}]
  /\ deadline \in [Machines -> {"none", "later", "passed"}]
  /\ attention \in [Machines -> BOOLEAN]

RunsTypeOK ==
  /\ status \in [Runs -> RunStatus \cup {"NONE"}]
  /\ cand \in [Runs -> Candidates \cup {NoCandidate}]
  /\ at \in [Runs -> SUBSET Machines]
  /\ master \in [Runs -> Machines \cup {NoMachine}]
  /\ cards \in [Runs -> SUBSET Nat]
  /\ pending \in [Runs -> BOOLEAN]
  /\ age \in [Runs -> 0..2]
  /\ class \in [Runs -> Classes]
  /\ stop \in [Runs -> {"none", "run", "campaign"}]
  /\ box \in [Runs -> SUBSET Machines]

CampaignsTypeOK ==
  /\ cstat \in [Candidates -> {"VALID", "EXHAUSTED"}]
  /\ camp \in [Campaigns -> {"ACTIVE", "PAUSED", "DONE"}]
  /\ window \in [Campaigns -> {"open", "closing", "over"}]

WorkerTypeOK ==
  /\ phase \in Phases
  /\ todo \subseteq Machines \cup Runs \cup Campaigns
  /\ blocked \subseteq Machines

\* Every row keeps a value its column may hold, and the worker's lists name rows
\* that exist.
TypeOK == MachinesTypeOK /\ RunsTypeOK /\ CampaignsTypeOK /\ WorkerTypeOK

\* A run holds its cards from placement until its container is confirmed gone.
HoldsCards(r) == Live(r) \/ pending[r]

\* No card of a machine is held by two runs at once, whether they are live or
\* still being torn down (supervisor._start_one counts both before it places).
CardsExclusive ==
  \A r, x \in Runs :
    r # x /\ HoldsCards(r) /\ HoldsCards(x) /\ at[r] \cap at[x] # {}
      => cards[r] \cap cards[x] = {}

\* While a gang is live nothing else is live on any of its members, not even on
\* cards it leaves free (run_nodes.machine_hosts_live_gang, _group_is_idle).
GangExclusive ==
  \A r, x \in Runs :
    r # x /\ Live(r) /\ Live(x) /\ (\E m \in at[r] : at[r] # {m})
      => at[r] \cap at[x] = {}

\* Two live runs meet on a machine only when both campaigns agreed to share it,
\* or it is a node pool (_may_share).
SharingConsent ==
  \A r, x \in Runs : \A m \in (at[r] \cap at[x]) \ Pools :
    r # x /\ Live(r) /\ Live(x)
      => Share[CampaignOf[cand[r]]] /\ Share[CampaignOf[cand[x]]]

\* A candidate is measured by at most one live run, and while one is live the
\* candidate is not offered again (every path that re-queues a candidate ends
\* its run first).
OneRunPerCandidate ==
  \A r \in Runs : Live(r) =>
    /\ cstat[cand[r]] = "EXHAUSTED"
    /\ \A x \in Runs : Live(x) /\ cand[x] = cand[r] => x = r

\* A CPU-only machine hosts one run at a time, the dying one included.
OneRunPerCpuBox ==
  \A r, x \in Runs : \A m \in at[r] \cap at[x] :
    Gpus[m] = 0 /\ HoldsCards(r) /\ HoldsCards(x) => r = x

\* A candidate is spent only by a run charged to it: a run the platform withdrew
\* itself (a campaign stopped or paused) gives its candidate back, or nobody
\* would ever measure it (_release_to_queue, _process_stop_requests).
CandidateNotLost ==
  \A c \in Candidates : cstat[c] = "EXHAUSTED" =>
    \E r \in Runs : cand[r] = c /\ class[r] # "released"

\* Every container of ours that still stands is accounted for: its run holds
\* its cards, or its machine is quarantined (_begin_teardown: "rather than the
\* cards being freed on the optimistic assumption it died").
HardwareAccounted ==
  \A r \in Runs : \A m \in box[r] : HoldsCards(r) \/ attention[m]

\* A machine whose run is live or dying is RESERVED.
HeldIsReserved ==
  \A r \in Runs : HoldsCards(r) => \A m \in at[r] : state[m] = "RESERVED"

\* A machine reads RESERVED for a reason: a run is live or dying on it, or it
\* was quarantined with a container that would not leave (MachineState.RESERVED
\* is "held by a run"; a reserved machine cannot be edited, removed or taken
\* away by hand).
ReservedHasCause ==
  \A m \in Machines : state[m] = "RESERVED" =>
    attention[m] \/ \E r \in Runs : HoldsCards(r) /\ m \in at[r]

\* A run's status only ever moves along ALLOWED_TRANSITIONS; _transition raises
\* on any other move, which would abandon the tick.
LegalTransitions ==
  [][\A r \in Runs : status[r] # status'[r] =>
       \/ status[r] = "NONE" /\ status'[r] = "PENDING"
       \/ status[r] # "NONE" /\ can_transition(status[r], status'[r])]_vars

\* Nothing is placed on a machine that is on its way out, from the moment the
\* drain begins until it is released (accepts_new_work).
DrainStartsNothing ==
  [][\A m \in Machines :
       lease[m] = "DRAINING" => live_runs_on(m)' \subseteq live_runs_on(m)]_vars

\* A machine that must be off (eager end, or deadline passed) is off: its runs
\* are killed and the lease released, whatever else is going on.
DrainCompletes ==
  \A m \in Machines :
    (lease[m] = "DRAINING" /\ drain_kills_running(m, endMode[m]))
      ~> ~(lease[m] = "DRAINING" /\ drain_kills_running(m, endMode[m]))

\* A dying run stops holding its cards in the end: confirmed gone, or given up
\* and its machine quarantined (teardown_giveup_seconds).
TeardownResolves == \A r \in Runs : pending[r] ~> ~pending[r]
=============================================================================

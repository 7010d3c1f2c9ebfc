---------------------------- MODULE ClusterRuns ----------------------------
(***************************************************************************)
(* Runs on a Kubernetes cluster: the worker's tick over their rows, the    *)
(* k8s and LLMService drivers (control/launch), the TuningRun operator     *)
(* (operator/internal/controller), the fixed NodePort that lets one run be *)
(* reached at a time (control/orchestrator/node_ports.py), and the         *)
(* benchmark platform the runs are submitted to (evaluation/llmbench.py).  *)
(*                                                                         *)
(* A tick works on row, the session's copy of the run rows, one run after  *)
(* the other, and commits it to saved once at its end.  What it does to    *)
(* the cluster and to the benchmark platform happens at once: a tick that  *)
(* is cut off loses the rows and keeps the rest.                           *)
(*                                                                         *)
(* Time is two marks per run: 1 when PLACEMENT_CHECK_AFTER_SECONDS or the  *)
(* teardown grace have passed, 2 when the image-pull or ready timeout or   *)
(* the teardown give-up have.                                              *)
(***************************************************************************)
EXTENDS Integers, Sequences, RunStates

CONSTANTS
  N,      \* runs are numbered 1..N, in the order their rows were made
  Sites   \* the clusters a behaviour may be about

Runs == 1..N

\* A NodePortClaim: the API server and the node host a registration names,
\* "" when it names none.
Claims == [port : Nat, server : STRING, host : STRING]

SiteType ==
  [kind : {"deployment", "custom", "llmservice"},  \* k8s_workload_kind
   fixed : BOOLEAN,                \* service_nodeport is set
   ttl : BOOLEAN,                  \* k8s_run_ttl_seconds is set
   claim : [Runs -> Claims],       \* what the registration of a run's machine claims
   ns : [Runs -> STRING],          \* and the namespace it uses
   runs : 1..N,                    \* bound: runs made
   policy : SUBSET Runs,           \* runs a policy asked for; the others are measured
   faults : Nat,                   \* bound: calls to the cluster that fail
   crashes : Nat,                  \* bound: ticks cut off before their commit
   upsets : Nat]                   \* bound: what the cluster does to a pod by itself

ASSUME NAssumption == N \in Nat \ {0}
ASSUME SiteAssumption == Sites \subseteq SiteType

VARIABLES
  site,    \* the cluster
  saved,   \* the committed run rows
  row,     \* the rows of the tick's session
  turn,    \* idle, or the run the tick advances, or reap and the run it reaps
  obj,     \* what the cluster has of each run
  subm,    \* the benchmark platform's submissions of each run
  spent    \* faults, crashes and upsets used

vars == <<site, saved, row, turn, obj, subm, spent>>

Idle == [at |-> "idle", run |-> 0]

(***************************************************************************)
(* A run's row.                                                            *)
(*   tp       teardown_pending                                             *)
(*   ep       endpoint_url: "", or its node port                           *)
(*   wait     waiting_for: "", NODE_PORT or CARDS                          *)
(*   age      how long ago it was launched, or finished: 0, 1, 2           *)
(*   sub      llmbench_submission_id, 0 for none                           *)
(*   inc      engine_incarnation, -1 for none                              *)
(*   stop, release   a stop or a release was asked for                     *)
(*   quit     the janitor stopped waiting for what is left of it           *)
(***************************************************************************)
NoRow ==
  [st |-> "absent", tp |-> FALSE, ep |-> "", wait |-> "", age |-> 0, sub |-> 0,
   inc |-> -1, stop |-> FALSE, release |-> FALSE, quit |-> FALSE]
Live(rw) == rw.st \in LiveStates
Terminal(rw) == rw.st \in TERMINAL_RUN_STATES

(***************************************************************************)
(* What the cluster has of a run.                                          *)
(*   prim     its Deployment, TuningRun or LLMService: none, live or       *)
(*            deleting (an LLMService waits for its operator)              *)
(*   work     whether the workload that owns the pods exists               *)
(*   svc      its Service: none, claim (selects nothing yet), own (selects *)
(*            its pods), deleting                                          *)
(*   owned    the Service is owned by the LLMService                       *)
(*   phase    status.phase of the TuningRun or LLMService: "", "Pending",  *)
(*            "Starting", "Ready", "Failed" or "Expired"                   *)
(*   seen     the operator has read the TuningRun and not yet acted        *)
(*   old      the TuningRun is older than its TTL                          *)
(*   pod      its pod as the drivers tell pods apart: "none", "queued",    *)
(*            "unplaceable", "pulling", "badimage", "badmount", "running", *)
(*            "ready", "exited", "restarted"                               *)
(*   inc      how often the pod was restarted or replaced                  *)
(***************************************************************************)
Nothing ==
  [prim |-> "none", work |-> FALSE, svc |-> "none", owned |-> FALSE, phase |-> "",
   seen |-> FALSE, old |-> FALSE, pod |-> "none", inc |-> 0]

(***************************************************************************)
(* The fixed NodePort in the database (node_ports.py).                     *)
(***************************************************************************)
collides(a, b) ==
  /\ a.port = b.port
  /\ \/ a.server # "" /\ a.server = b.server
     \/ a.host # "" /\ a.host = b.host

\* claim_of, _claim_from: a TuningRun publishes its own URL and never asks.
Claiming(r) == site.fixed /\ site.kind # "custom"

\* port_holder: the runs that hold the port r needs.  For a run about to
\* launch, those placed after it do not count while they are PENDING.
PortHolders(r, placed) ==
  {q \in Runs \ (IF placed THEN {r} ELSE {}) :
     /\ Claiming(r) /\ collides(site.claim[r], site.claim[q])
     /\ Live(row[q]) \/ row[q].tp
     /\ placed => row[q].st # "PENDING" \/ q < r}
port_busy(r, placed) == PortHolders(r, placed) # {}

(***************************************************************************)
(* The driver's reading of the cluster.                                    *)
(***************************************************************************)
\* failure_reason, _placement_verdict, _event_failure: the class, or "".
failure_reason(o) ==
  CASE o.pod = "badimage"    -> "image_pull"
    [] o.pod = "restarted"   -> "crash_loop"
    [] o.pod = "exited"      -> "engine_exited"
    [] o.pod = "queued"      -> "unschedulable"
    [] o.pod = "unplaceable" -> "unplaceable"
    [] o.pod = "badmount"    -> "mount_failed"
    [] OTHER                 -> ""
TRANSIENT_PLACEMENT_FAILURES == {"unschedulable"}
Wedged(o) == failure_reason(o) \notin TRANSIENT_PLACEMENT_FAILURES \cup {""}

\* _pod_state: a wedged mount or a pod no node fits still reads STARTING.
pod_state(o) ==
  CASE o.pod = "ready"                               -> "READY"
    [] o.pod \in {"badimage", "exited", "restarted"} -> "CRASHED"
    [] OTHER                                         -> "STARTING"

\* K8sDriver.state of a TuningRun: its phase, and the pods while it has none.
cr_state(o) ==
  CASE o.phase \in {"Failed", "Expired"} -> "CRASHED"
    [] o.phase = "Ready"                 -> "READY"
    [] OTHER                             -> IF Wedged(o) THEN "CRASHED" ELSE "STARTING"

\* LLMServiceDriver.state: the operator's verdict, the pods, the front door.
llmservice_state(o) ==
  IF o.phase = "Failed" \/ pod_state(o) = "CRASHED" \/ Wedged(o) THEN "CRASHED"
  ELSE IF o.work /\ o.pod = "ready" THEN "READY" ELSE "STARTING"

DeploymentState(o) ==
  IF o.prim = "none" THEN "GONE"
  ELSE CASE site.kind = "deployment" -> pod_state(o)
         [] site.kind = "custom"     -> cr_state(o)
         [] site.kind = "llmservice" -> llmservice_state(o)

\* startup_status and placement: the image is there and the engine runs.
Started(o) == o.pod \in {"running", "ready"}

\* _startup_timed_out, as <<timed out, waits for cards>>.
startup_timed_out(rw, o) ==
  LET why == failure_reason(o)
      transient == why \in TRANSIENT_PLACEMENT_FAILURES
  IN  IF Started(o) THEN <<rw.age = 2, FALSE>>
      ELSE <<\/ rw.age >= 1 /\ why = "unplaceable"
             \/ rw.age = 2 /\ ~transient,
             rw.age >= 1 /\ transient>>

(***************************************************************************)
(* The driver's changes to the cluster, as sets of outcomes: a Service may *)
(* be gone at once or linger.                                              *)
(***************************************************************************)
DeleteService(o) ==
  IF o.svc = "none" THEN {o}
  ELSE {[o EXCEPT !.svc = s, !.owned = FALSE] : s \in {"none", "deleting"}}

HasFixedService == site.fixed /\ site.kind # "custom"

\* teardown, and request_stop, which is the same here.
Deleted(o) ==
  CASE site.kind = "deployment" -> DeleteService([o EXCEPT !.prim = "none", !.work = FALSE])
    [] site.kind = "custom"     -> {[o EXCEPT !.prim = "none"]}
    [] site.kind = "llmservice" ->
         LET gone == [o EXCEPT !.prim = "deleting"]
         IN  IF site.fixed THEN DeleteService(gone) ELSE {gone}

\* release_leftovers: the run's Service on the fixed port, and whether it is gone.
Leftovers(o) == IF HasFixedService THEN DeleteService(o) ELSE {o}
released(o) == HasFixedService => o.svc = "none"

\* is_gone: of an LLMService, its pods too.
is_gone(o) ==
  /\ o.prim = "none"
  /\ site.kind = "llmservice" => o.pod = "none" /\ released(o)

\* Whether the API server has the fixed port for r's Service.
PortFree(r) == \A q \in Runs \ {r} : ~HasFixedService \/ obj[q].svc = "none"

\* What each manifest makes of the run's objects once it is applied.
DeploymentApplied(o) == [o EXCEPT !.prim = "live", !.work = TRUE]
ServiceApplied(o) == [o EXCEPT !.svc = "own"]
TuningRunApplied(o) == [o EXCEPT !.prim = "live"]
LLMServiceApplied(o) ==
  [o EXCEPT !.prim = "live", !.owned = site.fixed,
            !.svc = IF site.fixed /\ @ = "none" THEN "claim" ELSE @]

\* launch.  A Deployment on the fixed port is applied after its Service; an
\* apply that fails may have applied a part, or all of it.
Launched(o) ==
  CASE site.kind = "deployment" -> DeploymentApplied(ServiceApplied(o))
    [] site.kind = "custom"     -> TuningRunApplied(o)
    [] site.kind = "llmservice" -> LLMServiceApplied(o)
PartlyLaunched(o) ==
  CASE site.kind = "deployment" ->
         {o, Launched(o),
          IF site.fixed THEN ServiceApplied(o) ELSE DeploymentApplied(o)}
    [] site.kind = "custom"     -> {o, Launched(o)}
    [] site.kind = "llmservice" ->
         {o} \cup (IF site.fixed
                   THEN DeleteService([Launched(o) EXCEPT !.prim = o.prim])
                          \cup DeleteService(Launched(o))
                   ELSE {Launched(o)})

\* attach: of an LLMService on the fixed port it also points the Service at
\* the front door the chart has made, unless the LLMService is going.
Attached(o) ==
  IF /\ site.kind = "llmservice" /\ site.fixed
     /\ o.svc = "claim" /\ o.work /\ o.prim = "live"
  THEN [o EXCEPT !.svc = "own"] ELSE o

\* The endpoint of a handle: "own" where only this run's pods answer.
Endpoint(o) ==
  IF ~HasFixedService THEN "own"
  ELSE IF site.kind = "deployment" \/ (o.work /\ o.svc # "none") THEN "port" ELSE ""

(***************************************************************************)
(* The tick.  Its steps, in their order: stop requests, placing, advancing *)
(* every live run, reaping what is being torn down, and the commit.        *)
(***************************************************************************)
Stages == <<"reconcile", "stop", "place", "advance", "reap">>
Order(t) == (CHOOSE i \in 1..Len(Stages) : Stages[i] = t.at) * (N + 1) + t.run

\* What a stage has to do with a run: the others it passes over.
Concerns(at, q, rows) ==
  CASE at = "stop"      -> rows[q].stop /\ Live(rows[q])
    [] at = "place"     -> /\ rows[q].st = "absent" /\ q \in 1..site.runs \ site.policy
                           /\ \A p \in 1..(q - 1) : rows[p].st # "absent"
    [] at = "advance"   -> Live(rows[q])
    [] at = "reap"      -> rows[q].tp
    [] at = "reconcile" -> Live(rows[q]) /\ rows[q].st # "PENDING"

\* The step after t, once the rows are as given.
After(t, rows) ==
  LET stages == IF t.at = "reconcile" THEN {"reconcile"}
                ELSE {"stop", "place", "advance", "reap"}
      later == {u \in [at : stages, run : Runs] :
                  Order(t) < Order(u) /\ Concerns(u.at, u.run, rows)}
  IN  IF later = {} THEN [at |-> "commit", run |-> 0]
      ELSE CHOOSE u \in later : \A v \in later : Order(u) <= Order(v)
FirstOf(stage, rows) == After([at |-> stage, run |-> 0], rows)

\* A step of the tick: the rest is left alone.
Step(r, rw, o) ==
  /\ row' = [row EXCEPT ![r] = rw]
  /\ obj' = [obj EXCEPT ![r] = o]
  /\ turn' = After(turn, row')
  /\ UNCHANGED saved
Fault == spent.faults < site.faults /\ spent' = [spent EXCEPT !.faults = @ + 1]
Upset == spent.upsets < site.upsets /\ spent' = [spent EXCEPT !.upsets = @ + 1]
Fine == UNCHANGED spent
Skip(r) == Step(r, row[r], obj[r]) /\ Fine /\ UNCHANGED subm

\* _begin_teardown, as the set of outcomes: what is left, and whether it is
\* known to be all gone.
Teardowns(o) ==
  IF o.prim = "none" THEN {[clean |-> released(x), obj |-> x] : x \in Leftovers(o)}
  ELSE UNION {IF is_gone(x) THEN {[clean |-> released(y), obj |-> y] : y \in Leftovers(x)}
              ELSE {[clean |-> FALSE, obj |-> x]} : x \in Deleted(Attached(o))}
\* A call of it fails: the attach, or the delete of the Service after the
\* delete of its Deployment.
FailedTeardowns(o) ==
  {[clean |-> FALSE, obj |-> x] :
     x \in {o} \cup (IF site.kind = "deployment" /\ o.prim = "live"
                     THEN {[o EXCEPT !.prim = "none", !.work = FALSE]} ELSE {})}

\* Mutant: what was asked to stop counts as gone.
FinishAtOnce(r, st, faulty) ==
  \E t \in IF faulty THEN FailedTeardowns(obj[r]) ELSE Teardowns(obj[r]) :
    Step(r, [row[r] EXCEPT !.st = st, !.tp = FALSE, !.age = 0], t.obj)
\* _finish
Finish(r, st, faulty) ==
  \E t \in IF faulty THEN FailedTeardowns(obj[r]) ELSE Teardowns(obj[r]) :
    Step(r, [row[r] EXCEPT !.st = st, !.tp = ~t.clean, !.age = 0], t.obj)

\* The benchmark platform forgets the run's submission: bench.cancel.
Cancelled(r) == [subm EXCEPT ![r].on = @ \ {row[r].sub}]

TickBegins ==
  /\ turn = Idle
  /\ row' = saved /\ turn' = FirstOf("stop", saved)
  /\ UNCHANGED <<site, saved, obj, subm, spent>>

\* _process_stop_requests
StopOne(r) ==
  /\ turn = [at |-> "stop", run |-> r] /\ UNCHANGED site
  /\ subm' = Cancelled(r)
  /\ \/ Finish(r, "KILLED", FALSE) /\ Fine
     \/ Finish(r, "KILLED", TRUE) /\ Fault

\* _schedule, as far as the port is concerned.
PlaceOne(r) ==
  /\ turn = [at |-> "place", run |-> r] /\ UNCHANGED site
  /\ IF port_busy(r, FALSE) THEN Skip(r)
     ELSE Step(r, [NoRow EXCEPT !.st = "PENDING"], obj[r]) /\ Fine /\ UNCHANGED subm

(***************************************************************************)
(* _advance_one.  handle is what attach finds; an attach that fails fails  *)
(* the run as supervisor_error.                                            *)
(***************************************************************************)
Advancing(r) == turn = [at |-> "advance", run |-> r] /\ UNCHANGED site

\* The session keeps waiting for the port.
HeldByARun(r) ==
  /\ Advancing(r) /\ row[r].st = "PENDING" /\ port_busy(r, TRUE)
  /\ Step(r, [row[r] EXCEPT !.wait = "NODE_PORT"], obj[r]) /\ Fine /\ UNCHANGED subm

\* launch_nodes
Launch(r) ==
  /\ Advancing(r) /\ row[r].st = "PENDING" /\ ~port_busy(r, TRUE) /\ UNCHANGED subm
  /\ \/ /\ PortFree(r) /\ Fine
        /\ Step(r, [row[r] EXCEPT !.st = "LAUNCHING", !.wait = "", !.age = 0,
                                  !.ep = Endpoint(Launched(obj[r]))],
                Launched(obj[r]))
     \* K8sError, or a config the chart refuses: the run fails.
     \/ /\ PortFree(r)
        /\ \E o \in PartlyLaunched(obj[r]), faulty \in BOOLEAN :
             \E t \in IF faulty THEN FailedTeardowns(o) ELSE Teardowns(o) :
               /\ Step(r, [row[r] EXCEPT !.st = "FAILED", !.tp = ~t.clean, !.age = 0], t.obj)
               /\ Fault

\* Whose Service the driver sees on the port, in its own namespace.
SeenHolder(r) == {q \in Runs \ {r} : obj[q].svc # "none" /\ site.ns[q] = site.ns[r]}

\* Mutant: the holder's run is not asked about.
ReclaimAnyone(r, q) == TRUE
\* Mutant: nobody takes back what an earlier run left on the port.
ReclaimNobody(r, q) == FALSE
\* _reclaim_orphan_port: only what a run that is over and torn down left.
Reclaimable(r, q) == Terminal(row[q]) /\ ~row[q].tp

\* LaunchDeferred: the API server has the port elsewhere.  The driver takes
\* its own objects back, and what an earlier run left is released.
Deferred(r) ==
  /\ Advancing(r) /\ row[r].st = "PENDING" /\ ~port_busy(r, TRUE) /\ ~PortFree(r)
  /\ UNCHANGED <<saved, subm>> /\ Fine
  /\ row' = [row EXCEPT ![r].wait = "NODE_PORT"] /\ turn' = After(turn, row')
  /\ \E mine \in IF site.kind = "deployment" THEN Deleted(obj[r]) ELSE {obj[r]} :
       LET left == {q \in SeenHolder(r) : Reclaimable(r, q)}
           here == [obj EXCEPT ![r] = mine]
       IN  IF left = {} THEN obj' = here
           ELSE \E q \in left : \E o \in DeleteService(obj[q]) :
                  obj' = [here EXCEPT ![q] = o]

\* LAUNCHING and WAITING_READY
Starting(r) == row[r].st \in {"LAUNCHING", "WAITING_READY"}

StartupGone(r) ==
  /\ Advancing(r) /\ Starting(r) /\ obj[r].prim = "none" /\ UNCHANGED subm
  /\ Finish(r, "FAILED", FALSE) /\ Fine

StartupReady(r) ==
  LET o == Attached(obj[r]) IN
  /\ Advancing(r) /\ Starting(r) /\ DeploymentState(o) = "READY" /\ UNCHANGED subm
  /\ Step(r, [row[r] EXCEPT !.st = "HEALTH_CHECK", !.wait = "",
                            !.ep = IF Endpoint(o) # "" THEN Endpoint(o) ELSE @], o)
  /\ Fine

StartupFails(r) ==
  LET o == Attached(obj[r]) IN
  /\ Advancing(r) /\ Starting(r) /\ UNCHANGED subm
  /\ \/ DeploymentState(o) = "CRASHED"
     \/ DeploymentState(o) = "STARTING" /\ startup_timed_out(row[r], o)[1]
  /\ Finish(r, "FAILED", FALSE) /\ Fine

\* _note_placement: a run that waited for cards starts its clock again when
\* it has them.
StartupWaits(r) ==
  LET o == Attached(obj[r])
      waits == startup_timed_out(row[r], o)[2]
  IN
  /\ Advancing(r) /\ Starting(r) /\ DeploymentState(o) = "STARTING" /\ UNCHANGED subm
  /\ ~startup_timed_out(row[r], o)[1]
  /\ Step(r, [row[r] EXCEPT !.st = "WAITING_READY",
                            !.age = IF row[r].wait = "CARDS" /\ ~waits THEN 0 ELSE @,
                            !.wait = IF waits THEN "CARDS" ELSE ""], o)
  /\ Fine

\* HEALTH_CHECK: the check runs on its own thread, and the row is not asked
\* about its container.
HealthRuns(r) ==
  /\ Advancing(r) /\ row[r].st = "HEALTH_CHECK"
  /\ Step(r, row[r], Attached(obj[r])) /\ Upset /\ UNCHANGED subm

HealthFails(r) ==
  /\ Advancing(r) /\ row[r].st = "HEALTH_CHECK"
  /\ Finish(r, "FAILED", FALSE) /\ Fine /\ UNCHANGED subm

\* POST /submissions, k times: the platform makes one of each that reaches it.
Sent(r, k) ==
  [subm EXCEPT ![r].n = @ + k, ![r].on = @ \cup (subm[r].n + 1)..(subm[r].n + k)]

\* Mutant: the submission is noted and the run stays in its health check.
SubmittedInCheck(r, n) == [row[r] EXCEPT !.sub = n]
Submitted(r, n) == [row[r] EXCEPT !.st = "BENCHING", !.sub = n]

HealthPasses(r) ==
  LET o == Attached(obj[r])
      n == subm[r].n
  IN
  /\ Advancing(r) /\ row[r].st = "HEALTH_CHECK"
  /\ \/ /\ r \in site.policy
        /\ Step(r, [row[r] EXCEPT !.st = "SERVING",
                                  !.inc = IF obj[r].pod = "none" THEN -1 ELSE obj[r].inc], o)
        /\ Fine /\ UNCHANGED subm
     \* bench.start
     \/ /\ r \notin site.policy
        /\ Step(r, Submitted(r, n + 1), o)
        /\ subm' = Sent(r, 1) /\ Fine
     \* The platform took it and its answer was lost: sent again, or deferred.
     \/ /\ r \notin site.policy /\ Fault
        /\ Step(r, Submitted(r, n + 2), o)
        /\ subm' = Sent(r, 2)
     \/ /\ r \notin site.policy /\ Fault
        /\ Step(r, row[r], o)
        /\ subm' = Sent(r, 1)
     \* EvaluatorRejected
     \/ r \notin site.policy /\ Finish(r, "FAILED", FALSE) /\ Upset /\ UNCHANGED subm

\* bench.poll
StillRuns(r) == row[r].sub \in subm[r].on

\* BENCHING: only the platform is asked.
Benching(r) ==
  /\ Advancing(r) /\ row[r].st = "BENCHING" /\ UNCHANGED subm /\ Fine
  /\ IF StillRuns(r) THEN Step(r, row[r], Attached(obj[r]))
     ELSE \E st \in {"SUCCEEDED", "FAILED"} : Finish(r, st, FALSE)

\* SERVING: released, gone, crashed, or no longer the engine that was launched.
Serving(r) ==
  LET o == Attached(obj[r]) IN
  /\ Advancing(r) /\ row[r].st = "SERVING" /\ UNCHANGED subm /\ Fine
  /\ CASE row[r].release -> Finish(r, "SUCCEEDED", FALSE)
       [] ~row[r].release /\ (\/ o.prim = "none" \/ DeploymentState(o) = "CRASHED"
                              \/ /\ row[r].inc # -1 /\ o.pod # "none"
                                 /\ o.inc # row[r].inc)
            -> Finish(r, "FAILED", FALSE)
       [] OTHER -> Step(r, row[r], o)

\* _advance_runs: an exception in any of these fails the run.  Its benchmark,
\* if it has one, is not cancelled.
AdvanceRaises(r) ==
  /\ Advancing(r) /\ row[r].st # "PENDING" /\ Fault /\ UNCHANGED subm
  /\ \E faulty \in BOOLEAN : Finish(r, "FAILED", faulty)

(***************************************************************************)
(* _reap_teardowns                                                         *)
(***************************************************************************)
Reaping(r) == turn = [at |-> "reap", run |-> r] /\ UNCHANGED <<site, subm>>

Confirmed(r, o) == released(o) \/ row[r].age = 2

ReapGone(r) ==
  /\ Reaping(r) /\ obj[r].prim = "none" /\ Fine
  /\ \E o \in Leftovers(obj[r]) :
       Step(r, [row[r] EXCEPT !.tp = ~Confirmed(r, o), !.quit = Confirmed(r, o) /\ ~released(o)],
            o)

\* Quarantined at the give-up; until then forced from the grace on.
ReapStuck(r) ==
  LET o == Attached(obj[r]) IN
  /\ Reaping(r) /\ o.prim # "none" /\ Fine
  /\ CASE row[r].age = 2 -> Step(r, [row[r] EXCEPT !.tp = FALSE, !.quit = TRUE], o)
       [] row[r].age = 1 -> \E x \in Deleted(o) : Step(r, row[r], x)
       [] OTHER          -> Step(r, row[r], o)

ReapRaises(r) ==
  /\ Reaping(r) /\ Fault
  /\ \/ Step(r, row[r], obj[r])
     \* The Service cannot be deleted, and the patience is over.
     \/ /\ row[r].age = 2 /\ obj[r].prim = "none" /\ HasFixedService
        /\ Step(r, [row[r] EXCEPT !.tp = FALSE, !.quit = TRUE], obj[r])

Commit ==
  /\ turn.at = "commit" /\ saved' = row /\ turn' = Idle
  /\ UNCHANGED <<site, row, obj, subm, spent>>

\* The tick's session is lost: the process dies, or the commit fails and the
\* loop goes on.
TickLost ==
  /\ turn # Idle /\ spent.crashes < site.crashes
  /\ spent' = [spent EXCEPT !.crashes = @ + 1]
  /\ row' = saved
  /\ turn' \in {Idle, FirstOf("reconcile", saved)}
  /\ UNCHANGED <<site, saved, obj, subm>>

\* reconcile: what has no container left is over, unless it is being measured.
\* An attach that fails ends the worker again.
ReconcileOne(r) ==
  /\ turn = [at |-> "reconcile", run |-> r] /\ UNCHANGED <<site, subm>>
  /\ \/ /\ row[r].st # "BENCHING" /\ obj[r].prim = "none"
        /\ Finish(r, "FAILED", FALSE) /\ Fine
     \/ /\ row[r].st = "BENCHING" \/ obj[r].prim # "none"
        /\ Step(r, row[r], Attached(obj[r])) /\ Fine
     \/ Fault /\ row' = saved /\ turn' = FirstOf("reconcile", saved) /\ UNCHANGED <<saved, obj>>

(***************************************************************************)
(* Requests, between ticks, and time.                                      *)
(***************************************************************************)
Write(r, rw) ==
  /\ turn = Idle
  /\ saved' = [saved EXCEPT ![r] = rw] /\ row' = saved'
  /\ UNCHANGED <<site, turn, obj, subm, spent>>

\* A policy asks for a launch: the port is not asked about.
RequestLaunch(r) ==
  /\ r \in site.policy /\ r <= site.runs /\ saved[r].st = "absent"
  /\ \A q \in 1..(r - 1) : saved[q].st # "absent"
  /\ Write(r, [NoRow EXCEPT !.st = "PENDING"])
RequestRelease(r) ==
  /\ saved[r].st = "SERVING" /\ ~saved[r].release
  /\ Write(r, [saved[r] EXCEPT !.release = TRUE])
RequestStop(r) ==
  /\ Live(saved[r]) /\ ~saved[r].stop /\ spent.upsets < site.upsets
  /\ turn = Idle /\ Upset
  /\ saved' = [saved EXCEPT ![r].stop = TRUE] /\ row' = saved'
  /\ UNCHANGED <<site, turn, obj, subm>>
TimePasses(r) ==
  /\ saved[r].age < 2
  /\ saved[r].st \in {"LAUNCHING", "WAITING_READY"} \/ saved[r].tp
  /\ Write(r, [saved[r] EXCEPT !.age = @ + 1])

BenchmarkEnds(r) ==
  /\ \E i \in subm[r].on : subm' = [subm EXCEPT ![r].on = @ \ {i}]
  /\ UNCHANGED <<site, saved, row, turn, obj, spent>>

(***************************************************************************)
(* The cluster.                                                            *)
(***************************************************************************)
Cluster(r, o) ==
  /\ obj' = [obj EXCEPT ![r] = o]
  /\ UNCHANGED <<site, saved, row, turn, subm>>

\* A pod's way to readiness.
PodProgress(r) ==
  /\ obj[r].work /\ Fine
  /\ \/ obj[r].pod = "none" /\ Cluster(r, [obj[r] EXCEPT !.pod = "pulling"])
     \/ obj[r].pod = "queued" /\ Cluster(r, [obj[r] EXCEPT !.pod = "pulling"])
     \/ obj[r].pod = "pulling" /\ Cluster(r, [obj[r] EXCEPT !.pod = "running"])
     \/ obj[r].pod = "running" /\ Cluster(r, [obj[r] EXCEPT !.pod = "ready"])

\* What can befall it; a pod the cluster restarts or replaces is another
\* incarnation.
Befalls(o) ==
  CASE o.pod = "none"    -> {[o EXCEPT !.pod = p] : p \in {"queued", "unplaceable"}}
    [] o.pod = "pulling" -> {[o EXCEPT !.pod = p] : p \in {"badimage", "badmount"}}
    [] o.pod = "running" -> {[o EXCEPT !.pod = "exited"],
                             [o EXCEPT !.pod = "restarted", !.inc = @ + 1]}
    [] o.pod = "ready"   -> {[o EXCEPT !.pod = p, !.inc = @ + 1] : p \in {"ready", "pulling"}}
    [] OTHER             -> {}
PodUpset(r) == obj[r].work /\ Upset /\ \E o \in Befalls(obj[r]) : Cluster(r, o)

PodTerminates(r) ==
  /\ ~obj[r].work /\ obj[r].pod # "none" /\ Fine
  /\ Cluster(r, [obj[r] EXCEPT !.pod = "none"])
ServiceGoes(r) ==
  /\ obj[r].svc = "deleting" /\ Fine
  /\ Cluster(r, [obj[r] EXCEPT !.svc = "none"])

\* The llm-operator installs the chart, refuses it, or uninstalls it; one
\* before 0.5.1 lets the object go while its pods still terminate.
ChartInstalled(r) ==
  /\ site.kind = "llmservice" /\ obj[r].prim = "live" /\ ~obj[r].work /\ obj[r].phase = ""
  /\ \/ Fine /\ Cluster(r, [obj[r] EXCEPT !.work = TRUE])
     \/ Upset /\ Cluster(r, [obj[r] EXCEPT !.phase = "Failed"])
ChartUninstalled(r) ==
  /\ site.kind = "llmservice" /\ obj[r].prim = "deleting" /\ Fine
  /\ Cluster(r, [obj[r] EXCEPT !.prim = "none", !.work = FALSE,
                               !.svc = IF obj[r].owned THEN "none" ELSE @, !.owned = FALSE])

(***************************************************************************)
(* The TuningRun operator: Reconcile reads the run and acts on what it     *)
(* read; the run may be deleted in between.                                *)
(***************************************************************************)
OperatorReads(r) ==
  /\ site.kind = "custom" /\ ~obj[r].seen /\ Fine
  /\ obj[r].prim = "live" /\ obj[r].phase # "Expired"
  /\ Cluster(r, [obj[r] EXCEPT !.seen = TRUE])

\* phaseFromPod of the newest pod, Pending without one.
phaseFromPod(o) ==
  CASE o.pod = "none"                                -> "Pending"
    [] o.pod \in {"badimage", "exited", "restarted"} -> "Failed"
    [] o.pod = "ready"                               -> "Ready"
    [] OTHER                                         -> "Starting"

\* Mutant: a run nobody deletes is never too old.
ExpiredNever(o) == FALSE
Expired(o) == site.ttl /\ o.old

\* ensureDeployment and ensureService make what is missing; teardown deletes it.
Ensured(o) == [o EXCEPT !.work = TRUE, !.svc = "own"]
TornDown(o) == [o EXCEPT !.work = FALSE, !.svc = "none"]
\* observe and applyStatus: the status of a run that is gone cannot be written.
Reported(o, phase) ==
  [o EXCEPT !.seen = FALSE, !.phase = IF o.prim = "live" THEN phase ELSE ""]
Reconciled(o) ==
  IF Expired(o) THEN Reported(TornDown(o), "Expired")
  ELSE Reported(Ensured(o), phaseFromPod(o))
OperatorActs(r) ==
  /\ site.kind = "custom" /\ obj[r].seen /\ Fine
  /\ Cluster(r, Reconciled(obj[r]))

TooOld(r) ==
  /\ site.kind = "custom" /\ obj[r].prim = "live" /\ ~obj[r].old /\ Fine
  /\ Cluster(r, [obj[r] EXCEPT !.old = TRUE])
\* Kubernetes collects what a deleted TuningRun owned.
Collected(r) ==
  /\ site.kind = "custom" /\ obj[r].prim = "none" /\ (obj[r].work \/ obj[r].svc # "none")
  /\ Fine /\ Cluster(r, [obj[r] EXCEPT !.work = FALSE, !.svc = "none", !.phase = ""])

(***************************************************************************)
(* Specification.                                                          *)
(***************************************************************************)
Init ==
  /\ site \in Sites
  /\ saved = [r \in Runs |-> NoRow] /\ row = saved /\ turn = Idle
  /\ obj = [r \in Runs |-> Nothing]
  /\ subm = [r \in Runs |-> [n |-> 0, on |-> {}]]
  /\ spent = [faults |-> 0, crashes |-> 0, upsets |-> 0]

Advance(r) ==
  \/ HeldByARun(r) \/ Launch(r) \/ Deferred(r)
  \/ StartupGone(r) \/ StartupReady(r) \/ StartupFails(r) \/ StartupWaits(r)
  \/ HealthRuns(r) \/ HealthFails(r) \/ HealthPasses(r) \/ Benching(r) \/ Serving(r)
  \/ AdvanceRaises(r)
Reap(r) == ReapGone(r) \/ ReapStuck(r) \/ ReapRaises(r)
Tick ==
  \/ TickBegins \/ Commit
  \/ \E r \in Runs : StopOne(r) \/ PlaceOne(r) \/ Advance(r) \/ Reap(r) \/ ReconcileOne(r)
Requests ==
  \E r \in Runs : RequestLaunch(r) \/ RequestRelease(r) \/ RequestStop(r) \/ TimePasses(r)
ClusterMoves(r) ==
  \/ PodProgress(r) \/ PodTerminates(r) \/ ServiceGoes(r)
  \/ ChartInstalled(r) \/ ChartUninstalled(r) \/ Collected(r)
OperatorMoves(r) == OperatorReads(r) \/ OperatorActs(r)

Next ==
  \/ Tick \/ TickLost \/ Requests
  \/ \E r \in Runs : \/ BenchmarkEnds(r) \/ PodUpset(r) \/ TooOld(r)
                     \/ ClusterMoves(r) \/ OperatorMoves(r)

\* The worker ticks for ever, time passes, the cluster and its operators do
\* their work, benchmarks end and a policy gives back what it launched.  Time
\* and requests are seen between ticks, hence strong fairness.
Fairness ==
  /\ WF_vars(Tick)
  /\ \A r \in Runs : /\ SF_vars(TimePasses(r) \/ RequestRelease(r))
                     /\ WF_vars(BenchmarkEnds(r)) /\ WF_vars(ClusterMoves(r))
                     /\ WF_vars(OperatorMoves(r)) /\ WF_vars(TooOld(r))

Spec == Init /\ [][Next]_vars /\ Fairness

(***************************************************************************)
(* Properties.                                                             *)
(***************************************************************************)

\* While no tick is lost, the fixed NodePort a run is checked or measured on
\* leads to no other run's engine: the next run's Service gets the port only
\* after this run is over (port_holder, release_leftovers,
\* _reclaim_orphan_port).
PortLeadsHome ==
  \A r, q \in Runs :
    /\ spent.crashes = 0 /\ site.fixed /\ r # q
    /\ row[r].st \in {"HEALTH_CHECK", "BENCHING", "SERVING"} /\ row[r].ep = "port"
    => obj[q].svc # "own"

\* A run that is over and no longer being torn down has nothing left in the
\* cluster that holds cards or the port, unless the janitor gave up on it:
\* also when ticks are lost between what they do and their commit.
OverIsClean ==
  \A r \in Runs :
    Terminal(saved[r]) /\ ~saved[r].tp /\ ~saved[r].quit /\ turn = Idle
    => obj[r].prim = "none" /\ released(obj[r])

\* A run is submitted to the benchmark platform a second time only when the
\* tick that submitted it, or the platform's answer, was lost.
SubmittedOnce ==
  \A r \in Runs : subm[r].n <= 1 + spent.crashes + spent.faults

\* A run that waits for the fixed port stops waiting: whatever holds the port,
\* a run or what one left behind, gives it back.
PortServed ==
  \A r \in Runs :
    saved[r].st = "PENDING" /\ saved[r].wait = "NODE_PORT" ~> saved[r].st # "PENDING"

\* The TTL's safety net: the pods of a TuningRun the platform gave up on go.
ForgottenExpires ==
  \A r \in Runs :
    site.ttl /\ Terminal(saved[r]) /\ obj[r].prim = "live" ~> obj[r].pod = "none"

=============================================================================

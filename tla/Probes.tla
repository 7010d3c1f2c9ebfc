------------------------------- MODULE Probes -------------------------------
(***************************************************************************)
(* What the platform asks of a machine before, or beside, a run: the       *)
(* preflight of a campaign and the weights check on a cluster, as probe    *)
(* Jobs (launch/k8s.py), the smoke test of a machine with its throwaway    *)
(* pod, and the reading of an engine image's vocabulary and of a model's   *)
(* config in a throwaway container (engines/vocabulary_store.py), with the *)
(* pull of an image onto a docker host (launch/ssh_docker.py).             *)
(*                                                                         *)
(* Probes run in requests and in a background thread, beside each other.   *)
(* The cluster is the rest of the state: what its nodes hold, and the pods *)
(* of the probes as its scheduler and its kubelets move them.  A call to   *)
(* the API server may fail, or take effect and lose its answer, and the    *)
(* process may die; MaxFaults bounds how often.  Every probe's objects     *)
(* have names of their own (a random token), so they are kept per process. *)
(***************************************************************************)
EXTENDS Naturals, FiniteSets, FiniteSetsExt

CONSTANTS Nodes,      \* the nodes the machine's selector matches
          None,       \* no node, no answer
          Worlds,     \* what the nodes and the docker host may hold at first
          MaxOps,     \* bound: operations started on a cluster, and on a docker host
          MaxFaults   \* bound: failed calls and deaths of the process

(* What is looked at: the kind of machine, where the weights are and whether  *)
(* they are there, what the selector's nodes can take, and their images.      *)
WorldType ==
  [docker : BOOLEAN, claim : BOOLEAN, on_claim : BOOLEAN, readable : BOOLEAN,
   by_name : BOOLEAN, wide : BOOLEAN, host : {"absent", "present", "broken"},
   health : [Nodes -> {"ready", "cordoned", "not_ready"}], weights : [Nodes -> BOOLEAN],
   images : [Nodes -> [{"engine", "policy"} -> {"absent", "present", "broken"}]]]

ASSUME ProbesAssumption == /\ IsFiniteSet(Nodes) /\ Nodes # {} /\ None \notin Nodes
                           /\ MaxOps \in [cluster : Nat, docker : Nat] /\ MaxFaults \in Nat
(* A node's Job is no other probe's. *)
ASSUME NamesAssumption == Nodes \cap {"pulls", "weights", "read", "smoke"} = {}
ASSUME WorldsAssumption == Worlds \subseteq WorldType

VARIABLES world,    \* what is on the nodes and on the docker host
          objs,     \* objs[p][n]: the object named n of process p
          op,       \* op[p]: the operation process p is in
          answer,   \* answer[p]: what the last operation of p reported
          pull,     \* the pull of the image onto the docker host, and who waits for it
          reading,  \* vocabulary_store._reading
          stored,   \* stored[k]: the latest row read for k
          used      \* the bounds used up: operations and faults

vars == <<world, objs, op, answer, pull, reading, stored, used>>
-----------------------------------------------------------------------------
(* The containers of a probe, the things read, the objects a probe makes:    *)
(* the two Jobs of a preflight, one per node of a weights check, the one of a *)
(* read, and the pod of a smoke test.                                         *)
Containers == {"engine", "policy"}
Keys == {"image", "model"}
Procs == {"request", "thread"}
Jobs == {"pulls", "weights", "read"} \cup Nodes
Objects == Jobs \cup {"smoke"}
Statuses == {"pass", "warn", "fail", "skip"}

(* A pod as its status and its events tell it: where it is, whether its    *)
(* volumes were mounted or failed to, and per container the stage reached. *)
Stages == {"creating", "pulled", "backoff", "create_error", "terminated"}
NoPod == [node |-> None, unschedulable |-> FALSE, mounted |-> FALSE,
          mount_failed |-> FALSE, at |-> [c \in Containers |-> "creating"]]
NoObject == [is |-> "none", pod |-> NoPod, has |-> {}, mounts |-> FALSE]

(* The rendered objects: their containers, and whether the weights are      *)
(* mounted.  A Job is reaped by its TTL or its active deadline, a pod is not. *)
render_preflight_job(images, mounts) ==
  [NoObject EXCEPT !.is = "job", !.has = images, !.mounts = mounts]
render_image_job(mounts) == [NoObject EXCEPT !.is = "job", !.has = {"engine"}, !.mounts = mounts]
smoke_pod == [NoObject EXCEPT !.is = "pod", !.has = {"engine"}]

(* _weights_mount: a hostPath the kubelet checks, or a claim, which mounts  *)
(* whatever is on it and is read from inside the container (reads_log).     *)
reads_log(n) == world.claim /\ n \in {"weights"} \cup Nodes
WeightsOn(nd) == IF world.claim THEN world.on_claim ELSE world.weights[nd]
-----------------------------------------------------------------------------
(* read_probe: the container statuses first, then the events, when they     *)
(* could be read; an image is taken as pulled by the first sign of it, and  *)
(* a mount that worked clears the failures before it.                       *)
NoVerdict == [node |-> None, pulled |-> {}, failed |-> {}, finished |-> {},
              mounted |-> FALSE, mount_failed |-> FALSE,
              unschedulable |-> FALSE, containers |-> {}]

(* A variant that takes any waiting reason as a sign of the image. *)
read_probe_any_reason(o, events, containers) ==
  LET p == o.pod
      seen == {c \in o.has : p.at[c] \in {"backoff", "terminated", "create_error"}}
      told == {c \in o.has : events /\ p.at[c] = "pulled"}
      mounted == seen # {} \/ (events /\ p.mounted)
  IN  IF o.is = "none" THEN [NoVerdict EXCEPT !.containers = containers]
      ELSE [node |-> p.node, pulled |-> seen \cup told,
            failed |-> {c \in o.has : p.at[c] = "backoff"},
            finished |-> {c \in o.has : p.at[c] \in {"terminated", "create_error"}},
            mounted |-> mounted,
            mount_failed |-> events /\ p.mount_failed /\ ~mounted,
            unschedulable |-> p.unschedulable, containers |-> containers]

read_probe(o, events, containers) ==
  LET p == o.pod
      seen == {c \in o.has : p.at[c] \in {"terminated", "create_error"}}
      told == {c \in o.has : events /\ p.at[c] = "pulled"}
      mounted == seen # {} \/ (events /\ p.mounted)
  IN  IF o.is = "none" THEN [NoVerdict EXCEPT !.containers = containers]
      ELSE [node |-> p.node, pulled |-> seen \cup told,
            failed |-> {c \in o.has : p.at[c] = "backoff"},
            finished |-> {c \in o.has : p.at[c] \in {"terminated", "create_error"}},
            mounted |-> mounted,
            mount_failed |-> events /\ p.mount_failed /\ ~mounted,
            unschedulable |-> p.unschedulable, containers |-> containers]

(* ProbeVerdict.settled, .pulling, .mount_settled. *)
settled(v) ==
  \/ v.unschedulable \/ v.mount_failed
  \/ /\ v.containers # {}
     /\ \A c \in v.containers : c \in v.failed \/ (c \in v.pulled /\ c \in v.finished)

pulling(v, error) == ~settled(v) /\ ~error /\ v.containers # {}

mount_settled(v, logged) ==
  \/ v.unschedulable \/ v.mount_failed
  \/ "engine" \in v.failed
  \/ v.mounted /\ (~logged \/ "engine" \in v.finished)

(* The checks a verdict gives: one per image, and one for the weights. *)
Check(key, status, node) == [key |-> key, status |-> status, node |-> node]

image_status(v, error, c) == CASE c \in v.pulled -> "pass"
                               [] c \notin v.pulled /\ c \in v.failed -> "fail"
                               [] c \notin v.pulled \cup v.failed /\ pulling(v, error) -> "warn"
                               [] OTHER -> "skip"

checks(v, error, images) ==
  {Check(c, image_status(v, error, c), v.node) : c \in images}
    \cup {Check("placement", "fail", None) : x \in {y \in {1} : v.unschedulable}}

(* `log` is what the engine container printed, which is asked of a claim   *)
(* only; it is empty when it was not or could not be read.                 *)
model_check(v, logged, log) ==
  Check("weights",
        IF v.mount_failed \/ (logged /\ log = "model-missing") THEN "fail"
        ELSE IF IF logged THEN log = "model-present" ELSE v.mounted THEN "pass"
        ELSE "skip",
        v.node)

-----------------------------------------------------------------------------
(* _smoke_nodes: the nodes the selector matches, or that they cannot be read. *)
node_check ==
  Check("node",
        IF ~world.readable THEN "skip"
        ELSE IF \E n \in Nodes : world.health[n] = "not_ready" THEN "fail"
        ELSE IF \E n \in Nodes : world.health[n] = "cordoned" THEN "warn" ELSE "pass",
        None)

gpus_check == Check("gpus", IF world.wide THEN "fail" ELSE "pass", None)

(* _node_takes_pods *)
TakesPods(n) == world.health[n] = "ready"

(* An operation: what it is and where, the objects it knows it made, the    *)
(* ones its current step has left to do, what it read of them, whether its   *)
(* deadline passed, and the answer so far.                                   *)
Idle == [kind |-> "none", pc |-> "idle", images |-> {}, jobs |-> {}, todo |-> {},
         verdict |-> [n \in Jobs |-> NoVerdict], log |-> [n \in Jobs |-> ""],
         error |-> FALSE, late |-> FALSE, report |-> {}, lane |-> "none",
         steps |-> {}, keys |-> {}, key |-> None, rows |-> {}, bg |-> FALSE]
NoAnswer == [report |-> {}, rows |-> {}, kept |-> {}, lost |-> {}]

OpsBound == IF world.docker THEN MaxOps.docker ELSE MaxOps.cluster

Start(p, raises, o) == /\ op[p].pc = "idle" /\ used.ops < OpsBound
                       /\ raises => used.faults < MaxFaults
                       /\ \A n \in Objects : objs[p][n].is = "none"
                       /\ op' = [op EXCEPT ![p] = o]
                       /\ answer' = [answer EXCEPT ![p] = NoAnswer]
                       /\ used' = [ops |-> used.ops + 1, faults |-> used.faults + IF raises THEN 1 ELSE 0]
Go(p, o) == op' = [op EXCEPT ![p] = o]

(* A call that raises is paid from the bound. *)
Calls(raises) == /\ raises => used.faults < MaxFaults
                 /\ used' = [used EXCEPT !.faults = @ + IF raises THEN 1 ELSE 0]
-----------------------------------------------------------------------------
(* POST /campaigns/preflight on a cluster machine: K8sDriver.preflight.  A  *)
(* failed node check answers without probing.                               *)
Preflight(p) ==
  \E images \in SUBSET Containers, model, transport \in BOOLEAN :
    LET first == {c \in {Check("endpoint", "fail", None)} : world.by_name}
                   \cup {node_check}
                   \cup {c \in {gpus_check} : world.readable}
        jobs == (IF images # {} THEN {"pulls"} ELSE {})
                  \cup (IF model /\ "engine" \in images THEN {"weights"} ELSE {})
        o == [Idle EXCEPT !.kind = "preflight", !.pc = "answer"]
    IN  /\ p = "request" /\ ~world.docker
        /\ Start(p, ~transport, IF ~transport THEN [o EXCEPT !.report = {Check("cluster", "fail", None)}]
                    ELSE IF node_check.status = "fail" \/ jobs = {}
                      THEN [o EXCEPT !.report = first]
                    ELSE [o EXCEPT !.pc = "apply", !.report = first, !.images = images,
                                   !.jobs = jobs, !.todo = jobs])
        /\ UNCHANGED <<world, objs, reading, stored, pull>>

(* The weights check of a machine, node by node: model_presence.  A claim,  *)
(* which all nodes share, is looked at from the first of them.              *)
Presence(p) ==
  \E first \in Nodes :
    LET names == {n \in Nodes : world.readable /\ TakesPods(n)}
        targets == IF world.claim THEN {first} \cap names ELSE names
    IN  /\ p = "request" /\ ~world.docker
        /\ names # {} => first \in names
        /\ Start(p, FALSE, [Idle EXCEPT !.kind = "presence", !.todo = targets,
                                 !.pc = IF names = {} THEN "answer" ELSE "apply",
                                 !.report = IF names = {} THEN {Check("weights", "skip", None)} ELSE {}])
        /\ UNCHANGED <<world, objs, reading, stored, pull>>

(* POST /machines/{id}/smoke-test with the probe pod. *)
SmokeSteps == {"cluster", "credential", "permissions", "node", "host", "pod"}
Smoke(p) ==
  /\ p = "request" /\ ~world.docker
  /\ Start(p, FALSE, [Idle EXCEPT !.kind = "smoke", !.pc = "cluster", !.steps = SmokeSteps, !.lane = "apply"])
  /\ UNCHANGED <<world, objs, reading, stored, pull>>

(* Reading what an image or a model holds: needs_reading for the image, a   *)
(* failed read over an hour old or any over a day old; needs_model_reading  *)
(* for the model, which is read well once.                                  *)
needs_reading(k) == \/ stored[k].status = "none"
                    \/ stored[k].status = "failed" /\ stored[k].age >= 1
                    \/ stored[k].status = "ok" /\ k = "image" /\ stored[k].age >= 2

ReadOf(keys) == [Idle EXCEPT !.kind = "read", !.keys = keys,
                             !.pc = IF world.docker THEN "ssh" ELSE "apply", !.todo = {"read"},
                             !.key = IF "image" \in keys THEN "image" ELSE "model"]

(* PolicySession._read_vocabulary with in_background: a thread per key, and *)
(* the key is kept from a second one while it works.                        *)
Background(p) ==
  \E k \in Keys :
    /\ p = "thread" /\ needs_reading(k) /\ k \notin reading
    /\ Start(p, FALSE, [ReadOf({k}) EXCEPT !.bg = TRUE])
    /\ reading' = reading \cup {k}
    /\ UNCHANGED <<world, objs, stored, pull>>

(* POST /campaigns/{id}/engine-vocabulary: the image, then the model. *)
OnDemand(p) == /\ p = "request"
               /\ Start(p, FALSE, ReadOf(Keys))
               /\ UNCHANGED <<world, objs, reading, stored, pull>>
-----------------------------------------------------------------------------
(* api.apply, one object at a time: it is made, the call is refused, or it  *)
(* is made and the answer lost.                                             *)
Manifest(o, n) == CASE n = "pulls" -> render_preflight_job(o.images, FALSE)
                    [] n = "smoke" -> smoke_pod
                    [] n = "read" -> render_image_job(o.key = "model")
                    [] OTHER -> render_preflight_job({"engine"}, TRUE)

(* The two Jobs of a preflight are in a dict: the pulls, then the model. *)
InOrder(todo) == IF "pulls" \in todo THEN {"pulls"} ELSE todo

Applied(o, n) ==
  LET known == [o EXCEPT !.jobs = @ \cup {n}, !.todo = @ \ {n}]
  IN  IF known.todo # {} THEN known ELSE [known EXCEPT !.pc = "poll", !.todo = known.jobs]

(* An apply that raised: the preflight deletes both Jobs and skips its      *)
(* probe; the weights check deletes the Jobs it knows of; a read, whose     *)
(* apply is not in its try, is a failed read that deletes nothing.          *)
(* A variant leaves the Jobs of a preflight to their TTL. *)
ApplyRaisedNoUndo(o) ==
  IF o.kind = "presence" THEN [o EXCEPT !.pc = "delete", !.todo = o.jobs, !.error = TRUE]
  ELSE [o EXCEPT !.pc = IF o.kind = "preflight" THEN "answer" ELSE "row", !.todo = {}, !.images = {}, !.jobs = {}, !.error = TRUE]

ApplyRaised(o) ==
  CASE o.kind = "preflight" -> [o EXCEPT !.pc = "delete", !.todo = o.jobs, !.images = {}, !.jobs = {},
                                         !.report = @ \cup {Check("probe", "skip", None)}]
    [] o.kind = "presence" -> [o EXCEPT !.pc = "delete", !.todo = o.jobs, !.error = TRUE]
    [] OTHER -> [o EXCEPT !.pc = "row", !.todo = {}, !.error = TRUE]

Apply(p) ==
  LET o == op[p] IN
  \E n \in InOrder(o.todo), made, answered \in BOOLEAN :
    /\ o.pc = "apply"
    /\ answered => made
    /\ Calls(~answered)
    /\ objs' = IF made THEN [objs EXCEPT ![p][n] = Manifest(o, n)] ELSE objs
    /\ Go(p, IF answered THEN Applied(o, n) ELSE ApplyRaised(o))
    /\ answer' = IF made /\ ~answered THEN [answer EXCEPT ![p].lost = @ \cup {n}] ELSE answer
    /\ UNCHANGED <<world, reading, stored, pull>>
-----------------------------------------------------------------------------
(* A round of a polling loop reads the pods and the events of every Job, in *)
(* turn; `todo` is what is left of the round.  Events that cannot be read   *)
(* are none.  The loop ends when all have answered or its time is up.       *)
Answered(o, n) == IF n = "pulls" THEN settled(o.verdict[n])
                  ELSE mount_settled(o.verdict[n], reads_log(n))

AfterRound(o) == IF o.late \/ \A n \in o.jobs : Answered(o, n)
                   THEN [o EXCEPT !.pc = "logs", !.todo = {}]
                   ELSE [o EXCEPT !.todo = o.jobs]

(* The Jobs a preflight deletes: the pulls go on while images are pulled. *)
Kept(o) == {n \in o.jobs : n = "pulls" /\ pulling(o.verdict[n], o.error)}

Poll(p) ==
  LET o == op[p] IN
  \E n \in InOrder(o.todo), raises, events \in BOOLEAN :
    LET v == read_probe(objs[p][n], events, IF n = "pulls" THEN o.images ELSE {"engine"})
        told == [o EXCEPT !.verdict[n] = v, !.todo = @ \ {n}]
        failed == [o EXCEPT !.error = TRUE]
    IN  /\ o.pc = "poll" /\ o.kind \in {"preflight", "presence"}
        /\ raises => events
        /\ Calls(raises \/ ~events)
        /\ Go(p, IF raises THEN [failed EXCEPT !.pc = "delete", !.todo = o.jobs \ Kept(failed)]
                 ELSE IF told.todo # {} THEN told ELSE AfterRound(told))
        /\ UNCHANGED <<world, objs, answer, reading, stored, pull>>

(* time.monotonic() >= deadline, of the loop the process is in. *)
TimePasses(p) ==
  /\ op[p].pc = "poll" \/ op[p].lane = "poll"
  /\ ~op[p].late
  /\ Go(p, [op[p] EXCEPT !.late = TRUE])
  /\ UNCHANGED <<world, objs, answer, reading, stored, used, pull>>

(* The log of a container that looked at the claim: read after the loop, by *)
(* a preflight only once it finished.  A log that cannot be read is empty.  *)
LogOf(p, n) == IF objs[p][n].pod.at["engine"] # "terminated" THEN ""
               ELSE IF world.on_claim THEN "model-present" ELSE "model-missing"

ReadLogs(p) ==
  LET o == op[p]
      wanted == {n \in o.jobs : reads_log(n) /\ (o.kind = "preflight" => "engine" \in o.verdict[n].finished)}
  IN  /\ o.pc = "logs"
      /\ \E raises \in BOOLEAN :
           /\ raises => wanted # {}
           /\ Calls(raises)
           /\ Go(p, [o EXCEPT !.pc = "delete", !.todo = o.jobs \ Kept(o),
                     !.log = [n \in Jobs |-> IF n \in wanted /\ ~raises THEN LogOf(p, n) ELSE ""]])
      /\ UNCHANGED <<world, objs, answer, reading, stored, pull>>

(* The finally: every Job is deleted, and a delete that raises is logged. *)
Deleted(o) == IF o.todo # {} THEN o
              ELSE [o EXCEPT !.pc = IF o.kind = "read" THEN "row" ELSE "answer"]

Delete(p) ==
  LET o == op[p] IN
  /\ o.pc = "delete"
  /\ \/ o.todo = {} /\ Go(p, Deleted(o)) /\ UNCHANGED <<objs, answer, used>>
     \/ \E n \in o.todo, raises \in BOOLEAN :
          /\ Calls(raises)
          /\ objs' = IF raises THEN objs ELSE [objs EXCEPT ![p][n] = NoObject]
          /\ answer' = IF raises THEN [answer EXCEPT ![p].lost = @ \cup {n}] ELSE answer
          /\ Go(p, Deleted([o EXCEPT !.todo = @ \ {n}]))
  /\ UNCHANGED <<world, reading, stored, pull>>

(* What the operation returns.  The placement check of the model's probe is *)
(* added when the pulls had none; what one node saw on a claim is said of   *)
(* every node.                                                              *)
PreflightReport(o) ==
  LET pulls == o.verdict["pulls"]
      mount == o.verdict["weights"]
      placement == {c \in {Check("placement", "fail", None)} : mount.unschedulable /\ ~pulls.unschedulable}
  IN  o.report \cup checks(pulls, o.error, o.images)
        \cup (IF "weights" \notin o.jobs THEN {}
              ELSE placement \cup {model_check(mount, reads_log("weights"), o.log["weights"])})

PresenceReport(o) ==
  IF o.error THEN {Check("weights", "skip", None)}
  ELSE o.report \cup
    UNION {LET c == model_check(o.verdict[n], reads_log(n), o.log[n])
           IN  {[c EXCEPT !.node = m] : m \in IF world.claim THEN {x \in Nodes : TakesPods(x)} ELSE {n}}
           : n \in o.jobs}

Return(p) ==
  LET o == op[p]
      report == CASE o.kind = "preflight" -> PreflightReport(o)
                  [] o.kind = "presence" -> PresenceReport(o)
                  [] OTHER -> o.report
  IN  /\ o.pc = "answer"
      /\ Go(p, Idle)
      /\ answer' = [answer EXCEPT ![p].report = report, ![p].kept = Kept(o)]
      /\ UNCHANGED <<world, objs, reading, stored, used, pull>>
-----------------------------------------------------------------------------
(* The smoke test.  SmokeSteps.run: the transport and the credential first, *)
(* and a failure of theirs skips the rest; then lanes beside each other.    *)
StepAnswers(step) ==
  IF step \in {"cluster", "credential"} THEN {"pass", "fail"}
  ELSE IF step = "node" THEN {node_check.status}
  ELSE Statuses

SmokeStep(p) ==
  LET o == op[p] IN
  \E step \in o.steps \ {"pod"} :
    \E status \in StepAnswers(step) :
      LET rest == o.steps \ {step}
          told == o.report \cup {Check(step, status, None)}
      IN  /\ \/ o.pc = step
             \/ o.pc = "lanes" /\ (step = "host" => "node" \notin o.steps)
          /\ Go(p, IF o.pc # "lanes" /\ status = "fail"
                     THEN [o EXCEPT !.pc = "answer", !.report = told \cup {Check(s, "skip", None) : s \in rest}]
                   ELSE [o EXCEPT !.pc = IF step = "cluster" THEN "credential" ELSE "lanes",
                                  !.steps = rest, !.report = told])
          /\ UNCHANGED <<world, objs, answer, reading, stored, used, pull>>

PodAnswer(o, status, node) ==
  [o EXCEPT !.lane = "over", !.steps = @ \ {"pod"}, !.report = @ \cup {Check("pod", status, node)}]

(* The lane of the pod: create it, look until it is placed, refused or late, *)
(* and delete it before the step answers.                                    *)
SmokePod(p) ==
  LET o == op[p]
      pod == objs[p]["smoke"].pod
  IN  /\ o.pc = "lanes"
      /\ \/ \E made, answered \in BOOLEAN :
               /\ o.lane = "apply"
               /\ answered => made
               /\ Calls(~answered)
               /\ objs' = IF made THEN [objs EXCEPT ![p]["smoke"] = smoke_pod] ELSE objs
               /\ Go(p, IF answered THEN [o EXCEPT !.lane = "poll"] ELSE PodAnswer(o, "fail", None))
               /\ answer' = IF made /\ ~answered THEN [answer EXCEPT ![p].lost = @ \cup {"smoke"}] ELSE answer
         \/ \E reads, deletes \in BOOLEAN :
               /\ o.lane = "poll"
               /\ reads => pod.node # None \/ pod.unschedulable \/ o.late
               /\ Calls(~reads \/ ~deletes)
               /\ objs' = IF deletes THEN [objs EXCEPT ![p]["smoke"] = NoObject] ELSE objs
               /\ Go(p, PodAnswer(o, IF reads /\ pod.node # None THEN "pass" ELSE "fail", IF reads THEN pod.node ELSE None))
               /\ answer' = IF deletes THEN answer ELSE [answer EXCEPT ![p].lost = @ \cup {"smoke"}]
      /\ UNCHANGED <<world, reading, stored, pull>>

SmokeDone(p) ==
  /\ op[p].pc = "lanes" /\ op[p].steps = {}
  /\ Go(p, [op[p] EXCEPT !.pc = "answer"])
  /\ UNCHANGED <<world, objs, answer, reading, stored, used, pull>>
-----------------------------------------------------------------------------
(* K8sDriver.run_in_image: until the pod ended, or it is late.  The command *)
(* may fail, and what it printed may not be a result.                       *)
ReadPoll(p) ==
  LET o == op[p]
      over == objs[p]["read"].pod.at["engine"] = "terminated"
  IN  \E raises, works \in BOOLEAN :
        /\ o.pc = "poll" /\ o.kind = "read"
        /\ over \/ o.late \/ raises
        /\ works => over /\ ~raises
        /\ Calls(raises)
        /\ Go(p, [o EXCEPT !.pc = "delete", !.todo = {"read"}, !.error = ~works])
        /\ UNCHANGED <<world, objs, answer, reading, stored, pull>>

(* SshDockerDriver.run_in_image: only an image that is on the host.  One    *)
(* that is not defers the read: nothing is stored of any key.               *)
ReadSsh(p) ==
  LET o == op[p] IN
  \E works \in BOOLEAN :
    /\ o.pc = "ssh"
    /\ world.host # "present" => ~works
    /\ Go(p, IF world.host # "present" THEN [o EXCEPT !.pc = "store", !.rows = {}]
             ELSE [o EXCEPT !.pc = "row", !.error = ~works])
    /\ UNCHANGED <<world, objs, answer, reading, stored, used, pull>>

(* read_image and read_model turn whatever was raised into a failed row. *)
Row(p) ==
  LET o == op[p]
      rows == o.rows \cup {[key |-> o.key, status |-> IF o.error THEN "failed" ELSE "ok"]}
      rest == o.keys \ {r.key : r \in rows}
  IN  /\ o.pc = "row"
      /\ Go(p, IF rest = {} THEN [o EXCEPT !.pc = "store", !.rows = rows]
               ELSE [ReadOf(rest) EXCEPT !.keys = o.keys, !.rows = rows, !.bg = o.bg])
      /\ UNCHANGED <<world, objs, answer, reading, stored, used, pull>>

(* The rows are committed, or the database is not reached; the key of a     *)
(* background read is given back in either case.                            *)
(* A variant gives the key back only when the row was committed. *)
StoreReleasingOnSuccess(p) ==
  LET o == op[p] IN
  \E raises \in BOOLEAN :
    /\ o.pc = "store"
    /\ raises => o.rows # {}
    /\ Calls(raises)
    /\ Go(p, Idle)
    /\ answer' = [answer EXCEPT ![p].rows = o.rows]
    /\ stored' = [k \in Keys |-> IF raises \/ \A r \in o.rows : r.key # k THEN stored[k]
                   ELSE [status |-> (CHOOSE r \in o.rows : r.key = k).status, age |-> 0]]
    /\ reading' = IF o.bg /\ ~raises THEN reading \ o.keys ELSE reading
    /\ UNCHANGED <<world, objs, pull>>

Store(p) ==
  LET o == op[p] IN
  \E raises \in BOOLEAN :
    /\ o.pc = "store"
    /\ raises => o.rows # {}
    /\ Calls(raises)
    /\ Go(p, Idle)
    /\ answer' = [answer EXCEPT ![p].rows = o.rows]
    /\ stored' = [k \in Keys |-> IF raises \/ \A r \in o.rows : r.key # k THEN stored[k]
                   ELSE [status |-> (CHOOSE r \in o.rows : r.key = k).status, age |-> 0]]
    /\ reading' = IF o.bg THEN reading \ o.keys ELSE reading
    /\ UNCHANGED <<world, objs, pull>>

(* Hours, then a day, go by. *)
Age == /\ \E k \in Keys : stored[k].status # "none" /\ stored[k].age < 2
       /\ stored' = [k \in Keys |-> IF stored[k].status = "none" \/ stored[k].age = 2 THEN stored[k]
                                    ELSE [stored[k] EXCEPT !.age = @ + 1]]
       /\ UNCHANGED <<world, objs, op, answer, reading, used, pull>>

(* The process dies: its threads and what they remember are gone, what they *)
(* made on the cluster is not.                                              *)
Die == /\ \E p \in Procs : op[p].pc # "idle"
       /\ Calls(TRUE)
       /\ op' = [p \in Procs |-> Idle]
       /\ answer' = [p \in Procs |-> [NoAnswer EXCEPT !.lost = {n \in Objects : objs[p][n].is # "none"}]]
       /\ reading' = {}
       /\ UNCHANGED <<world, objs, stored, pull>>
-----------------------------------------------------------------------------
(* The cluster.  A pod is placed, on the node its Job is pinned to or on any *)
(* that takes pods, or found unschedulable.                                  *)
Place(p, n) ==
  LET o == objs[p][n]
      fits == {m \in Nodes : TakesPods(m) /\ (n \in Nodes => m = n)}
  IN  /\ o.is # "none" /\ o.pod.node = None
      /\ \/ \E m \in fits : objs' = [objs EXCEPT ![p][n].pod.node = m, ![p][n].pod.unschedulable = FALSE]
         \/ fits = {} /\ ~o.pod.unschedulable /\ objs' = [objs EXCEPT ![p][n].pod.unschedulable = TRUE]
      /\ UNCHANGED <<world, op, answer, pull, reading, stored, used>>

(* Its volumes are mounted: a hostPath that is not there never is, a claim   *)
(* may fail at first.                                                        *)
Mount(p, n) ==
  LET o == objs[p][n]
      absent == o.mounts /\ ~world.claim /\ ~world.weights[o.pod.node]
  IN  /\ o.is = "job" /\ o.pod.node # None /\ ~o.pod.mounted
      /\ \/ ~absent /\ objs' = [objs EXCEPT ![p][n].pod.mounted = TRUE]
         \/ /\ absent \/ (o.mounts /\ world.claim)
            /\ ~o.pod.mount_failed
            /\ objs' = [objs EXCEPT ![p][n].pod.mount_failed = TRUE]
      /\ UNCHANGED <<world, op, answer, pull, reading, stored, used>>

(* An image is pulled, or found on the node, or cannot be pulled. *)
Pull(p, n, c) ==
  LET o == objs[p][n]
      image == world.images[o.pod.node][c]
  IN  /\ o.is = "job" /\ c \in o.has /\ o.pod.mounted /\ o.pod.at[c] = "creating"
      /\ objs' = [objs EXCEPT ![p][n].pod.at[c] = IF image = "broken" THEN "backoff" ELSE "pulled"]
      /\ world' = IF image = "absent" THEN [world EXCEPT !.images[o.pod.node][c] = "present"] ELSE world
      /\ UNCHANGED <<op, answer, pull, reading, stored, used>>

(* A container is created, or cannot be, and ends at once. *)
Run(p, n, c) ==
  LET o == objs[p][n]
  IN  /\ o.is = "job" /\ c \in o.has /\ o.pod.at[c] = "pulled"
      /\ \E stage \in {"terminated", "create_error"} : objs' = [objs EXCEPT ![p][n].pod.at[c] = stage]
      /\ UNCHANGED <<world, op, answer, pull, reading, stored, used>>

(* A Job that ended is removed by its TTL, one that does not end by its      *)
(* active deadline and then its TTL; both outlast the loops that read it.    *)
Reap(p, n) ==
  /\ objs[p][n].is = "job" /\ op[p].pc = "idle"
  /\ objs' = [objs EXCEPT ![p][n] = NoObject]
  /\ UNCHANGED <<world, op, answer, pull, reading, stored, used>>
-----------------------------------------------------------------------------
(* SshDockerDriver.ensure_image, called by a launch on every tick until it   *)
(* answers.  `asked` is what the launch was last told.                       *)
NoPull == [pid |-> "none", age |-> 0, asked |-> "no"]
PullLimit == 2

EnsureImage ==
  /\ world.docker /\ pull.asked # "ready"
  /\ pull.asked = "no" => used.ops < OpsBound
  /\ pull' = IF world.host = "present" THEN [pull EXCEPT !.asked = "ready"]
             ELSE IF pull.pid = "running" /\ pull.age > PullLimit THEN [NoPull EXCEPT !.asked = "failed"]
             ELSE IF pull.pid = "running" THEN [pull EXCEPT !.asked = "waiting"]
             ELSE IF pull.pid = "dead" THEN [NoPull EXCEPT !.asked = "failed"]
             ELSE [pid |-> "running", age |-> 0, asked |-> "waiting"]
  /\ UNCHANGED <<world, objs, op, answer, reading, stored, used>>

(* The detached docker pull ends, or minutes go by without it ending. *)
PullEnds ==
  /\ pull.pid = "running"
  /\ pull' = [pull EXCEPT !.pid = "dead"]
  /\ \E works \in BOOLEAN :
       /\ world.host = "broken" => ~works
       /\ world' = IF works THEN [world EXCEPT !.host = "present"] ELSE world
  /\ UNCHANGED <<objs, op, answer, reading, stored, used>>

PullTakesTime ==
  /\ pull.pid = "running" /\ pull.age <= PullLimit
  /\ pull' = [pull EXCEPT !.age = @ + 1]
  /\ UNCHANGED <<world, objs, op, answer, reading, stored, used>>
-----------------------------------------------------------------------------
Init == /\ world \in Worlds
        /\ objs = [p \in Procs |-> [n \in Objects |-> NoObject]]
        /\ op = [p \in Procs |-> Idle]
        /\ answer = [p \in Procs |-> NoAnswer]
        /\ pull = NoPull /\ reading = {}
        /\ stored = [k \in Keys |-> [status |-> "none", age |-> 0]]
        /\ used = [ops |-> 0, faults |-> 0]

Asks(p) == Preflight(p) \/ Presence(p) \/ Smoke(p) \/ Background(p) \/ OnDemand(p)
Works(p) == \/ Apply(p) \/ Poll(p) \/ ReadLogs(p) \/ Delete(p) \/ Return(p)
            \/ SmokeStep(p) \/ SmokePod(p) \/ SmokeDone(p)
            \/ ReadPoll(p) \/ ReadSsh(p) \/ Row(p) \/ Store(p)
ClusterMoves(p) ==
  \E n \in Objects : Place(p, n) \/ Mount(p, n) \/ \E c \in Containers : Pull(p, n, c) \/ Run(p, n, c)

Next == \/ \E p \in Procs : \/ Asks(p) \/ Works(p) \/ TimePasses(p) \/ ClusterMoves(p)
                            \/ \E n \in Jobs : Reap(p, n)
        \/ EnsureImage \/ PullEnds \/ PullTakesTime \/ Age \/ Die

(* The code runs on, its clocks advance, the cluster reaps what it was told  *)
(* to, and a launch asks again on every tick.  Nothing is assumed of pods or *)
(* of pulls.                                                                 *)
Spec == /\ Init /\ [][Next]_vars
        /\ \A p \in Procs : WF_vars(Works(p)) /\ WF_vars(TimePasses(p))
        /\ \A p \in Procs : \A n \in Jobs : WF_vars(Reap(p, n))
        /\ WF_vars(EnsureImage) /\ WF_vars(PullTakesTime)
-----------------------------------------------------------------------------
(* What a report says of a machine is so: an image that passed is on the node *)
(* it is said to be on, one said to be still on its way has its Job left to   *)
(* pull it, weights that passed are there and, on a node's own disk, weights  *)
(* that failed are not; a read that worked ran in an image that was there     *)
(* (ProbeVerdict.checks, model_check, read_probe, _probe_job).                *)
ReportTrue ==
  \A p \in Procs :
    LET a == answer[p] IN
    op[p].pc = "idle" =>
      /\ \A c \in a.report :
           /\ c.key \in Containers /\ c.status = "pass" => world.images[c.node][c.key] = "present"
           /\ c.key \in Containers /\ c.status = "warn" => "pulls" \in a.kept
           /\ c.key = "weights" /\ c.status = "pass" => WeightsOn(c.node)
           /\ c.key = "weights" /\ c.status = "fail" /\ ~world.claim => ~world.weights[c.node]
      /\ \A r \in a.rows : r.status = "ok" /\ world.docker => world.host = "present"

(* An operation that returned leaves nothing on the cluster, except the Job    *)
(* whose images were not all pulled and run yet, and what a call that raised   *)
(* or a death of the process kept it from deleting (the probes' finally).      *)
NothingLeft ==
  \A p \in Procs : op[p].pc = "idle" =>
    \A n \in Objects : objs[p][n].is # "none" => n \in answer[p].kept \cup answer[p].lost

(* Everything ends: an operation, whatever its pods do; the Jobs that were     *)
(* left behind; the hold on a key being read; and the wait of a launch for an  *)
(* image.  As the operations are bounded, again and again nothing is going on  *)
(* (the deadlines, the TTL, in_background's finally, ensure_image).            *)
Quiet == /\ \A p \in Procs : op[p].pc = "idle" /\ \A n \in Jobs : objs[p][n].is = "none"
         /\ reading = {} /\ pull.asked # "waiting"
AllEnds == []<>Quiet
=============================================================================

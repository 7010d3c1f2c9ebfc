---------------------------- MODULE ProbesProofs ----------------------------
(***************************************************************************)
(* What a probe reports is so (ReportTrue), and it leaves nothing behind    *)
(* that it does not say (NothingLeft): for every set of nodes, every world  *)
(* they may be in, and every number of operations, failed calls and deaths. *)
(***************************************************************************)
EXTENDS Probes, TLAPS

(***************************************************************************)
(* Types.                                                                  *)
(***************************************************************************)
Places == Nodes \cup {None}
PodType == [node : Places, unschedulable : BOOLEAN, mounted : BOOLEAN, mount_failed : BOOLEAN,
            at : [Containers -> Stages]]
ObjType == [is : {"none", "job", "pod"}, pod : PodType, has : SUBSET Containers, mounts : BOOLEAN]
VerdictType ==
  [node : Places, pulled : SUBSET Containers, failed : SUBSET Containers,
   finished : SUBSET Containers, mounted : BOOLEAN, mount_failed : BOOLEAN,
   unschedulable : BOOLEAN, containers : SUBSET Containers]
CheckKeys ==
  Containers \cup SmokeSteps \cup {"placement", "weights", "endpoint", "gpus", "probe"}
CheckType == [key : CheckKeys, status : Statuses, node : Places]
RowType == [key : Keys, status : {"ok", "failed"}]
Logs == {"", "model-present", "model-missing"}
Pcs == {"idle", "apply", "poll", "logs", "delete", "answer", "cluster", "credential", "lanes",
        "ssh", "row", "store"}
OpType ==
  [kind : {"none", "preflight", "presence", "smoke", "read"}, pc : Pcs,
   images : SUBSET Containers, jobs : SUBSET Jobs, todo : SUBSET Jobs,
   verdict : [Jobs -> VerdictType], log : [Jobs -> Logs], error : BOOLEAN, late : BOOLEAN,
   report : SUBSET CheckType, lane : {"none", "apply", "poll", "over"},
   steps : SUBSET SmokeSteps, keys : SUBSET Keys, key : Keys \cup {None},
   rows : SUBSET RowType, bg : BOOLEAN]
AnswerType ==
  [report : SUBSET CheckType, rows : SUBSET RowType, kept : SUBSET Jobs, lost : SUBSET Objects]
TypeOK ==
  /\ world \in WorldType
  /\ objs \in [Procs -> [Objects -> ObjType]]
  /\ op \in [Procs -> OpType]
  /\ answer \in [Procs -> AnswerType]

(***************************************************************************)
(* What the objects show and what was read of them is so.                  *)
(***************************************************************************)
\* The weights, as a probe that mounts them finds them on a node's own disk.
There(w, nd) == nd \in Nodes /\ (w.claim \/ w.weights[nd])
Missing(w, nd) == nd \in Nodes /\ (w.claim \/ ~w.weights[nd])
Weighs == {"weights"} \cup Nodes

PodTrue(w, n, o) ==
  /\ \A c \in Containers :
       o.pod.at[c] \notin {"creating", "backoff"} =>
         /\ o.pod.mounted /\ o.pod.node \in Nodes
         /\ w.images[o.pod.node][c] = "present"
  /\ o.pod.mounted => o.pod.node \in Nodes /\ (o.mounts => There(w, o.pod.node))
  /\ o.pod.mount_failed => Missing(w, o.pod.node)
  /\ n \in Nodes /\ o.pod.node # None => o.pod.node = n
  /\ n \in Weighs /\ o.is # "none" => o.mounts
VerdictTrue(w, n, v) ==
  /\ \A c \in v.pulled : v.node \in Nodes /\ w.images[v.node][c] = "present"
  /\ v.mounted /\ n \in Weighs => There(w, v.node)
  /\ v.mount_failed => Missing(w, v.node)
  /\ n \in Nodes /\ v.node # None => v.node = n
LogTrue(w, l) == l = "model-present" => w.on_claim

CheckTrue(w, c) ==
  /\ c.key \in Containers /\ c.status = "pass" =>
       c.node \in Nodes /\ w.images[c.node][c.key] = "present"
  /\ c.key = "weights" /\ c.status = "pass" => IF w.claim THEN w.on_claim ELSE w.weights[c.node]
  /\ c.key = "weights" /\ c.status = "fail" /\ ~w.claim => ~w.weights[c.node]
RowTrue(w, r) == r.status = "ok" /\ w.docker => w.host = "present"
\* What an operation says before its probes have answered is of neither.
Plain(c) == c.key \notin Containers /\ (c.key = "weights" => c.status = "skip")

ReadTrue(w, o) ==
  /\ \A n \in Jobs : VerdictTrue(w, n, o.verdict[n]) /\ LogTrue(w, o.log[n])
  /\ \A c \in o.report : Plain(c)
  /\ \A r \in o.rows : RowTrue(w, r)
  /\ o.pc = "row" /\ ~o.error /\ w.docker => w.host = "present"
AnswerTrue(w, a) ==
  /\ \A c \in a.report :
       CheckTrue(w, c) /\ (c.key \in Containers /\ c.status = "warn" => "pulls" \in a.kept)
  /\ \A r \in a.rows : RowTrue(w, r)

(***************************************************************************)
(* An operation knows what it made, or a call that raised lost it.         *)
(***************************************************************************)
Shape(w, o) ==
  /\ o.pc = "idle" <=> o.kind = "none"
  /\ o.kind = "preflight" => /\ o.pc \in {"apply", "poll", "logs", "delete", "answer"}
                             /\ o.jobs \subseteq {"pulls", "weights"}
                             /\ o.pc = "apply" => o.todo \subseteq o.jobs
                             /\ o.images # {} => "pulls" \in o.jobs
  /\ o.kind = "presence" => /\ o.pc \in {"apply", "poll", "logs", "delete", "answer"}
                            /\ o.jobs \subseteq Nodes /\ o.todo \subseteq Nodes
  /\ o.kind = "smoke" => /\ o.pc \in {"cluster", "credential", "lanes", "answer"}
                         /\ o.jobs = {}
                         /\ o.pc \in {"credential", "lanes"} => "cluster" \notin o.steps
                         /\ "pod" \in o.steps <=> o.lane \in {"apply", "poll"}
  /\ o.kind = "read" => /\ o.pc \in {"ssh", "apply", "poll", "delete", "row", "store"}
                        /\ o.jobs \subseteq {"read"} /\ o.todo \subseteq {"read"}
                        /\ o.pc = "apply" => o.jobs = {}
                        /\ o.key \in Keys
  /\ o.lane = "poll" => o.pc = "lanes"
  /\ w.docker => o.pc \in {"idle", "ssh", "row", "store"}
Holds(o, a) ==
  CASE o.pc = "idle" -> a.kept
    [] o.pc \in {"apply", "poll", "logs"} -> o.jobs
    [] o.pc = "delete" -> o.todo \cup Kept(o)
    [] o.pc = "answer" -> Kept(o)
    [] o.pc = "lanes" -> IF o.lane = "poll" THEN {"smoke"} ELSE {}
    [] OTHER -> {}
Covered(os, o, a) == \A n \in Objects : os[n].is # "none" => n \in a.lost \cup Holds(o, a)

ProcOK(p) ==
  /\ Shape(world, op[p]) /\ ReadTrue(world, op[p]) /\ AnswerTrue(world, answer[p])
  /\ Covered(objs[p], op[p], answer[p])
  /\ \A n \in Objects : PodTrue(world, n, objs[p][n])
PInv == TypeOK /\ \A p \in Procs : ProcOK(p)

(***************************************************************************)
(* The world only gains images.                                            *)
(***************************************************************************)
Wider(w, v) ==
  /\ v.docker = w.docker /\ v.claim = w.claim /\ v.on_claim = w.on_claim /\ v.weights = w.weights
  /\ w.host = "present" => v.host = "present"
  /\ \A nd \in Nodes, c \in Containers : w.images[nd][c] = "present" => v.images[nd][c] = "present"

LEMMA WiderKeeps ==
  ASSUME NEW w, NEW v, Wider(w, v)
  PROVE  /\ \A n, o : PodTrue(w, n, o) => PodTrue(v, n, o)
         /\ \A o : Shape(w, o) => Shape(v, o)
         /\ \A o \in OpType : ReadTrue(w, o) => ReadTrue(v, o)
         /\ \A a \in AnswerType : AnswerTrue(w, a) => AnswerTrue(v, a)
  <1>1. \A n, o : PodTrue(w, n, o) => PodTrue(v, n, o)
    BY DEF Wider, PodTrue, There, Missing
  <1>2. \A o : Shape(w, o) => Shape(v, o)
    BY DEF Wider, Shape
  <1>3. ASSUME NEW n, NEW x \in VerdictType, VerdictTrue(w, n, x) PROVE VerdictTrue(v, n, x)
    BY <1>3 DEF Wider, VerdictTrue, VerdictType, There, Missing
  <1>4. \A r : RowTrue(w, r) => RowTrue(v, r)
    BY DEF Wider, RowTrue
  <1>5. \A c : CheckTrue(w, c) => CheckTrue(v, c)
    BY DEF Wider, CheckTrue
  <1>6. \A l : LogTrue(w, l) => LogTrue(v, l)
    BY DEF Wider, LogTrue
  <1>7. ASSUME NEW o \in OpType, ReadTrue(w, o) PROVE ReadTrue(v, o)
    <2>1. \A n \in Jobs : o.verdict[n] \in VerdictType
      BY DEF OpType
    <2>2. \A n \in Jobs : VerdictTrue(v, n, o.verdict[n]) /\ LogTrue(v, o.log[n])
      BY <1>7, <2>1, <1>3, <1>6 DEF ReadTrue
    <2>3. o.pc = "row" /\ ~o.error /\ v.docker => v.host = "present"
      BY <1>7 DEF ReadTrue, Wider
    <2>. QED  BY <1>7, <2>2, <2>3, <1>4 DEF ReadTrue
  <1>8. \A a \in AnswerType : AnswerTrue(w, a) => AnswerTrue(v, a)
    BY <1>4, <1>5 DEF AnswerTrue
  <1>. QED  BY <1>1, <1>2, <1>7, <1>8

(***************************************************************************)
(* A step of one process, or of the cluster at an object of one process.   *)
(***************************************************************************)
LEMMA Frame ==
  ASSUME PInv, NEW p \in Procs, world' \in WorldType, Wider(world, world'),
         objs' \in [Procs -> [Objects -> ObjType]], op' \in [Procs -> OpType],
         answer' \in [Procs -> AnswerType],
         \A q \in Procs \ {p} : objs'[q] = objs[q] /\ op'[q] = op[q] /\ answer'[q] = answer[q],
         Shape(world', op'[p]), ReadTrue(world', op'[p]), AnswerTrue(world', answer'[p]),
         Covered(objs'[p], op'[p], answer'[p]),
         \A n \in Objects : PodTrue(world', n, objs'[p][n])
  PROVE  PInv'
  <1>1. ASSUME NEW q \in Procs \ {p} PROVE ProcOK(q)'
    <2>1. ProcOK(q) /\ op[q] \in OpType /\ answer[q] \in AnswerType
      BY DEF PInv, TypeOK
    <2>. QED  BY <2>1, WiderKeeps DEF ProcOK
  <1>2. ProcOK(p)'
    BY DEF ProcOK
  <1>. QED  BY <1>1, <1>2 DEF PInv, TypeOK

LEMMA SameWorld == \A w : Wider(w, w)
  BY DEF Wider

\* A step of the process alone.
LEMMA OpStep ==
  ASSUME PInv, NEW p \in Procs, NEW o \in OpType, op' = [op EXCEPT ![p] = o],
         UNCHANGED <<world, objs, answer>>,
         Shape(world, o), ReadTrue(world, o), Covered(objs[p], o, answer[p])
  PROVE  PInv'
  <1>1. op \in [Procs -> OpType] /\ ProcOK(p)
    BY DEF PInv, TypeOK
  <1>2. op' \in [Procs -> OpType] /\ op'[p] = o /\ \A q \in Procs \ {p} : op'[q] = op[q]
    BY <1>1
  <1>. QED  BY <1>1, <1>2, Frame, SameWorld DEF ProcOK, PInv, TypeOK

\* A step of the process and one of its objects, or an answer.
LEMMA FullStep ==
  ASSUME PInv, NEW p \in Procs, NEW o \in OpType, NEW a \in AnswerType, NEW n \in Objects,
         NEW x \in ObjType, UNCHANGED world, op' = [op EXCEPT ![p] = o],
         answer' = [answer EXCEPT ![p] = a], objs' = [objs EXCEPT ![p][n] = x],
         Shape(world, o), ReadTrue(world, o), AnswerTrue(world, a), PodTrue(world, n, x),
         Covered([objs[p] EXCEPT ![n] = x], o, a)
  PROVE  PInv'
  <1>1. /\ op \in [Procs -> OpType] /\ answer \in [Procs -> AnswerType]
        /\ objs \in [Procs -> [Objects -> ObjType]] /\ ProcOK(p) /\ world \in WorldType
    BY DEF PInv, TypeOK
  <1>2. op' \in [Procs -> OpType] /\ op'[p] = o /\ \A q \in Procs \ {p} : op'[q] = op[q]
    BY <1>1
  <1>3. /\ answer' \in [Procs -> AnswerType] /\ answer'[p] = a
        /\ \A q \in Procs \ {p} : answer'[q] = answer[q]
    BY <1>1
  <1>4. /\ objs' \in [Procs -> [Objects -> ObjType]] /\ objs'[p] = [objs[p] EXCEPT ![n] = x]
        /\ \A q \in Procs \ {p} : objs'[q] = objs[q]
    BY <1>1
  <1>5. \A m \in Objects : PodTrue(world, m, objs'[p][m])
    BY <1>1, <1>4 DEF ProcOK
  <1>. QED  BY <1>1, <1>2, <1>3, <1>4, <1>5, Frame, SameWorld

\* A step of the process that changes what it answered.
LEMMA AnswerStep ==
  ASSUME PInv, NEW p \in Procs, NEW o \in OpType, NEW a \in AnswerType,
         op' = [op EXCEPT ![p] = o], answer' = [answer EXCEPT ![p] = a], UNCHANGED <<world, objs>>,
         Shape(world, o), ReadTrue(world, o), AnswerTrue(world, a), Covered(objs[p], o, a)
  PROVE  PInv'
  <1>1. /\ op \in [Procs -> OpType] /\ answer \in [Procs -> AnswerType]
        /\ objs \in [Procs -> [Objects -> ObjType]] /\ ProcOK(p) /\ world \in WorldType
    BY DEF PInv, TypeOK
  <1>2. op' \in [Procs -> OpType] /\ op'[p] = o /\ \A q \in Procs \ {p} : op'[q] = op[q]
    BY <1>1
  <1>3. /\ answer' \in [Procs -> AnswerType] /\ answer'[p] = a
        /\ \A q \in Procs \ {p} : answer'[q] = answer[q]
    BY <1>1
  <1>. QED  BY <1>1, <1>2, <1>3, Frame, SameWorld DEF ProcOK

(***************************************************************************)
(* The objects and the operations as they are made.                        *)
(***************************************************************************)
LEMMA NoPodType == NoPod \in PodType /\ NoPod.node = None /\ ~NoPod.mounted /\ ~NoPod.mount_failed
                   /\ \A c \in Containers : NoPod.at[c] = "creating"
  <1>1. [c \in Containers |-> "creating"] \in [Containers -> Stages]
    BY DEF Stages
  <1>. QED  BY <1>1 DEF NoPod, PodType, Places

\* A pod nothing has happened to yet.
LEMMA FreshTrue ==
  ASSUME NEW w, NEW n, NEW o, o.pod = NoPod, n \in Weighs /\ o.is # "none" => o.mounts
  PROVE  PodTrue(w, n, o)
  BY NoPodType DEF PodTrue

LEMMA NoObjectType == NoObject \in ObjType /\ NoObject.is = "none" /\ \A w, n : PodTrue(w, n, NoObject)
  <1>1. NoObject \in ObjType /\ NoObject.is = "none" /\ NoObject.pod = NoPod
    BY NoPodType DEF NoObject, ObjType
  <1>. QED  BY <1>1, FreshTrue

LEMMA JobsAreObjects == Jobs \subseteq Objects /\ "smoke" \in Objects /\ "smoke" \notin Jobs
  BY NamesAssumption DEF Objects, Jobs

LEMMA ManifestType ==
  ASSUME NEW o \in OpType, NEW n \in Objects, NEW w
  PROVE  Manifest(o, n) \in ObjType /\ PodTrue(w, n, Manifest(o, n)) /\ Manifest(o, n).is # "none"
  <1>1. ASSUME NEW has \in SUBSET Containers, NEW mounts \in BOOLEAN, NEW is \in {"job", "pod"},
               NEW x, x = [NoObject EXCEPT !.is = is, !.has = has, !.mounts = mounts],
               n \in Weighs => mounts
        PROVE  x \in ObjType /\ PodTrue(w, n, x) /\ x.is # "none"
    <2>1. x = [is |-> is, pod |-> NoPod, has |-> has, mounts |-> mounts]
      BY <1>1 DEF NoObject
    <2>2. x \in ObjType
      BY <2>1, NoPodType DEF ObjType
    <2>3. x.pod = NoPod /\ x.is = is /\ x.mounts = mounts /\ is # "none"
      BY <2>1
    <2>4. PodTrue(w, n, x)
      BY <1>1, <2>3, FreshTrue
    <2>. QED  BY <2>2, <2>3, <2>4
  <1>2. CASE n = "pulls"
    <2>1. n \notin Weighs /\ o.images \in SUBSET Containers
      BY <1>2, NamesAssumption DEF Weighs, OpType
    <2>2. Manifest(o, n) = [NoObject EXCEPT !.is = "job", !.has = o.images, !.mounts = FALSE]
      BY <1>2 DEF Manifest, render_preflight_job
    <2>. QED  BY <2>1, <2>2, <1>1
  <1>3. CASE n = "smoke"
    <2>1. n \notin Weighs /\ {"engine"} \in SUBSET Containers
      BY <1>3, NamesAssumption DEF Weighs, Containers
    <2>0. Manifest(o, n) = smoke_pod
      BY <1>3 DEF Manifest
    <2>2. Manifest(o, n) = [NoObject EXCEPT !.is = "pod", !.has = {"engine"}, !.mounts = FALSE]
      BY <2>0 DEF smoke_pod, NoObject
    <2>. QED  BY <2>1, <2>2, <1>1
  <1>4. CASE n = "read"
    <2>1. n \notin Weighs /\ {"engine"} \in SUBSET Containers
      BY <1>4, NamesAssumption DEF Weighs, Containers
    <2>. DEFINE mounts == o.key = "model"
    <2>2. Manifest(o, n) = [NoObject EXCEPT !.is = "job", !.has = {"engine"}, !.mounts = mounts]
      BY <1>4 DEF Manifest, render_image_job
    <2>3. mounts \in BOOLEAN
      OBVIOUS
    <2>. HIDE DEF mounts
    <2>. QED  BY <2>1, <2>2, <2>3, <1>1
  <1>5. CASE n \notin {"pulls", "smoke", "read"}
    <2>1. {"engine"} \in SUBSET Containers
      BY DEF Containers
    <2>2. Manifest(o, n) = [NoObject EXCEPT !.is = "job", !.has = {"engine"}, !.mounts = TRUE]
      BY <1>5 DEF Manifest, render_preflight_job
    <2>. QED  BY <2>1, <2>2, <1>1
  <1>. QED  BY <1>2, <1>3, <1>4, <1>5, Zenon

LEMMA NoVerdictType == NoVerdict \in VerdictType /\ \A w, n : VerdictTrue(w, n, NoVerdict)
  BY DEF NoVerdict, VerdictType, Places, VerdictTrue

LEMMA IdleType ==
  /\ Idle \in OpType /\ Idle.kind = "none" /\ Idle.pc = "idle" /\ Idle.report = {} /\ Idle.rows = {}
  /\ Idle.jobs = {} /\ Idle.todo = {} /\ Idle.images = {} /\ Idle.lane = "none" /\ Idle.steps = {}
  /\ \A w : ReadTrue(w, Idle) /\ Shape(w, Idle)
  <1>1. [n \in Jobs |-> NoVerdict] \in [Jobs -> VerdictType]
    BY NoVerdictType
  <1>2. [n \in Jobs |-> ""] \in [Jobs -> Logs]
    BY DEF Logs
  <1>3. Idle \in OpType
    BY <1>1, <1>2 DEF Idle, OpType, Pcs
  <1>4. ASSUME NEW w PROVE ReadTrue(w, Idle)
    BY NoVerdictType DEF ReadTrue, Idle, LogTrue
  <1>5. ASSUME NEW w PROVE Shape(w, Idle)
    BY DEF Shape, Idle
  <1>. QED  BY <1>3, <1>4, <1>5 DEF Idle

\* An operation that has read nothing has read nothing false.
LEMMA UnreadTrue ==
  ASSUME NEW w, NEW o, o.verdict = Idle.verdict, o.log = Idle.log, \A r \in o.rows : RowTrue(w, r),
         o.pc # "row", \A c \in o.report : Plain(c)
  PROVE  ReadTrue(w, o)
  BY IdleType DEF ReadTrue

LEMMA NoAnswerType == NoAnswer \in AnswerType /\ \A w : AnswerTrue(w, NoAnswer)
  BY DEF NoAnswer, AnswerType, AnswerTrue

\* An operation starts where nothing is left of the one before.
LEMMA StartStep ==
  ASSUME PInv, NEW p \in Procs, NEW raises, NEW o \in OpType, Start(p, raises, o),
         UNCHANGED <<world, objs>>, Shape(world, o), ReadTrue(world, o)
  PROVE  PInv'
  <1>1. Covered(objs[p], o, NoAnswer)
    BY DEF Covered, Start
  <1>2. op' = [op EXCEPT ![p] = o] /\ answer' = [answer EXCEPT ![p] = NoAnswer]
    BY DEF Start
  <1>. QED  BY <1>1, <1>2, NoAnswerType, AnswerStep

(***************************************************************************)
(* What read_probe makes of a pod is so.                                   *)
(***************************************************************************)
LEMMA ProbeTrue ==
  ASSUME NEW w, NEW n, NEW x \in ObjType, PodTrue(w, n, x), NEW events \in BOOLEAN,
         NEW cs \in SUBSET Containers
  PROVE  read_probe(x, events, cs) \in VerdictType /\ VerdictTrue(w, n, read_probe(x, events, cs))
  <1>1. CASE x.is = "none"
    <2>1. read_probe(x, events, cs) = [NoVerdict EXCEPT !.containers = cs]
      BY <1>1 DEF read_probe
    <2>. QED  BY <2>1 DEF NoVerdict, VerdictType, Places, VerdictTrue
  <1>2. CASE x.is # "none"
    <2>. DEFINE pod == x.pod
                seen == {c \in x.has : pod.at[c] \in {"terminated", "create_error"}}
                told == {c \in x.has : events /\ pod.at[c] = "pulled"}
                failed == {c \in x.has : pod.at[c] = "backoff"}
                mounted == seen # {} \/ (events /\ pod.mounted)
                mount_failed == events /\ pod.mount_failed /\ ~mounted
                v == read_probe(x, events, cs)
    <2>1. v = [node |-> pod.node, pulled |-> seen \cup told, failed |-> failed, finished |-> seen,
               mounted |-> mounted, mount_failed |-> mount_failed,
               unschedulable |-> pod.unschedulable, containers |-> cs]
      BY <1>2 DEF read_probe
    <2>2. /\ pod.node \in Places /\ pod.unschedulable \in BOOLEAN /\ pod.mounted \in BOOLEAN
          /\ pod.mount_failed \in BOOLEAN /\ x.has \subseteq Containers
      BY DEF ObjType, PodType
    <2>3. seen \cup told \subseteq Containers /\ failed \subseteq Containers /\ seen \subseteq Containers
      BY <2>2
    <2>4. mounted \in BOOLEAN /\ mount_failed \in BOOLEAN
      BY <2>2
    <2>5. \A c \in seen \cup told : pod.node \in Nodes /\ w.images[pod.node][c] = "present" /\ pod.mounted
      BY <2>3 DEF PodTrue
    <2>6. mounted => pod.mounted
      BY <2>5
    <2>7. mounted /\ n \in Weighs => There(w, pod.node)
      BY <2>6, <1>2 DEF PodTrue
    <2>8. mount_failed => Missing(w, pod.node)
      BY DEF PodTrue
    <2>9. n \in Nodes /\ pod.node # None => pod.node = n
      BY DEF PodTrue
    <2>. HIDE DEF pod, seen, told, failed, mounted, mount_failed, v
    <2>10. v \in VerdictType
      BY <2>1, <2>2, <2>3, <2>4 DEF VerdictType
    <2>11. VerdictTrue(w, n, v)
      BY <2>1, <2>5, <2>7, <2>8, <2>9 DEF VerdictTrue
    <2>. QED  BY <2>10, <2>11 DEF v
  <1>. QED  BY <1>1, <1>2

(***************************************************************************)
(* An operation is asked for.                                              *)
(***************************************************************************)
LEMMA NodeCheckType == node_check \in CheckType /\ Plain(node_check) /\ gpus_check \in CheckType /\ Plain(gpus_check)
  BY DEF node_check, gpus_check, Check, CheckType, CheckKeys, SmokeSteps, Statuses, Places, Plain, Containers

LEMMA PreflightKeeps == ASSUME PInv, NEW p \in Procs, Preflight(p) PROVE PInv'
  <1>1. PICK images \in SUBSET Containers, model \in BOOLEAN, transport \in BOOLEAN :
          Preflight(p)!(images, model, transport)
    BY DEF Preflight
  <1>. DEFINE first == {c \in {Check("endpoint", "fail", None)} : world.by_name}
                         \cup {node_check} \cup {c \in {gpus_check} : world.readable}
              jobs == (IF images # {} THEN {"pulls"} ELSE {})
                        \cup (IF model /\ "engine" \in images THEN {"weights"} ELSE {})
              base == [Idle EXCEPT !.kind = "preflight", !.pc = "answer"]
              o == IF ~transport THEN [base EXCEPT !.report = {Check("cluster", "fail", None)}]
                   ELSE IF node_check.status = "fail" \/ jobs = {} THEN [base EXCEPT !.report = first]
                   ELSE [base EXCEPT !.pc = "apply", !.report = first, !.images = images,
                                     !.jobs = jobs, !.todo = jobs]
  <1>2. ~world.docker /\ Start(p, ~transport, o) /\ UNCHANGED <<world, objs>>
    BY <1>1
  <1>3. /\ {Check("cluster", "fail", None)} \in SUBSET CheckType
        /\ \A c \in {Check("cluster", "fail", None)} : Plain(c)
    BY DEF Check, CheckType, CheckKeys, SmokeSteps, Statuses, Places, Plain, Containers
  <1>4. first \in SUBSET CheckType /\ \A c \in first : Plain(c)
    <2>1. Check("endpoint", "fail", None) \in CheckType /\ Plain(Check("endpoint", "fail", None))
      BY DEF Check, CheckType, CheckKeys, SmokeSteps, Statuses, Places, Plain, Containers
    <2>. QED  BY <2>1, NodeCheckType
  <1>5. /\ jobs \in SUBSET Jobs /\ jobs \subseteq {"pulls", "weights"}
        /\ images # {} => "pulls" \in jobs
    BY DEF Jobs
  <1>6. {} \in SUBSET Containers /\ {} \in SUBSET Jobs /\ "answer" \in Pcs \ {"row"} /\ "apply" \in Pcs \ {"row"}
    BY DEF Pcs
  <1>7. /\ base \in OpType /\ base.kind = "preflight" /\ base.pc = "answer" /\ base.images = {} /\ base.jobs = {}
        /\ base.todo = {} /\ base.lane = "none" /\ base.verdict = Idle.verdict /\ base.log = Idle.log
        /\ base.rows = {}
    BY IdleType, <1>6 DEF OpType
  <1>. HIDE DEF first, jobs, base
  <1>8. CASE ~transport
    <2>1. o = [base EXCEPT !.report = {Check("cluster", "fail", None)}]
      BY <1>8
    <2>. HIDE DEF o
    <2>2. o \in OpType
      BY <2>1, <1>3, <1>4, <1>5, <1>6, <1>7 DEF OpType
    <2>3. /\ o.kind = "preflight" /\ o.pc = "answer" /\ o.images = {} /\ o.jobs = {} /\ o.todo = {}
          /\ o.lane = "none" /\ o.verdict = Idle.verdict /\ o.log = Idle.log /\ o.rows = {}
          /\ o.report = {Check("cluster", "fail", None)}
      BY <2>1, <1>7 DEF OpType
    <2>4. Shape(world, o)
      BY <2>3, <1>2, <1>5 DEF Shape
    <2>5. ReadTrue(world, o)
      BY <2>3, <1>3, <1>4, UnreadTrue
    <2>. QED  BY <2>2, <2>4, <2>5, <1>2, StartStep
  <1>9. CASE transport /\ (node_check.status = "fail" \/ jobs = {})
    <2>1. o = [base EXCEPT !.report = first]
      BY <1>9
    <2>. HIDE DEF o
    <2>2. o \in OpType
      BY <2>1, <1>3, <1>4, <1>5, <1>6, <1>7 DEF OpType
    <2>3. /\ o.kind = "preflight" /\ o.pc = "answer" /\ o.images = {} /\ o.jobs = {} /\ o.todo = {}
          /\ o.lane = "none" /\ o.verdict = Idle.verdict /\ o.log = Idle.log /\ o.rows = {}
          /\ o.report = first
      BY <2>1, <1>7 DEF OpType
    <2>4. Shape(world, o)
      BY <2>3, <1>2, <1>5 DEF Shape
    <2>5. ReadTrue(world, o)
      BY <2>3, <1>3, <1>4, UnreadTrue
    <2>. QED  BY <2>2, <2>4, <2>5, <1>2, StartStep
  <1>10. CASE transport /\ ~(node_check.status = "fail" \/ jobs = {})
    <2>1. o = [base EXCEPT !.pc = "apply", !.report = first, !.images = images,
                           !.jobs = jobs, !.todo = jobs]
      BY <1>10
    <2>. HIDE DEF o
    <2>2. o \in OpType
      BY <2>1, <1>3, <1>4, <1>5, <1>6, <1>7 DEF OpType
    <2>3. /\ o.kind = "preflight" /\ o.pc = "apply" /\ o.images = images /\ o.jobs = jobs /\ o.todo = jobs
          /\ o.lane = "none" /\ o.verdict = Idle.verdict /\ o.log = Idle.log /\ o.rows = {}
          /\ o.report = first
      BY <2>1, <1>7 DEF OpType
    <2>4. Shape(world, o)
      BY <2>3, <1>2, <1>5 DEF Shape
    <2>5. ReadTrue(world, o)
      BY <2>3, <1>3, <1>4, UnreadTrue
    <2>. QED  BY <2>2, <2>4, <2>5, <1>2, StartStep
  <1>. QED  BY <1>8, <1>9, <1>10

LEMMA PresenceKeeps == ASSUME PInv, NEW p \in Procs, Presence(p) PROVE PInv'
  <1>1. PICK first \in Nodes : Presence(p)!(first)
    BY DEF Presence
  <1>. DEFINE names == {n \in Nodes : world.readable /\ TakesPods(n)}
              targets == IF world.claim THEN {first} \cap names ELSE names
              pc == IF names = {} THEN "answer" ELSE "apply"
              report == IF names = {} THEN {Check("weights", "skip", None)} ELSE {}
              o == [Idle EXCEPT !.kind = "presence", !.todo = targets, !.pc = pc, !.report = report]
  <1>2. ~world.docker /\ Start(p, FALSE, o) /\ UNCHANGED <<world, objs>>
    BY <1>1
  <1>3. report \in SUBSET CheckType /\ \A c \in report : Plain(c)
    BY DEF Check, CheckType, CheckKeys, SmokeSteps, Statuses, Places, Plain, Containers
  <1>4. targets \in SUBSET Jobs /\ targets \subseteq Nodes
    BY DEF Jobs
  <1>5. {} \in SUBSET Containers /\ {} \in SUBSET Jobs /\ pc \in Pcs /\ pc \in {"answer", "apply"}
    BY DEF Pcs
  <1>. HIDE DEF targets, report, pc
  <1>6. o \in OpType
    BY <1>3, <1>4, <1>5, IdleType DEF OpType
  <1>7. /\ o.kind = "presence" /\ o.pc = pc /\ o.images = {} /\ o.jobs = {} /\ o.todo = targets
        /\ o.lane = "none" /\ o.verdict = Idle.verdict /\ o.log = Idle.log /\ o.rows = {}
        /\ o.report = report
    BY IdleType DEF OpType
  <1>. HIDE DEF o
  <1>8. Shape(world, o)
    BY <1>2, <1>4, <1>5, <1>7 DEF Shape
  <1>9. ReadTrue(world, o)
    BY <1>3, <1>5, <1>7, UnreadTrue
  <1>. QED  BY <1>2, <1>6, <1>8, <1>9, StartStep

LEMMA SmokeKeeps == ASSUME PInv, NEW p \in Procs, Smoke(p) PROVE PInv'
  <1>. DEFINE o == [Idle EXCEPT !.kind = "smoke", !.pc = "cluster", !.steps = SmokeSteps, !.lane = "apply"]
  <1>1. ~world.docker /\ Start(p, FALSE, o) /\ UNCHANGED <<world, objs>>
    BY DEF Smoke
  <1>2. o \in OpType
    BY IdleType DEF OpType, Pcs
  <1>3. /\ o.kind = "smoke" /\ o.pc = "cluster" /\ o.steps = SmokeSteps /\ o.lane = "apply"
        /\ o.jobs = {} /\ o.verdict = Idle.verdict /\ o.log = Idle.log /\ o.rows = {} /\ o.report = {}
    BY IdleType DEF OpType
  <1>. HIDE DEF o
  <1>4. Shape(world, o)
    BY <1>1, <1>3 DEF Shape, SmokeSteps
  <1>5. ReadTrue(world, o)
    BY <1>3, UnreadTrue
  <1>. QED  BY <1>1, <1>2, <1>4, <1>5, StartStep

\* A read of some keys, the image first.
LEMMA ReadOfType ==
  ASSUME NEW keys \in SUBSET Keys
  PROVE  /\ ReadOf(keys) \in OpType /\ ReadOf(keys).kind = "read"
         /\ ReadOf(keys).pc \in {"ssh", "apply"} /\ (ReadOf(keys).pc = "apply" => ~world.docker)
         /\ ReadOf(keys).key \in Keys /\ ReadOf(keys).todo = {"read"} /\ ReadOf(keys).jobs = {}
         /\ ReadOf(keys).lane = "none" /\ ReadOf(keys).verdict = Idle.verdict
         /\ ReadOf(keys).log = Idle.log /\ ReadOf(keys).report = {} /\ ReadOf(keys).rows = {}
  <1>. DEFINE pc == IF world.docker THEN "ssh" ELSE "apply"
              key == IF "image" \in keys THEN "image" ELSE "model"
              o == ReadOf(keys)
  <1>1. pc \in Pcs /\ pc \in {"ssh", "apply"} /\ key \in Keys /\ (pc = "apply" => ~world.docker)
    BY DEF Pcs, Keys
  <1>2. o = [Idle EXCEPT !.kind = "read", !.keys = keys, !.pc = pc, !.todo = {"read"}, !.key = key]
    BY DEF ReadOf
  <1>3. {"read"} \in SUBSET Jobs
    BY DEF Jobs
  <1>. HIDE DEF pc, key, o
  <1>4. o \in OpType
    BY <1>1, <1>2, <1>3, IdleType DEF OpType
  <1>5. /\ o.kind = "read" /\ o.pc = pc /\ o.key = key /\ o.jobs = {} /\ o.todo = {"read"}
        /\ o.lane = "none" /\ o.verdict = Idle.verdict /\ o.log = Idle.log /\ o.report = {} /\ o.rows = {}
    BY <1>2, IdleType DEF OpType
  <1>. QED  BY <1>1, <1>4, <1>5 DEF o

LEMMA ReadStarts ==
  ASSUME NEW keys \in SUBSET Keys, NEW o \in OpType, o.kind = "read", o.pc = ReadOf(keys).pc,
         o.key = ReadOf(keys).key, o.todo = {"read"}, o.jobs = {}, o.lane = "none",
         o.verdict = Idle.verdict, o.log = Idle.log, o.report = {}, \A r \in o.rows : RowTrue(world, r)
  PROVE  Shape(world, o) /\ ReadTrue(world, o)
  <1>1. Shape(world, o)
    BY ReadOfType DEF Shape
  <1>2. ReadTrue(world, o)
    BY ReadOfType, UnreadTrue
  <1>. QED  BY <1>1, <1>2

LEMMA ReadAskedKeeps == ASSUME PInv, NEW p \in Procs, Background(p) \/ OnDemand(p) PROVE PInv'
  <1>1. CASE Background(p)
    <2>1. PICK k \in Keys : Background(p)!(k)
      BY <1>1 DEF Background
    <2>. DEFINE r == ReadOf({k})
                o == [r EXCEPT !.bg = TRUE]
    <2>2. Start(p, FALSE, o) /\ UNCHANGED <<world, objs>>
      BY <2>1
    <2>3. /\ r \in OpType /\ r.kind = "read" /\ r.key = ReadOf({k}).key /\ r.pc = ReadOf({k}).pc
          /\ r.todo = {"read"} /\ r.jobs = {} /\ r.lane = "none" /\ r.verdict = Idle.verdict
          /\ r.log = Idle.log /\ r.report = {} /\ r.rows = {}
      BY ReadOfType
    <2>. HIDE DEF r
    <2>4. /\ o \in OpType /\ o.kind = "read" /\ o.key = ReadOf({k}).key /\ o.pc = ReadOf({k}).pc
          /\ o.todo = {"read"} /\ o.jobs = {} /\ o.lane = "none" /\ o.verdict = Idle.verdict
          /\ o.log = Idle.log /\ o.report = {} /\ o.rows = {}
      BY <2>3 DEF OpType
    <2>. HIDE DEF o
    <2>5. Shape(world, o) /\ ReadTrue(world, o)
      BY <2>4, ReadStarts
    <2>. QED  BY <2>2, <2>4, <2>5, StartStep
  <1>2. CASE OnDemand(p)
    <2>. DEFINE o == ReadOf(Keys)
    <2>1. Start(p, FALSE, o) /\ UNCHANGED <<world, objs>>
      BY <1>2 DEF OnDemand
    <2>2. o \in OpType /\ Shape(world, o) /\ ReadTrue(world, o)
      BY ReadOfType, ReadStarts
    <2>. QED  BY <2>1, <2>2, StartStep
  <1>. QED  BY <1>1, <1>2

(***************************************************************************)
(* The steps of an operation on a cluster.                                 *)
(***************************************************************************)
LEMMA HoldsAt ==
  ASSUME NEW o, NEW a
  PROVE  /\ o.pc = "idle" => Holds(o, a) = a.kept
         /\ o.pc \in {"apply", "poll", "logs"} => Holds(o, a) = o.jobs
         /\ o.pc = "delete" => Holds(o, a) = o.todo \cup Kept(o)
         /\ o.pc = "answer" => Holds(o, a) = Kept(o)
         /\ o.pc = "lanes" => Holds(o, a) = IF o.lane = "poll" THEN {"smoke"} ELSE {}
         /\ o.pc \in {"cluster", "credential", "ssh", "row", "store"} => Holds(o, a) = {}
  BY DEF Holds

\* What an operation read stays so while it reads nothing.
LEMMA ReadSame ==
  ASSUME NEW w, NEW o, ReadTrue(w, o), NEW q, q.verdict = o.verdict, q.log = o.log, q.rows = o.rows,
         \A c \in q.report : Plain(c), q.pc # "row" \/ q.error \/ ~w.docker
  PROVE  ReadTrue(w, q)
  BY DEF ReadTrue

LEMMA LostType ==
  ASSUME NEW a \in AnswerType, NEW n \in Objects, NEW b, b = [a EXCEPT !.lost = @ \cup {n}]
  PROVE  /\ b \in AnswerType /\ b.lost = a.lost \cup {n} /\ b.kept = a.kept
         /\ \A w : AnswerTrue(w, a) => AnswerTrue(w, b)
  <1>1. b \in AnswerType /\ b.lost = a.lost \cup {n}
    BY DEF AnswerType
  <1>2. b.kept = a.kept /\ b.report = a.report /\ b.rows = a.rows
    BY DEF AnswerType
  <1>. QED  BY <1>1, <1>2 DEF AnswerTrue

LEMMA AppliedOK ==
  ASSUME NEW o \in OpType, NEW n \in o.todo, o.pc = "apply", NEW w, Shape(w, o), ReadTrue(w, o)
  PROVE  /\ Applied(o, n) \in OpType /\ Shape(w, Applied(o, n)) /\ ReadTrue(w, Applied(o, n))
         /\ Applied(o, n).pc \in {"apply", "poll"} /\ Applied(o, n).jobs = o.jobs \cup {n}
  <1>. DEFINE jobs == o.jobs \cup {n}
              todo == o.todo \ {n}
              known == [o EXCEPT !.jobs = jobs, !.todo = todo]
              pc == IF todo # {} THEN "apply" ELSE "poll"
              left == IF todo # {} THEN todo ELSE jobs
              q == Applied(o, n)
  <1>1. jobs \in SUBSET Jobs /\ todo \in SUBSET Jobs /\ left \in SUBSET Jobs
    BY DEF OpType
  <1>2. pc \in Pcs /\ pc \in {"apply", "poll"}
    BY DEF Pcs
  <1>3. known.todo = todo /\ known.jobs = jobs
    BY DEF OpType
  <1>4. q = [o EXCEPT !.jobs = jobs, !.todo = left, !.pc = pc]
    <2>1. CASE todo # {}
      <3>1. q = known
        BY <2>1, <1>3 DEF Applied
      <3>2. known = [o EXCEPT !.jobs = jobs, !.todo = todo, !.pc = o.pc]
        BY DEF OpType
      <3>. QED  BY <2>1, <3>1, <3>2
    <2>2. CASE todo = {}
      <3>1. q = [known EXCEPT !.pc = "poll", !.todo = known.jobs]
        BY <2>2, <1>3 DEF Applied
      <3>. QED  BY <2>2, <1>3, <3>1 DEF OpType
    <2>. QED  BY <2>1, <2>2
  <1>. HIDE DEF jobs, left, pc, known, q
  <1>5. q \in OpType
    BY <1>1, <1>2, <1>4 DEF OpType
  <1>6. /\ q.kind = o.kind /\ q.pc = pc /\ q.jobs = jobs /\ q.todo = left /\ q.images = o.images
        /\ q.verdict = o.verdict /\ q.log = o.log /\ q.rows = o.rows /\ q.report = o.report
        /\ q.lane = o.lane /\ q.key = o.key
    BY <1>4 DEF OpType
  <1>7. ReadTrue(w, q)
    BY <1>2, <1>6, ReadSame DEF ReadTrue
  <1>8. Shape(w, q)
    <2>1. pc = "apply" => todo # {}
      BY DEF pc
    <2>2. o.kind = "preflight" => jobs = o.jobs /\ left \subseteq jobs
      BY DEF Shape, jobs, left
    <2>3. o.kind = "presence" => jobs \subseteq Nodes /\ left \subseteq Nodes
      BY DEF Shape, jobs, left
    <2>4. o.kind = "read" => jobs \subseteq {"read"} /\ left \subseteq {"read"} /\ todo = {}
      BY DEF Shape, jobs, left
    <2>. HIDE DEF todo
    <2>. QED  BY <1>2, <1>6, <2>1, <2>2, <2>3, <2>4 DEF Shape
  <1>. QED  BY <1>2, <1>5, <1>6, <1>7, <1>8 DEF q, jobs

LEMMA ApplyRaisedOK ==
  ASSUME NEW o \in OpType, o.pc = "apply", NEW w, Shape(w, o), ReadTrue(w, o), NEW a
  PROVE  /\ ApplyRaised(o) \in OpType /\ Shape(w, ApplyRaised(o)) /\ ReadTrue(w, ApplyRaised(o))
         /\ o.jobs \subseteq Holds(ApplyRaised(o), a)
  <1>. DEFINE q == ApplyRaised(o)
  <1>0. {} \in SUBSET Containers /\ {} \in SUBSET Jobs /\ "delete" \in Pcs /\ "row" \in Pcs
    BY DEF Pcs
  <1>1. CASE o.kind = "preflight"
    <2>. DEFINE report == o.report \cup {Check("probe", "skip", None)}
    <2>1. q = [o EXCEPT !.pc = "delete", !.todo = o.jobs, !.images = {}, !.jobs = {}, !.report = report]
      BY <1>1 DEF ApplyRaised
    <2>2. Check("probe", "skip", None) \in CheckType /\ Plain(Check("probe", "skip", None))
      BY DEF Check, CheckType, CheckKeys, SmokeSteps, Statuses, Places, Plain, Containers
    <2>3. report \in SUBSET CheckType /\ \A c \in report : Plain(c)
      BY <2>2 DEF OpType, ReadTrue
    <2>. HIDE DEF q, report
    <2>4. q \in OpType
      BY <2>1, <2>3, <1>0 DEF OpType
    <2>5. /\ q.kind = o.kind /\ q.pc = "delete" /\ q.jobs = {} /\ q.todo = o.jobs /\ q.images = {}
          /\ q.verdict = o.verdict /\ q.log = o.log /\ q.rows = o.rows /\ q.report = report
          /\ q.lane = o.lane
      BY <2>1 DEF OpType
    <2>6. Shape(w, q)
      BY <1>1, <2>5 DEF Shape
    <2>. QED  BY <2>3, <2>4, <2>5, <2>6, ReadSame, HoldsAt DEF q
  <1>2. CASE o.kind = "presence"
    <2>1. q = [o EXCEPT !.pc = "delete", !.todo = o.jobs, !.error = TRUE]
      BY <1>2 DEF ApplyRaised
    <2>. HIDE DEF q
    <2>4. q \in OpType
      BY <2>1, <1>0 DEF OpType
    <2>5. /\ q.kind = o.kind /\ q.pc = "delete" /\ q.jobs = o.jobs /\ q.todo = o.jobs
          /\ q.images = o.images
          /\ q.verdict = o.verdict /\ q.log = o.log /\ q.rows = o.rows /\ q.report = o.report
          /\ q.lane = o.lane
      BY <2>1 DEF OpType
    <2>6. Shape(w, q)
      BY <1>2, <2>5 DEF Shape
    <2>7. ReadTrue(w, q)
      BY <2>5, ReadSame DEF ReadTrue
    <2>. QED  BY <2>4, <2>5, <2>6, <2>7, HoldsAt DEF q
  <1>3. CASE o.kind \notin {"preflight", "presence"}
    <2>1. q = [o EXCEPT !.pc = "row", !.todo = {}, !.error = TRUE]
      BY <1>3 DEF ApplyRaised
    <2>2. o.kind = "read" /\ o.jobs = {}
      BY <1>3 DEF Shape, OpType
    <2>. HIDE DEF q
    <2>4. q \in OpType
      BY <2>1, <1>0 DEF OpType
    <2>5. /\ q.kind = o.kind /\ q.pc = "row" /\ q.jobs = o.jobs /\ q.todo = {}
          /\ q.verdict = o.verdict /\ q.log = o.log /\ q.rows = o.rows /\ q.report = o.report
          /\ q.lane = o.lane /\ q.error /\ q.key = o.key
      BY <2>1 DEF OpType
    <2>6. Shape(w, q)
      BY <2>2, <2>5 DEF Shape
    <2>7. ReadTrue(w, q)
      BY <2>5, ReadSame DEF ReadTrue
    <2>. QED  BY <2>2, <2>4, <2>6, <2>7 DEF q
  <1>. QED  BY <1>1, <1>2, <1>3

LEMMA InOrderIn == ASSUME NEW todo PROVE InOrder(todo) \subseteq todo
  BY DEF InOrder

LEMMA ApplyKeeps == ASSUME PInv, NEW p \in Procs, Apply(p) PROVE PInv'
  <1>1. PICK n \in InOrder(op[p].todo), made \in BOOLEAN, answered \in BOOLEAN :
          /\ op[p].pc = "apply" /\ (answered => made) /\ UNCHANGED world
          /\ objs' = IF made THEN [objs EXCEPT ![p][n] = Manifest(op[p], n)] ELSE objs
          /\ op' = [op EXCEPT ![p] = IF answered THEN Applied(op[p], n) ELSE ApplyRaised(op[p])]
          /\ answer' = IF made /\ ~answered THEN [answer EXCEPT ![p].lost = @ \cup {n}] ELSE answer
    BY DEF Apply, Go
  <1>. DEFINE o == op[p]
              os == objs[p]
              ans == answer[p]
              q == IF answered THEN Applied(o, n) ELSE ApplyRaised(o)
              x == IF made THEN Manifest(o, n) ELSE os[n]
              a == IF made /\ ~answered THEN [ans EXCEPT !.lost = @ \cup {n}] ELSE ans
  <1>2. /\ o \in OpType /\ ans \in AnswerType /\ os \in [Objects -> ObjType] /\ Shape(world, o)
        /\ ReadTrue(world, o) /\ AnswerTrue(world, ans) /\ Covered(os, o, ans)
        /\ \A m \in Objects : PodTrue(world, m, os[m])
    BY DEF PInv, TypeOK, ProcOK
  <1>3. n \in o.todo /\ n \in Objects
    BY <1>2, InOrderIn, JobsAreObjects DEF OpType
  <1>4. o.pc = "apply" /\ (answered => made) /\ UNCHANGED world /\ op' = [op EXCEPT ![p] = q]
    BY <1>1 DEF Go
  <1>5. objs' = [objs EXCEPT ![p][n] = x]
    BY <1>1, <1>3 DEF PInv, TypeOK
  <1>6. answer' = [answer EXCEPT ![p] = a]
    BY <1>1 DEF PInv, TypeOK
  <1>7. x \in ObjType /\ PodTrue(world, n, x) /\ (x.is # "none" => made \/ os[n].is # "none")
    BY <1>2, <1>3, ManifestType
  <1>8. /\ a \in AnswerType /\ AnswerTrue(world, a) /\ ans.lost \subseteq a.lost
        /\ made /\ ~answered => n \in a.lost
    BY <1>2, <1>3, LostType
  <1>9. q \in OpType /\ Shape(world, q) /\ ReadTrue(world, q)
    BY <1>2, <1>3, <1>4, AppliedOK, ApplyRaisedOK
  <1>10. o.jobs \subseteq Holds(q, a) /\ (answered => n \in Holds(q, a))
    <2>1. CASE answered
      BY <2>1, <1>2, <1>3, <1>4, AppliedOK, HoldsAt
    <2>2. CASE ~answered
      BY <2>2, <1>2, <1>4, ApplyRaisedOK
    <2>. QED  BY <2>1, <2>2
  <1>11. Holds(o, ans) = o.jobs
    BY <1>4, HoldsAt
  <1>. HIDE DEF o, os, ans, q, x, a
  <1>12. Covered([os EXCEPT ![n] = x], q, a)
    BY <1>2, <1>3, <1>7, <1>8, <1>10, <1>11, <1>4 DEF Covered
  <1>. QED  BY <1>3, <1>4, <1>5, <1>6, <1>7, <1>8, <1>9, <1>12, FullStep DEF os

LEMMA KeptSame ==
  ASSUME NEW o, NEW q, q.jobs = o.jobs, q.verdict = o.verdict, q.error = o.error
  PROVE  Kept(q) = Kept(o) /\ Kept(o) \subseteq o.jobs
  BY DEF Kept

\* The state of a process that PInv gives.
LEMMA ProcFacts ==
  ASSUME PInv, NEW p \in Procs
  PROVE  /\ world \in WorldType
         /\ op[p] \in OpType /\ answer[p] \in AnswerType /\ objs[p] \in [Objects -> ObjType]
         /\ Shape(world, op[p]) /\ ReadTrue(world, op[p]) /\ AnswerTrue(world, answer[p])
         /\ Covered(objs[p], op[p], answer[p])
         /\ \A m \in Objects : PodTrue(world, m, objs[p][m])
  BY DEF PInv, TypeOK, ProcOK

LEMMA AfterRoundOK ==
  ASSUME NEW o \in OpType, o.pc = "poll", o.kind \in {"preflight", "presence"}, NEW w, Shape(w, o),
         ReadTrue(w, o)
  PROVE  /\ AfterRound(o) \in OpType /\ Shape(w, AfterRound(o)) /\ ReadTrue(w, AfterRound(o))
         /\ AfterRound(o).pc \in {"poll", "logs"} /\ AfterRound(o).jobs = o.jobs
  <1>. DEFINE q == AfterRound(o)
  <1>1. PICK pc \in {"poll", "logs"}, todo \in {{}, o.jobs} : q = [o EXCEPT !.pc = pc, !.todo = todo]
    <2>1. q = [o EXCEPT !.pc = "logs", !.todo = {}] \/ q = [o EXCEPT !.todo = o.jobs]
      BY DEF AfterRound
    <2>2. [o EXCEPT !.todo = o.jobs] = [o EXCEPT !.pc = "poll", !.todo = o.jobs]
      BY DEF OpType
    <2>. QED  BY <2>1, <2>2
  <1>. HIDE DEF q
  <1>2. pc \in Pcs /\ todo \in SUBSET Jobs
    BY DEF Pcs, OpType
  <1>3. q \in OpType
    BY <1>1, <1>2 DEF OpType
  <1>4. /\ q.kind = o.kind /\ q.pc = pc /\ q.jobs = o.jobs /\ q.todo = todo /\ q.images = o.images
        /\ q.verdict = o.verdict /\ q.log = o.log /\ q.rows = o.rows /\ q.report = o.report
        /\ q.lane = o.lane
    BY <1>1 DEF OpType
  <1>5. ReadTrue(w, q)
    BY <1>4, ReadSame DEF ReadTrue
  <1>6. Shape(w, q)
    BY <1>4 DEF Shape
  <1>. QED  BY <1>3, <1>4, <1>5, <1>6 DEF q

\* The Jobs a preflight does not keep are left to be deleted.
LEMMA ToDeleteOK ==
  ASSUME NEW o \in OpType, o.kind \in {"preflight", "presence"}, NEW w, Shape(w, o), ~w.docker,
         o.pc \in {"poll", "logs"},
         NEW q \in OpType, q.kind = o.kind, q.pc = "delete", q.jobs = o.jobs, q.images = o.images,
         q.lane = o.lane, q.todo = o.jobs \ Kept(q), NEW a
  PROVE  Shape(w, q) /\ o.jobs \subseteq Holds(q, a)
  <1>1. Shape(w, q)
    BY DEF Shape
  <1>. QED  BY <1>1, HoldsAt

LEMMA PollKeeps == ASSUME PInv, NEW p \in Procs, Poll(p) PROVE PInv'
  <1>. DEFINE o == op[p]
              cs(n) == IF n = "pulls" THEN o.images ELSE {"engine"}
              v(n, events) == read_probe(objs[p][n], events, cs(n))
              told(n, events) == [o EXCEPT !.verdict[n] = v(n, events), !.todo = @ \ {n}]
              failed == [o EXCEPT !.error = TRUE]
  <1>1. PICK n \in InOrder(op[p].todo), raises \in BOOLEAN, events \in BOOLEAN :
          /\ o.pc = "poll" /\ o.kind \in {"preflight", "presence"}
          /\ Go(p, IF raises THEN [failed EXCEPT !.pc = "delete", !.todo = o.jobs \ Kept(failed)]
                   ELSE IF told(n, events).todo # {} THEN told(n, events) ELSE AfterRound(told(n, events)))
          /\ UNCHANGED <<world, objs, answer, reading, stored, pull>>
    BY ZenonT(60) DEF Poll
  <1>2. ~world.docker /\ Holds(o, answer[p]) = o.jobs
    BY <1>1, ProcFacts, HoldsAt DEF Shape
  <1>3. CASE raises
    <2>. DEFINE todo == o.jobs \ Kept(failed)
                q == [failed EXCEPT !.pc = "delete", !.todo = todo]
    <2>1. op' = [op EXCEPT ![p] = q]
      BY <1>1, <1>3 DEF Go
    <2>2. o \in OpType
      BY ProcFacts
    <2>3. failed \in OpType /\ failed.error = TRUE /\ failed.kind = o.kind /\ failed.jobs = o.jobs
          /\ failed.images = o.images /\ failed.verdict = o.verdict /\ failed.log = o.log
          /\ failed.rows = o.rows /\ failed.report = o.report /\ failed.lane = o.lane
      BY <2>2 DEF OpType
    <2>4. todo \in SUBSET Jobs /\ "delete" \in Pcs
      BY <2>2 DEF OpType, Pcs
    <2>. HIDE DEF o, failed, todo
    <2>5. q \in OpType
      BY <2>3, <2>4 DEF OpType
    <2>6. /\ q.kind = o.kind /\ q.pc = "delete" /\ q.jobs = o.jobs /\ q.todo = todo
          /\ q.images = o.images /\ q.verdict = o.verdict /\ q.log = o.log /\ q.rows = o.rows
          /\ q.report = o.report /\ q.lane = o.lane /\ q.error = failed.error
      BY <2>3 DEF OpType
    <2>. HIDE DEF q
    <2>7. q.todo = o.jobs \ Kept(q)
      BY <2>3, <2>6, KeptSame DEF todo
    <2>8. Shape(world, q) /\ o.jobs \subseteq Holds(q, answer[p])
      BY <1>1, <1>2, <2>2, <2>5, <2>6, <2>7, ToDeleteOK, ProcFacts DEF o
    <2>9. ReadTrue(world, q)
      BY <2>6, ReadSame, ProcFacts DEF o, ReadTrue
    <2>10. Covered(objs[p], q, answer[p])
      BY <1>2, <2>8, ProcFacts DEF Covered, o
    <2>. QED  BY <2>1, <2>5, <2>8, <2>9, <2>10, <1>1, OpStep
  <1>4. CASE ~raises
    <2>. DEFINE t == told(n, events)
                q == IF t.todo # {} THEN t ELSE AfterRound(t)
                verdict == v(n, events)
                verdicts == [o.verdict EXCEPT ![n] = verdict]
    <2>1. op' = [op EXCEPT ![p] = q]
      BY <1>1, <1>4 DEF Go
    <2>2. o \in OpType /\ n \in o.todo /\ n \in Jobs /\ n \in Objects
      BY ProcFacts, InOrderIn, JobsAreObjects DEF OpType
    <2>3. verdict \in VerdictType /\ VerdictTrue(world, n, verdict)
      <3>1. cs(n) \in SUBSET Containers
        BY <2>2 DEF OpType, Containers
      <3>. HIDE DEF cs
      <3>. QED  BY <3>1, <2>2, ProbeTrue, ProcFacts
    <2>4. t = [o EXCEPT !.verdict = verdicts, !.todo = o.todo \ {n}]
      BY <2>2 DEF OpType
    <2>. HIDE DEF verdict, t, o
    <2>5. verdicts \in [Jobs -> VerdictType] /\ \A m \in Jobs : VerdictTrue(world, m, verdicts[m])
      BY <2>2, <2>3, ProcFacts DEF OpType, ReadTrue, o
    <2>. HIDE DEF verdicts
    <2>6. t \in OpType
      BY <2>2, <2>4, <2>5 DEF OpType
    <2>7. /\ t.kind = o.kind /\ t.pc = o.pc /\ t.jobs = o.jobs /\ t.todo = o.todo \ {n}
          /\ t.images = o.images /\ t.verdict = verdicts /\ t.log = o.log /\ t.rows = o.rows
          /\ t.report = o.report /\ t.lane = o.lane
      BY <2>2, <2>4 DEF OpType
    <2>8. ReadTrue(world, t)
      BY <1>1, <2>5, <2>7, ProcFacts DEF ReadTrue, o
    <2>9. Shape(world, t)
      BY <1>1, <2>7, ProcFacts DEF Shape, o
    <2>10. /\ q \in OpType /\ Shape(world, q) /\ ReadTrue(world, q) /\ q.pc \in {"poll", "logs"}
           /\ q.jobs = o.jobs
      <3>1. CASE t.todo # {}
        BY <3>1, <1>1, <2>6, <2>7, <2>8, <2>9
      <3>2. CASE t.todo = {}
        BY <3>2, <1>1, <2>6, <2>7, <2>8, <2>9, AfterRoundOK
      <3>. QED  BY <3>1, <3>2
    <2>11. Covered(objs[p], q, answer[p])
      BY <1>2, <2>10, HoldsAt, ProcFacts DEF Covered, o
    <2>. HIDE DEF q
    <2>. QED  BY <2>1, <2>10, <2>11, <1>1, OpStep
  <1>. QED  BY <1>3, <1>4

LEMMA TimeKeeps == ASSUME PInv, NEW p \in Procs, TimePasses(p) PROVE PInv'
  <1>. DEFINE o == op[p]
              q == [o EXCEPT !.late = TRUE]
  <1>1. op' = [op EXCEPT ![p] = q] /\ UNCHANGED <<world, objs, answer>>
    BY DEF TimePasses, Go
  <1>2. o \in OpType
    BY ProcFacts
  <1>. HIDE DEF o
  <1>3. q \in OpType
    BY <1>2 DEF OpType
  <1>4. /\ q.kind = o.kind /\ q.pc = o.pc /\ q.jobs = o.jobs /\ q.todo = o.todo
        /\ q.images = o.images /\ q.verdict = o.verdict /\ q.log = o.log /\ q.rows = o.rows
        /\ q.report = o.report /\ q.lane = o.lane /\ q.error = o.error /\ q.steps = o.steps
        /\ q.key = o.key
    BY <1>2 DEF OpType
  <1>. HIDE DEF q
  <1>5. Shape(world, q)
    BY <1>4, ProcFacts DEF Shape, o
  <1>6. ReadTrue(world, q)
    BY <1>4, ProcFacts DEF ReadTrue, o
  <1>7. Holds(q, answer[p]) = Holds(o, answer[p])
    BY <1>4, KeptSame DEF Holds
  <1>8. Covered(objs[p], q, answer[p])
    BY <1>7, ProcFacts DEF Covered, o
  <1>. QED  BY <1>1, <1>3, <1>5, <1>6, <1>8, OpStep

LEMMA ReadLogsKeeps == ASSUME PInv, NEW p \in Procs, ReadLogs(p) PROVE PInv'
  <1>. DEFINE o == op[p]
              wanted == {n \in o.jobs : reads_log(n) /\ (o.kind = "preflight" => "engine" \in o.verdict[n].finished)}
              log(raises) == [n \in Jobs |-> IF n \in wanted /\ ~raises THEN LogOf(p, n) ELSE ""]
  <1>1. PICK raises \in BOOLEAN :
          /\ o.pc = "logs" /\ UNCHANGED <<world, objs, answer>>
          /\ op' = [op EXCEPT ![p] = [o EXCEPT !.pc = "delete", !.todo = o.jobs \ Kept(o), !.log = log(raises)]]
    BY DEF ReadLogs, Go
  <1>. DEFINE l == log(raises)
              todo == o.jobs \ Kept(o)
              q == [o EXCEPT !.pc = "delete", !.todo = todo, !.log = l]
  <1>2. op' = [op EXCEPT ![p] = q]
    BY <1>1
  <1>3. l \in [Jobs -> Logs] /\ \A n \in Jobs : LogTrue(world, l[n])
    <2>1. \A n : LogOf(p, n) \in Logs /\ LogTrue(world, LogOf(p, n))
      BY DEF LogOf, Logs, LogTrue
    <2>2. "" \in Logs /\ LogTrue(world, "")
      BY DEF Logs, LogTrue
    <2>. QED  BY <2>1, <2>2
  <1>4. o \in OpType /\ todo \in SUBSET Jobs /\ "delete" \in Pcs
    BY ProcFacts DEF OpType, Pcs
  <1>5. ~world.docker /\ Holds(o, answer[p]) = o.jobs /\ o.kind \in {"preflight", "presence"}
    BY <1>1, ProcFacts, HoldsAt DEF Shape, OpType
  <1>. HIDE DEF o, l, todo
  <1>6. q \in OpType
    BY <1>3, <1>4 DEF OpType
  <1>7. /\ q.kind = o.kind /\ q.pc = "delete" /\ q.jobs = o.jobs /\ q.todo = todo
        /\ q.images = o.images /\ q.verdict = o.verdict /\ q.log = l /\ q.rows = o.rows
        /\ q.report = o.report /\ q.lane = o.lane /\ q.error = o.error
    BY <1>4 DEF OpType
  <1>. HIDE DEF q
  <1>8. q.todo = o.jobs \ Kept(q)
    BY <1>7, KeptSame DEF todo
  <1>9. Shape(world, q) /\ o.jobs \subseteq Holds(q, answer[p])
    BY <1>1, <1>4, <1>5, <1>6, <1>7, <1>8, ToDeleteOK, ProcFacts DEF o
  <1>10. ReadTrue(world, q)
    BY <1>3, <1>7, ProcFacts DEF ReadTrue, o
  <1>11. Covered(objs[p], q, answer[p])
    BY <1>5, <1>9, ProcFacts DEF Covered, o
  <1>. QED  BY <1>1, <1>2, <1>6, <1>9, <1>10, <1>11, OpStep

LEMMA DeletedOK ==
  ASSUME NEW o \in OpType, o.pc = "delete", NEW w, ~w.docker, Shape(w, o), ReadTrue(w, o), NEW a
  PROVE  /\ Deleted(o) \in OpType /\ Shape(w, Deleted(o)) /\ ReadTrue(w, Deleted(o))
         /\ Holds(o, a) \subseteq Holds(Deleted(o), a)
  <1>1. CASE o.todo # {}
    BY <1>1 DEF Deleted
  <1>2. CASE o.todo = {}
    <2>. DEFINE pc == IF o.kind = "read" THEN "row" ELSE "answer"
                q == Deleted(o)
    <2>1. q = [o EXCEPT !.pc = pc]
      BY <1>2 DEF Deleted
    <2>2. pc \in Pcs
      BY DEF Pcs
    <2>3. (o.kind = "read" => pc = "row") /\ (o.kind # "read" => pc = "answer")
      OBVIOUS
    <2>. HIDE DEF pc, q
    <2>4. q \in OpType
      BY <2>1, <2>2 DEF OpType
    <2>5. /\ q.kind = o.kind /\ q.pc = pc /\ q.jobs = o.jobs /\ q.todo = o.todo
          /\ q.images = o.images /\ q.verdict = o.verdict /\ q.log = o.log /\ q.rows = o.rows
          /\ q.report = o.report /\ q.lane = o.lane /\ q.error = o.error /\ q.key = o.key
      BY <2>1 DEF OpType
    <2>6. o.kind \in {"preflight", "presence", "read"} /\ o.lane # "poll"
      BY DEF Shape, OpType
    <2>7. ReadTrue(w, q)
      BY <2>5, ReadSame DEF ReadTrue
    <2>8. Kept(q) = Kept(o) /\ (o.kind = "read" => Kept(o) = {})
      BY <2>5, KeptSame DEF Kept, Shape
    <2>9. Holds(o, a) = Kept(o) /\ Holds(q, a) = Kept(o)
      BY <1>2, <2>3, <2>5, <2>6, <2>8, HoldsAt
    <2>11. CASE o.kind = "read"
      <3>1. Shape(w, q)
        BY <2>11, <2>3, <2>5, <2>6 DEF Shape
      <3>. QED  BY <3>1, <2>4, <2>7, <2>9 DEF q
    <2>12. CASE o.kind # "read"
      <3>1. Shape(w, q)
        BY <2>12, <2>3, <2>5, <2>6 DEF Shape
      <3>. QED  BY <3>1, <2>4, <2>7, <2>9 DEF q
    <2>. QED  BY <2>11, <2>12
  <1>. QED  BY <1>1, <1>2

LEMMA DeleteKeeps == ASSUME PInv, NEW p \in Procs, Delete(p) PROVE PInv'
  <1>. DEFINE o == op[p]
              ans == answer[p]
              os == objs[p]
  <1>1. o.pc = "delete" /\ UNCHANGED world
    BY DEF Delete
  <1>2. /\ o \in OpType /\ Shape(world, o) /\ ReadTrue(world, o) /\ ans \in AnswerType
        /\ AnswerTrue(world, ans) /\ Covered(os, o, ans) /\ os \in [Objects -> ObjType]
        /\ \A m \in Objects : PodTrue(world, m, os[m])
    BY ProcFacts
  <1>3. ~world.docker /\ Holds(o, ans) = o.todo \cup Kept(o)
    BY <1>1, <1>2, HoldsAt DEF Shape
  <1>4. CASE Go(p, Deleted(o)) /\ UNCHANGED <<objs, answer, used>>
    <2>. DEFINE q == Deleted(o)
    <2>. HIDE DEF o
    <2>1. q \in OpType /\ Shape(world, q) /\ ReadTrue(world, q) /\ Holds(o, ans) \subseteq Holds(q, ans)
      BY <1>1, <1>2, <1>3, DeletedOK
    <2>2. Covered(os, q, ans)
      BY <1>2, <2>1 DEF Covered
    <2>3. op' = [op EXCEPT ![p] = q]
      BY <1>4 DEF Go
    <2>. QED  BY <1>1, <1>4, <2>1, <2>2, <2>3, OpStep
  <1>5. ASSUME NEW n \in o.todo, NEW raises \in BOOLEAN,
               objs' = IF raises THEN objs ELSE [objs EXCEPT ![p][n] = NoObject],
               answer' = IF raises THEN [answer EXCEPT ![p].lost = @ \cup {n}] ELSE answer,
               Go(p, Deleted([o EXCEPT !.todo = @ \ {n}]))
        PROVE  PInv'
    <2>. DEFINE r == [o EXCEPT !.todo = @ \ {n}]
                q == Deleted(r)
                x == IF raises THEN os[n] ELSE NoObject
                a == IF raises THEN [ans EXCEPT !.lost = @ \cup {n}] ELSE ans
    <2>1. n \in Jobs /\ n \in Objects
      BY <1>2, JobsAreObjects DEF OpType
    <2>2. op' = [op EXCEPT ![p] = q]
      BY <1>5 DEF Go
    <2>3. objs' = [objs EXCEPT ![p][n] = x]
      BY <1>5, <2>1 DEF PInv, TypeOK
    <2>4. answer' = [answer EXCEPT ![p] = a]
      BY <1>5 DEF PInv, TypeOK
    <2>5. x \in ObjType /\ PodTrue(world, n, x) /\ (raises \/ x.is = "none")
      BY <1>2, <2>1, NoObjectType
    <2>6. a \in AnswerType /\ AnswerTrue(world, a) /\ ans.lost \subseteq a.lost /\ (raises => n \in a.lost)
      BY <1>2, <2>1, LostType
    <2>. HIDE DEF o, os, ans, a, x
    <2>7. r \in OpType
      BY <1>2 DEF OpType
    <2>8. /\ r.kind = o.kind /\ r.pc = o.pc /\ r.jobs = o.jobs /\ r.todo = o.todo \ {n}
          /\ r.images = o.images /\ r.verdict = o.verdict /\ r.log = o.log /\ r.rows = o.rows
          /\ r.report = o.report /\ r.lane = o.lane /\ r.error = o.error /\ r.key = o.key
      BY <1>2 DEF OpType
    <2>. HIDE DEF r
    <2>9. Shape(world, r)
      BY <1>1, <1>2, <2>8 DEF Shape
    <2>10. ReadTrue(world, r)
      BY <1>1, <1>2, <2>8, ReadSame DEF ReadTrue
    <2>11. Holds(r, a) = (o.todo \ {n}) \cup Kept(o)
      BY <1>1, <2>8, HoldsAt, KeptSame
    <2>12. q \in OpType /\ Shape(world, q) /\ ReadTrue(world, q) /\ Holds(r, a) \subseteq Holds(q, a)
      BY <1>1, <1>3, <2>7, <2>8, <2>9, <2>10, DeletedOK
    <2>13. Covered([os EXCEPT ![n] = x], q, a)
      <3>. HIDE DEF q
      <3>1. SUFFICES ASSUME NEW m \in Objects, [os EXCEPT ![n] = x][m].is # "none"
                     PROVE  m \in a.lost \cup Holds(q, a)
        BY DEF Covered
      <3>2. CASE m = n
        BY <3>1, <3>2, <1>2, <2>5, <2>6
      <3>3. CASE m # n
        <4>1. m \in ans.lost \cup (o.todo \cup Kept(o))
          BY <3>1, <3>3, <1>2, <1>3 DEF Covered
        <4>. QED  BY <4>1, <3>3, <2>6, <2>11, <2>12
      <3>. QED  BY <3>2, <3>3
    <2>. HIDE DEF q
    <2>. QED  BY <1>1, <2>1, <2>2, <2>3, <2>4, <2>5, <2>6, <2>12, <2>13, FullStep DEF os
  <1>. QED  BY <1>4, <1>5 DEF Delete

(***************************************************************************)
(* What the operation returns.                                             *)
(***************************************************************************)
\* A check of the weights by a probe that mounted them.
LEMMA ModelCheckTrue ==
  ASSUME NEW n \in Weighs, NEW v \in VerdictType, VerdictTrue(world, n, v), NEW l \in Logs,
         LogTrue(world, l), world \in WorldType
  PROVE  /\ model_check(v, reads_log(n), l) \in CheckType
         /\ model_check(v, reads_log(n), l).key = "weights"
         /\ CheckTrue(world, model_check(v, reads_log(n), l))
         /\ \A m \in Nodes : (n \in Nodes /\ (world.claim \/ m = n)) =>
              /\ [model_check(v, reads_log(n), l) EXCEPT !.node = m] \in CheckType
              /\ [model_check(v, reads_log(n), l) EXCEPT !.node = m].key = "weights"
              /\ CheckTrue(world, [model_check(v, reads_log(n), l) EXCEPT !.node = m])
  <1>. DEFINE status == IF v.mount_failed \/ (reads_log(n) /\ l = "model-missing") THEN "fail"
                        ELSE IF IF reads_log(n) THEN l = "model-present" ELSE v.mounted THEN "pass"
                        ELSE "skip"
  <1>1. model_check(v, reads_log(n), l) = [key |-> "weights", status |-> status, node |-> v.node]
    BY DEF model_check, Check
  <1>2. reads_log(n) <=> world.claim
    BY DEF reads_log, Weighs, WorldType
  <1>3. status \in Statuses
    BY DEF Statuses
  <1>4. "weights" \in CheckKeys /\ v.node \in Places /\ Nodes \subseteq Places /\ "weights" \notin Containers
    BY DEF CheckKeys, VerdictType, Places, Containers
  <1>5. status = "pass" => IF world.claim THEN world.on_claim ELSE v.node \in Nodes /\ world.weights[v.node]
    BY <1>2 DEF LogTrue, VerdictTrue, There
  <1>6. status = "fail" /\ ~world.claim => v.node \in Nodes /\ ~world.weights[v.node]
    BY <1>2 DEF VerdictTrue, Missing
  <1>7. v.node \in Nodes /\ n \in Nodes => v.node = n
    BY ProbesAssumption DEF VerdictTrue
  <1>. HIDE DEF status
  <1>8. ASSUME NEW nd \in Places, NEW c, c = [key |-> "weights", status |-> status, node |-> nd],
               world.claim \/ (v.node \in Nodes => nd = v.node)
        PROVE  c \in CheckType /\ c.key = "weights" /\ CheckTrue(world, c)
    <2>1. c \in CheckType
      BY <1>3, <1>4, <1>8 DEF CheckType
    <2>2. c.key = "weights" /\ c.status = status /\ c.node = nd
      BY <1>8
    <2>3. CheckTrue(world, c)
      BY <1>4, <1>5, <1>6, <1>8, <2>2 DEF CheckTrue
    <2>. QED  BY <2>1, <2>2, <2>3
  <1>9. ASSUME NEW m \in Nodes, n \in Nodes, world.claim \/ m = n,
               NEW c, c = [model_check(v, reads_log(n), l) EXCEPT !.node = m]
        PROVE  c \in CheckType /\ c.key = "weights" /\ CheckTrue(world, c)
    <2>1. c = [key |-> "weights", status |-> status, node |-> m]
      BY <1>1, <1>9
    <2>2. world.claim \/ (v.node \in Nodes => m = v.node)
      BY <1>7, <1>9
    <2>3. m \in Places
      BY <1>4
    <2>. QED  BY <2>1, <2>2, <2>3, <1>8
  <1>. QED  BY <1>1, <1>4, <1>8, <1>9

LEMMA PlainTrue == ASSUME NEW w, NEW c, Plain(c) PROVE CheckTrue(w, c)
  BY DEF Plain, CheckTrue

LEMMA PreflightReportTrue ==
  ASSUME NEW o \in OpType, o.kind = "preflight", Shape(world, o), ReadTrue(world, o), world \in WorldType
  PROVE  /\ PreflightReport(o) \in SUBSET CheckType
         /\ \A c \in PreflightReport(o) :
              CheckTrue(world, c) /\ (c.key \in Containers /\ c.status = "warn" => "pulls" \in Kept(o))
  <1>. DEFINE pulls == o.verdict["pulls"]
              mount == o.verdict["weights"]
              refused == Check("placement", "fail", None)
              weights == model_check(mount, reads_log("weights"), o.log["weights"])
              image(c) == Check(c, image_status(pulls, o.error, c), pulls.node)
  <1>1. /\ pulls \in VerdictType /\ VerdictTrue(world, "pulls", pulls)
        /\ mount \in VerdictType /\ VerdictTrue(world, "weights", mount)
        /\ o.log["weights"] \in Logs /\ LogTrue(world, o.log["weights"])
    BY DEF OpType, ReadTrue, Jobs
  <1>2. o.report \subseteq CheckType /\ \A c \in o.report : Plain(c)
    BY DEF OpType, ReadTrue
  <1>3. refused \in CheckType /\ Plain(refused)
    BY DEF Check, CheckType, CheckKeys, SmokeSteps, Statuses, Places, Plain, Containers
  <1>4. weights \in CheckType /\ weights.key = "weights" /\ CheckTrue(world, weights)
    BY <1>1, ModelCheckTrue DEF Weighs
  <1>5. ASSUME NEW c \in o.images
        PROVE  /\ image(c) \in CheckType /\ CheckTrue(world, image(c))
               /\ image(c).status = "warn" => "pulls" \in Kept(o)
    <2>. DEFINE s == image_status(pulls, o.error, c)
    <2>1. /\ s \in {"pass", "fail", "warn", "skip"} /\ (s = "pass" => c \in pulls.pulled)
          /\ s = "warn" => pulling(pulls, o.error)
      BY DEF image_status
    <2>. HIDE DEF s, pulls
    <2>2. c \in Containers /\ c \in CheckKeys /\ pulls.node \in Places
      BY <1>1 DEF OpType, CheckKeys, VerdictType
    <2>3. image(c) = [key |-> c, status |-> s, node |-> pulls.node]
      BY DEF Check, s
    <2>. HIDE DEF image
    <2>4. image(c) \in CheckType
      BY <2>1, <2>2, <2>3 DEF CheckType, Statuses
    <2>5. c # "weights"
      BY <2>2 DEF Containers
    <2>6. CheckTrue(world, image(c))
      BY <1>1, <2>1, <2>3, <2>5 DEF CheckTrue, VerdictTrue
    <2>7. s = "warn" => "pulls" \in Kept(o)
      BY <2>1 DEF Kept, Shape, pulls
    <2>. QED  BY <2>3, <2>4, <2>6, <2>7
  <1>6. PreflightReport(o) \subseteq o.report \cup {image(c) : c \in o.images} \cup {refused, weights}
    BY DEF PreflightReport, checks
  <1>7. weights.key \notin Containers
    BY <1>4 DEF Containers
  <1>. HIDE DEF pulls, mount, refused, weights, image
  <1>8. ASSUME NEW c \in PreflightReport(o)
        PROVE  /\ c \in CheckType /\ CheckTrue(world, c)
               /\ c.key \in Containers /\ c.status = "warn" => "pulls" \in Kept(o)
    <2>1. CASE c \in o.report \/ c = refused
      BY <2>1, <1>2, <1>3, PlainTrue DEF Plain
    <2>2. CASE c \in {image(d) : d \in o.images}
      BY <2>2, <1>5
    <2>3. CASE c = weights
      BY <2>3, <1>4, <1>7
    <2>. QED  BY <1>6, <2>1, <2>2, <2>3
  <1>. QED  BY <1>8

LEMMA PresenceReportTrue ==
  ASSUME NEW o \in OpType, o.kind = "presence", Shape(world, o), ReadTrue(world, o), world \in WorldType
  PROVE  /\ PresenceReport(o) \in SUBSET CheckType
         /\ \A c \in PresenceReport(o) : c.key \notin Containers /\ CheckTrue(world, c)
  <1>. DEFINE skip == Check("weights", "skip", None)
              seen(n) == model_check(o.verdict[n], reads_log(n), o.log[n])
              of(n) == IF world.claim THEN {x \in Nodes : TakesPods(x)} ELSE {n}
              told(n) == {[seen(n) EXCEPT !.node = m] : m \in of(n)}
  <1>1. skip \in CheckType /\ Plain(skip) /\ skip.key = "weights"
    BY DEF Check, CheckType, CheckKeys, SmokeSteps, Statuses, Places, Plain, Containers
  <1>2. o.report \subseteq CheckType /\ \A c \in o.report : Plain(c)
    BY DEF OpType, ReadTrue
  <1>3. ASSUME NEW n \in o.jobs, NEW c \in told(n)
        PROVE  c \in CheckType /\ c.key = "weights" /\ CheckTrue(world, c)
    <2>1. n \in Nodes /\ n \in Weighs /\ n \in Jobs
      BY DEF Shape, Weighs, Jobs
    <2>2. /\ o.verdict[n] \in VerdictType /\ VerdictTrue(world, n, o.verdict[n])
          /\ o.log[n] \in Logs /\ LogTrue(world, o.log[n])
      BY <2>1 DEF OpType, ReadTrue
    <2>3. PICK m \in of(n) : c = [seen(n) EXCEPT !.node = m]
      BY <1>3
    <2>4. m \in Nodes /\ (world.claim \/ m = n)
      BY <2>1, <2>3
    <2>. HIDE DEF of
    <2>. QED  BY <2>1, <2>2, <2>3, <2>4, ModelCheckTrue
  <1>4. PresenceReport(o) = IF o.error THEN {skip} ELSE o.report \cup UNION {told(n) : n \in o.jobs}
    BY DEF PresenceReport
  <1>. HIDE DEF skip, told
  <1>5. ASSUME NEW c \in PresenceReport(o)
        PROVE  c \in CheckType /\ c.key \notin Containers /\ CheckTrue(world, c)
    <2>1. CASE c \in o.report \/ c = skip
      BY <2>1, <1>1, <1>2, PlainTrue DEF Plain
    <2>2. CASE \E n \in o.jobs : c \in told(n)
      BY <2>2, <1>3 DEF Containers
    <2>. QED  BY <1>4, <2>1, <2>2
  <1>. QED  BY <1>5

LEMMA ReturnKeeps == ASSUME PInv, NEW p \in Procs, Return(p) PROVE PInv'
  <1>. DEFINE o == op[p]
              ans == answer[p]
              report == CASE o.kind = "preflight" -> PreflightReport(o)
                          [] o.kind = "presence" -> PresenceReport(o)
                          [] OTHER -> o.report
              kept == Kept(o)
              a == [ans EXCEPT !.report = report, !.kept = kept]
  <1>1. /\ o.pc = "answer" /\ op' = [op EXCEPT ![p] = Idle] /\ UNCHANGED <<world, objs>>
        /\ answer' = [answer EXCEPT ![p].report = report, ![p].kept = kept]
    BY DEF Return, Go
  <1>2. answer' = [answer EXCEPT ![p] = a]
    BY <1>1 DEF PInv, TypeOK
  <1>3. /\ o \in OpType /\ Shape(world, o) /\ ReadTrue(world, o) /\ ans \in AnswerType
        /\ AnswerTrue(world, ans) /\ Covered(objs[p], o, ans) /\ world \in WorldType
    BY ProcFacts
  <1>4. /\ report \in SUBSET CheckType
        /\ \A c \in report : CheckTrue(world, c) /\ (c.key \in Containers /\ c.status = "warn" => "pulls" \in kept)
    <2>. HIDE DEF o
    <2>1. CASE o.kind = "preflight"
      BY <2>1, <1>3, PreflightReportTrue
    <2>2. CASE o.kind = "presence"
      BY <2>2, <1>3, PresenceReportTrue
    <2>3. CASE o.kind \notin {"preflight", "presence"}
      BY <2>3, <1>3, PlainTrue DEF OpType, ReadTrue, Plain
    <2>. QED  BY <2>1, <2>2, <2>3
  <1>5. kept \in SUBSET Jobs
    BY <1>3 DEF Kept, OpType
  <1>. HIDE DEF o, ans, report, kept
  <1>6. a \in AnswerType
    BY <1>3, <1>4, <1>5 DEF AnswerType
  <1>7. a.report = report /\ a.kept = kept /\ a.rows = ans.rows /\ a.lost = ans.lost
    BY <1>3 DEF AnswerType
  <1>. HIDE DEF a
  <1>8. AnswerTrue(world, a)
    BY <1>3, <1>4, <1>7 DEF AnswerTrue
  <1>9. Covered(objs[p], Idle, a)
    BY <1>1, <1>3, <1>7, HoldsAt, IdleType DEF Covered, kept
  <1>. QED  BY <1>1, <1>2, <1>6, <1>8, <1>9, IdleType, AnswerStep

(***************************************************************************)
(* The smoke test.                                                         *)
(***************************************************************************)
LEMMA SmokeStepKeeps == ASSUME PInv, NEW p \in Procs, SmokeStep(p) PROVE PInv'
  <1>. DEFINE o == op[p]
  <1>1. PICK step \in o.steps \ {"pod"} : \E status \in StepAnswers(step) :
          LET rest == o.steps \ {step}
              told == o.report \cup {Check(step, status, None)}
          IN  /\ \/ o.pc = step
                 \/ o.pc = "lanes" /\ (step = "host" => "node" \notin o.steps)
              /\ Go(p, IF o.pc # "lanes" /\ status = "fail"
                         THEN [o EXCEPT !.pc = "answer", !.report = told \cup {Check(s, "skip", None) : s \in rest}]
                       ELSE [o EXCEPT !.pc = IF step = "cluster" THEN "credential" ELSE "lanes",
                                      !.steps = rest, !.report = told])
              /\ UNCHANGED <<world, objs, answer, reading, stored, used, pull>>
    BY Zenon DEF SmokeStep
  <1>2. PICK status \in StepAnswers(step) :
          LET rest == o.steps \ {step}
              told == o.report \cup {Check(step, status, None)}
          IN  /\ \/ o.pc = step
                 \/ o.pc = "lanes" /\ (step = "host" => "node" \notin o.steps)
              /\ Go(p, IF o.pc # "lanes" /\ status = "fail"
                         THEN [o EXCEPT !.pc = "answer", !.report = told \cup {Check(s, "skip", None) : s \in rest}]
                       ELSE [o EXCEPT !.pc = IF step = "cluster" THEN "credential" ELSE "lanes",
                                      !.steps = rest, !.report = told])
              /\ UNCHANGED <<world, objs, answer, reading, stored, used, pull>>
    BY <1>1, Zenon
  <1>. DEFINE rest == o.steps \ {step}
              told == o.report \cup {Check(step, status, None)}
              skipped == told \cup {Check(s, "skip", None) : s \in rest}
              pc == IF step = "cluster" THEN "credential" ELSE "lanes"
              stop == [o EXCEPT !.pc = "answer", !.report = skipped]
              go == [o EXCEPT !.pc = pc, !.steps = rest, !.report = told]
  <1>3. /\ o.pc = step \/ o.pc = "lanes"
        /\ op' = [op EXCEPT ![p] = IF o.pc # "lanes" /\ status = "fail" THEN stop ELSE go]
        /\ UNCHANGED <<world, objs, answer>>
    BY <1>2 DEF Go
  <1>4. /\ o \in OpType /\ Shape(world, o) /\ ReadTrue(world, o) /\ Covered(objs[p], o, answer[p])
    BY ProcFacts
  <1>5. step \in SmokeSteps /\ step # "pod" /\ rest \subseteq SmokeSteps
    BY <1>1, <1>4 DEF OpType
  <1>6. status \in Statuses
    BY <1>1, NodeCheckType DEF StepAnswers, CheckType, Statuses
  <1>7. \A s \in SmokeSteps, t \in Statuses : Check(s, t, None) \in CheckType /\ Plain(Check(s, t, None))
    BY DEF Check, CheckType, CheckKeys, SmokeSteps, Statuses, Places, Plain, Containers
  <1>8. told \in SUBSET CheckType /\ \A c \in told : Plain(c)
    BY <1>4, <1>5, <1>6, <1>7 DEF OpType, ReadTrue
  <1>9. skipped \in SUBSET CheckType /\ \A c \in skipped : Plain(c)
    BY <1>5, <1>7, <1>8 DEF Statuses
  <1>10. o.kind = "smoke"
    BY <1>3, <1>4, <1>5 DEF Shape, OpType, SmokeSteps
  <1>11. /\ pc \in Pcs /\ "answer" \in Pcs /\ pc \in {"credential", "lanes"}
         /\ pc = "credential" <=> step = "cluster"
    BY DEF Pcs
  <1>12. o.pc = "lanes" => step # "cluster"
    BY <1>1, <1>4, <1>10 DEF Shape
  <1>. HIDE DEF told, skipped, pc
  <1>13. CASE o.pc # "lanes" /\ status = "fail"
    <2>1. op' = [op EXCEPT ![p] = stop]
      BY <1>3, <1>13
    <2>. HIDE DEF o
    <2>2. stop \in OpType
      BY <1>4, <1>9, <1>11 DEF OpType
    <2>3. /\ stop.kind = o.kind /\ stop.pc = "answer" /\ stop.jobs = o.jobs /\ stop.verdict = o.verdict
          /\ stop.log = o.log /\ stop.rows = o.rows /\ stop.report = skipped /\ stop.lane = o.lane
          /\ stop.steps = o.steps
      BY <1>4 DEF OpType
    <2>. HIDE DEF stop
    <2>4. Shape(world, stop)
      BY <1>4, <1>10, <1>13, <2>3 DEF Shape
    <2>5. ReadTrue(world, stop)
      BY <1>4, <1>9, <2>3, ReadSame
    <2>6. Holds(o, answer[p]) = {}
      BY <1>4, <1>10, <1>13, <1>3, <1>5, HoldsAt DEF Shape, SmokeSteps
    <2>7. Covered(objs[p], stop, answer[p])
      BY <1>4, <2>6 DEF Covered
    <2>. QED  BY <1>3, <2>1, <2>2, <2>4, <2>5, <2>7, OpStep
  <1>14. CASE ~(o.pc # "lanes" /\ status = "fail")
    <2>1. op' = [op EXCEPT ![p] = go]
      BY <1>3, <1>14
    <2>. HIDE DEF o
    <2>2. go \in OpType
      BY <1>4, <1>5, <1>8, <1>11 DEF OpType
    <2>3. /\ go.kind = o.kind /\ go.pc = pc /\ go.jobs = o.jobs /\ go.verdict = o.verdict
          /\ go.log = o.log /\ go.rows = o.rows /\ go.report = told /\ go.lane = o.lane
          /\ go.steps = rest
      BY <1>4 DEF OpType
    <2>. HIDE DEF go
    <2>4. Shape(world, go)
      <3>1. "pod" \in rest <=> "pod" \in o.steps
        BY <1>5
      <3>2. "cluster" \notin rest
        BY <1>3, <1>4, <1>5, <1>10 DEF Shape, SmokeSteps
      <3>3. o.lane = "poll" => pc = "lanes"
        BY <1>4, <1>11, <1>12 DEF Shape
      <3>4. ~world.docker
        BY <1>4, <1>10 DEF Shape
      <3>. HIDE DEF rest
      <3>. QED  BY <1>4, <1>10, <1>11, <2>3, <3>1, <3>2, <3>3, <3>4 DEF Shape
    <2>5. ReadTrue(world, go)
      BY <1>4, <1>8, <1>11, <2>3, ReadSame
    <2>6. Holds(o, answer[p]) \subseteq Holds(go, answer[p])
      <3>1. o.pc \in {"cluster", "credential", "lanes"}
        BY <1>3, <1>4, <1>10, <1>5 DEF Shape, SmokeSteps
      <3>2. CASE o.pc = "lanes"
        BY <3>2, <1>11, <1>12, <2>3, HoldsAt
      <3>3. CASE o.pc # "lanes"
        BY <3>1, <3>3, HoldsAt
      <3>. QED  BY <3>2, <3>3
    <2>7. Covered(objs[p], go, answer[p])
      BY <1>4, <2>6 DEF Covered
    <2>. QED  BY <1>3, <2>1, <2>2, <2>4, <2>5, <2>7, OpStep
  <1>. QED  BY <1>13, <1>14

LEMMA SmokeDoneKeeps == ASSUME PInv, NEW p \in Procs, SmokeDone(p) PROVE PInv'
  <1>. DEFINE o == op[p]
              q == [o EXCEPT !.pc = "answer"]
  <1>1. /\ o.pc = "lanes" /\ o.steps = {} /\ op' = [op EXCEPT ![p] = q]
        /\ UNCHANGED <<world, objs, answer>>
    BY DEF SmokeDone, Go
  <1>2. o \in OpType /\ Shape(world, o) /\ ReadTrue(world, o) /\ Covered(objs[p], o, answer[p])
    BY ProcFacts
  <1>. HIDE DEF o
  <1>3. q \in OpType
    BY <1>2 DEF OpType, Pcs
  <1>4. /\ q.kind = o.kind /\ q.pc = "answer" /\ q.jobs = o.jobs /\ q.verdict = o.verdict
        /\ q.log = o.log /\ q.rows = o.rows /\ q.report = o.report /\ q.lane = o.lane
        /\ q.steps = o.steps
    BY <1>2 DEF OpType
  <1>. HIDE DEF q
  <1>5. o.kind = "smoke" /\ o.lane # "poll"
    BY <1>1, <1>2 DEF Shape, OpType
  <1>6. Shape(world, q)
    BY <1>1, <1>2, <1>4, <1>5 DEF Shape
  <1>7. ReadTrue(world, q)
    BY <1>2, <1>4, ReadSame DEF ReadTrue
  <1>8. Holds(o, answer[p]) = {}
    BY <1>1, <1>5, HoldsAt
  <1>9. Covered(objs[p], q, answer[p])
    BY <1>2, <1>8 DEF Covered
  <1>. QED  BY <1>1, <1>3, <1>6, <1>7, <1>9, OpStep

LEMMA PodAnswerOK ==
  ASSUME NEW o \in OpType, o.kind = "smoke", o.pc = "lanes", NEW w, Shape(w, o), ReadTrue(w, o),
         NEW status \in {"pass", "fail"}, NEW node \in Places
  PROVE  /\ PodAnswer(o, status, node) \in OpType /\ Shape(w, PodAnswer(o, status, node))
         /\ ReadTrue(w, PodAnswer(o, status, node))
  <1>. DEFINE q == PodAnswer(o, status, node)
              report == o.report \cup {Check("pod", status, node)}
              steps == o.steps \ {"pod"}
  <1>1. q = [o EXCEPT !.lane = "over", !.steps = steps, !.report = report]
    BY DEF PodAnswer
  <1>2. Check("pod", status, node) \in CheckType /\ Plain(Check("pod", status, node))
    BY DEF Check, CheckType, CheckKeys, SmokeSteps, Statuses, Plain, Containers
  <1>3. report \in SUBSET CheckType /\ \A c \in report : Plain(c)
    BY <1>2 DEF OpType, ReadTrue
  <1>4. steps \in SUBSET SmokeSteps /\ "pod" \notin steps /\ steps \subseteq o.steps
    BY DEF OpType
  <1>. HIDE DEF q, report, steps
  <1>5. q \in OpType
    BY <1>1, <1>3, <1>4 DEF OpType
  <1>6. /\ q.kind = o.kind /\ q.pc = o.pc /\ q.jobs = o.jobs /\ q.verdict = o.verdict
        /\ q.log = o.log /\ q.rows = o.rows /\ q.report = report /\ q.lane = "over"
        /\ q.steps = steps
    BY <1>1 DEF OpType
  <1>7. Shape(w, q)
    BY <1>4, <1>6 DEF Shape
  <1>8. ReadTrue(w, q)
    BY <1>3, <1>6, ReadSame
  <1>. QED  BY <1>5, <1>7, <1>8 DEF q

LEMMA SmokePodKeeps == ASSUME PInv, NEW p \in Procs, SmokePod(p) PROVE PInv'
  <1>. DEFINE o == op[p]
              os == objs[p]
              ans == answer[p]
              pod == os["smoke"].pod
  <1>1. o.pc = "lanes" /\ UNCHANGED world
    BY DEF SmokePod
  <1>2. /\ o \in OpType /\ Shape(world, o) /\ ReadTrue(world, o) /\ ans \in AnswerType
        /\ AnswerTrue(world, ans) /\ Covered(os, o, ans) /\ os \in [Objects -> ObjType]
        /\ \A m \in Objects : PodTrue(world, m, os[m])
    BY ProcFacts
  <1>3. o.kind = "smoke" /\ "smoke" \in Objects
    BY <1>1, <1>2, JobsAreObjects DEF Shape, OpType
  <1>4. Holds(o, ans) = IF o.lane = "poll" THEN {"smoke"} ELSE {}
    BY <1>1, HoldsAt
  <1>5. ASSUME NEW x \in ObjType, PodTrue(world, "smoke", x), NEW lost \in BOOLEAN,
               NEW q \in OpType, Shape(world, q), ReadTrue(world, q),
               op' = [op EXCEPT ![p] = q], objs' = [objs EXCEPT ![p]["smoke"] = x],
               answer' = IF lost THEN [answer EXCEPT ![p].lost = @ \cup {"smoke"}] ELSE answer,
               x.is # "none" => lost \/ "smoke" \in ans.lost \/ \A a : "smoke" \in Holds(q, a)
        PROVE  PInv'
    <2>. DEFINE a == IF lost THEN [ans EXCEPT !.lost = @ \cup {"smoke"}] ELSE ans
    <2>1. answer' = [answer EXCEPT ![p] = a]
      BY <1>5 DEF PInv, TypeOK
    <2>2. a \in AnswerType /\ AnswerTrue(world, a) /\ ans.lost \subseteq a.lost /\ (lost => "smoke" \in a.lost)
      BY <1>2, <1>3, LostType
    <2>. HIDE DEF a, o, ans, os
    <2>3. Covered([os EXCEPT !["smoke"] = x], q, a)
      <3>1. SUFFICES ASSUME NEW m \in Objects, [os EXCEPT !["smoke"] = x][m].is # "none"
                     PROVE  m \in a.lost \cup Holds(q, a)
        BY DEF Covered
      <3>2. CASE m = "smoke"
        BY <3>1, <3>2, <1>2, <1>5, <2>2
      <3>3. CASE m # "smoke"
        <4>1. m \in ans.lost
          BY <3>1, <3>3, <1>2, <1>4 DEF Covered
        <4>. QED  BY <4>1, <2>2
      <3>. QED  BY <3>2, <3>3
    <2>. QED  BY <1>1, <1>3, <1>5, <2>1, <2>2, <2>3, FullStep DEF os
  <1>6. ASSUME NEW made \in BOOLEAN, NEW answered \in BOOLEAN, o.lane = "apply", answered => made,
               objs' = IF made THEN [objs EXCEPT ![p]["smoke"] = smoke_pod] ELSE objs,
               Go(p, IF answered THEN [o EXCEPT !.lane = "poll"] ELSE PodAnswer(o, "fail", None)),
               answer' = IF made /\ ~answered THEN [answer EXCEPT ![p].lost = @ \cup {"smoke"}] ELSE answer
        PROVE  PInv'
    <2>. DEFINE x == IF made THEN smoke_pod ELSE os["smoke"]
                up == [o EXCEPT !.lane = "poll"]
                q == IF answered THEN up ELSE PodAnswer(o, "fail", None)
                lost == made /\ ~answered
    <2>1. objs' = [objs EXCEPT ![p]["smoke"] = x]
      BY <1>3, <1>6 DEF PInv, TypeOK
    <2>2. smoke_pod \in ObjType /\ PodTrue(world, "smoke", smoke_pod)
      BY <1>2, <1>3, ManifestType DEF Manifest
    <2>3. x \in ObjType /\ PodTrue(world, "smoke", x)
      BY <1>2, <1>3, <2>2
    <2>4. x.is # "none" => made \/ "smoke" \in ans.lost
      BY <1>2, <1>3, <1>4, <1>6 DEF Covered
    <2>. HIDE DEF x
    <2>5. op' = [op EXCEPT ![p] = q]
      BY <1>6 DEF Go
    <2>. HIDE DEF o
    <2>6. up \in OpType
      BY <1>2 DEF OpType
    <2>7. /\ up.kind = o.kind /\ up.pc = o.pc /\ up.jobs = o.jobs /\ up.verdict = o.verdict
          /\ up.log = o.log /\ up.rows = o.rows /\ up.report = o.report /\ up.lane = "poll"
          /\ up.steps = o.steps
      BY <1>2 DEF OpType
    <2>. HIDE DEF up
    <2>8. Shape(world, up) /\ ReadTrue(world, up) /\ \A a : Holds(up, a) = {"smoke"}
      <3>1. Shape(world, up)
        BY <1>1, <1>2, <1>3, <1>6, <2>7 DEF Shape
      <3>2. ReadTrue(world, up)
        BY <1>1, <1>2, <2>7, ReadSame DEF ReadTrue
      <3>. QED  BY <1>1, <2>7, <3>1, <3>2, HoldsAt
    <2>9. "fail" \in {"pass", "fail"} /\ None \in Places
      BY DEF Places
    <2>10. q \in OpType /\ Shape(world, q) /\ ReadTrue(world, q)
      BY <1>1, <1>2, <1>3, <2>6, <2>8, <2>9, PodAnswerOK
    <2>11. lost \/ ~made \/ (\A a : "smoke" \in Holds(q, a))
      BY <2>8
    <2>12. answer' = IF lost THEN [answer EXCEPT ![p].lost = @ \cup {"smoke"}] ELSE answer
      BY <1>6
    <2>13. lost \in BOOLEAN
      OBVIOUS
    <2>. HIDE DEF q, lost
    <2>. QED  BY <1>5, <2>1, <2>3, <2>4, <2>5, <2>10, <2>11, <2>12, <2>13
  <1>7. ASSUME NEW reads \in BOOLEAN, NEW deletes \in BOOLEAN, o.lane = "poll",
               objs' = IF deletes THEN [objs EXCEPT ![p]["smoke"] = NoObject] ELSE objs,
               Go(p, PodAnswer(o, IF reads /\ pod.node # None THEN "pass" ELSE "fail",
                               IF reads THEN pod.node ELSE None)),
               answer' = IF deletes THEN answer ELSE [answer EXCEPT ![p].lost = @ \cup {"smoke"}]
        PROVE  PInv'
    <2>. DEFINE x == IF deletes THEN NoObject ELSE os["smoke"]
                status == IF reads /\ pod.node # None THEN "pass" ELSE "fail"
                node == IF reads THEN pod.node ELSE None
                q == PodAnswer(o, status, node)
                lost == ~deletes
    <2>1. objs' = [objs EXCEPT ![p]["smoke"] = x]
      BY <1>3, <1>7 DEF PInv, TypeOK
    <2>2. x \in ObjType /\ PodTrue(world, "smoke", x) /\ (deletes => x.is = "none")
      BY <1>2, <1>3, NoObjectType
    <2>3. status \in {"pass", "fail"} /\ node \in Places
      BY <1>2, <1>3 DEF ObjType, PodType, Places
    <2>4. op' = [op EXCEPT ![p] = q]
      BY <1>7 DEF Go
    <2>. HIDE DEF o, status, node, x
    <2>5. q \in OpType /\ Shape(world, q) /\ ReadTrue(world, q)
      BY <1>1, <1>2, <1>3, <2>3, PodAnswerOK
    <2>6. answer' = IF lost THEN [answer EXCEPT ![p].lost = @ \cup {"smoke"}] ELSE answer
      BY <1>7
    <2>7. lost \in BOOLEAN /\ (x.is # "none" => lost)
      BY <2>2
    <2>. HIDE DEF q, lost
    <2>. QED  BY <1>5, <2>1, <2>2, <2>4, <2>5, <2>6, <2>7
  <1>. QED  BY <1>6, <1>7 DEF SmokePod

(***************************************************************************)
(* Reading an image or a model.                                            *)
(***************************************************************************)
LEMMA ReadPollKeeps == ASSUME PInv, NEW p \in Procs, ReadPoll(p) PROVE PInv'
  <1>. DEFINE o == op[p]
  <1>1. PICK works \in BOOLEAN :
          /\ o.pc = "poll" /\ o.kind = "read" /\ UNCHANGED <<world, objs, answer>>
          /\ op' = [op EXCEPT ![p] = [o EXCEPT !.pc = "delete", !.todo = {"read"}, !.error = ~works]]
    BY DEF ReadPoll, Go
  <1>. DEFINE q == [o EXCEPT !.pc = "delete", !.todo = {"read"}, !.error = ~works]
  <1>2. o \in OpType /\ Shape(world, o) /\ ReadTrue(world, o) /\ Covered(objs[p], o, answer[p])
    BY ProcFacts
  <1>3. {"read"} \in SUBSET Jobs /\ "delete" \in Pcs /\ (~works) \in BOOLEAN
    BY DEF Jobs, Pcs
  <1>. HIDE DEF o
  <1>4. q \in OpType
    BY <1>2, <1>3 DEF OpType
  <1>5. /\ q.kind = o.kind /\ q.pc = "delete" /\ q.jobs = o.jobs /\ q.todo = {"read"}
        /\ q.verdict = o.verdict /\ q.log = o.log /\ q.rows = o.rows /\ q.report = o.report
        /\ q.lane = o.lane /\ q.key = o.key
    BY <1>2 DEF OpType
  <1>6. op' = [op EXCEPT ![p] = q]
    BY <1>1
  <1>. HIDE DEF q
  <1>7. Shape(world, q)
    BY <1>1, <1>2, <1>5 DEF Shape
  <1>8. ReadTrue(world, q)
    BY <1>2, <1>5, ReadSame DEF ReadTrue
  <1>9. Holds(o, answer[p]) \subseteq Holds(q, answer[p])
    BY <1>1, <1>2, <1>5, HoldsAt DEF Shape
  <1>10. Covered(objs[p], q, answer[p])
    BY <1>2, <1>9 DEF Covered
  <1>. QED  BY <1>1, <1>4, <1>6, <1>7, <1>8, <1>10, OpStep

LEMMA ReadSshKeeps == ASSUME PInv, NEW p \in Procs, ReadSsh(p) PROVE PInv'
  <1>. DEFINE o == op[p]
              put == [o EXCEPT !.pc = "store", !.rows = {}]
              ran(works) == [o EXCEPT !.pc = "row", !.error = ~works]
  <1>1. PICK works \in BOOLEAN :
          /\ o.pc = "ssh" /\ UNCHANGED <<world, objs, answer>>
          /\ op' = [op EXCEPT ![p] = IF world.host # "present" THEN put ELSE ran(works)]
    BY DEF ReadSsh, Go
  <1>2. o \in OpType /\ Shape(world, o) /\ ReadTrue(world, o) /\ Covered(objs[p], o, answer[p])
    BY ProcFacts
  <1>3. o.kind = "read" /\ Holds(o, answer[p]) = {}
    BY <1>1, <1>2, HoldsAt DEF Shape, OpType
  <1>4. \A q : Covered(objs[p], q, answer[p])
    BY <1>2, <1>3 DEF Covered
  <1>5. "store" \in Pcs /\ "row" \in Pcs /\ (~works) \in BOOLEAN
    BY DEF Pcs
  <1>6. CASE world.host # "present"
    <2>1. op' = [op EXCEPT ![p] = put]
      BY <1>1, <1>6
    <2>. HIDE DEF o
    <2>2. put \in OpType
      BY <1>2, <1>5 DEF OpType
    <2>3. /\ put.kind = o.kind /\ put.pc = "store" /\ put.jobs = o.jobs /\ put.todo = o.todo
          /\ put.verdict = o.verdict /\ put.log = o.log /\ put.rows = {} /\ put.report = o.report
          /\ put.lane = o.lane /\ put.key = o.key
      BY <1>2 DEF OpType
    <2>. HIDE DEF put
    <2>4. Shape(world, put)
      BY <1>1, <1>2, <1>3, <2>3 DEF Shape
    <2>5. ReadTrue(world, put)
      BY <1>2, <2>3 DEF ReadTrue
    <2>. QED  BY <1>1, <1>4, <2>1, <2>2, <2>4, <2>5, OpStep
  <1>7. CASE world.host = "present"
    <2>. DEFINE q == ran(works)
    <2>1. op' = [op EXCEPT ![p] = q]
      BY <1>1, <1>7
    <2>. HIDE DEF o
    <2>2. q \in OpType
      BY <1>2, <1>5 DEF OpType
    <2>3. /\ q.kind = o.kind /\ q.pc = "row" /\ q.jobs = o.jobs /\ q.todo = o.todo
          /\ q.verdict = o.verdict /\ q.log = o.log /\ q.rows = o.rows /\ q.report = o.report
          /\ q.lane = o.lane /\ q.key = o.key
      BY <1>2 DEF OpType
    <2>. HIDE DEF q
    <2>4. Shape(world, q)
      BY <1>1, <1>2, <1>3, <2>3 DEF Shape
    <2>5. ReadTrue(world, q)
      BY <1>2, <1>7, <2>3 DEF ReadTrue
    <2>. QED  BY <1>1, <1>4, <2>1, <2>2, <2>4, <2>5, OpStep
  <1>. QED  BY <1>6, <1>7

LEMMA RowKeeps == ASSUME PInv, NEW p \in Procs, Row(p) PROVE PInv'
  <1>. DEFINE o == op[p]
              status == IF o.error THEN "failed" ELSE "ok"
              row == [key |-> o.key, status |-> status]
              rows == o.rows \cup {row}
              rest == o.keys \ {r.key : r \in rows}
              put == [o EXCEPT !.pc = "store", !.rows = rows]
              again == [ReadOf(rest) EXCEPT !.keys = o.keys, !.rows = rows, !.bg = o.bg]
  <1>1. /\ o.pc = "row" /\ UNCHANGED <<world, objs, answer>>
        /\ op' = [op EXCEPT ![p] = IF rest = {} THEN put ELSE again]
    BY DEF Row, Go
  <1>2. o \in OpType /\ Shape(world, o) /\ ReadTrue(world, o) /\ Covered(objs[p], o, answer[p])
    BY ProcFacts
  <1>3. o.kind = "read" /\ Holds(o, answer[p]) = {} /\ o.key \in Keys
    BY <1>1, <1>2, HoldsAt DEF Shape, OpType
  <1>4. \A q : Covered(objs[p], q, answer[p])
    BY <1>2, <1>3 DEF Covered
  <1>5. status \in {"ok", "failed"} /\ (status = "ok" /\ world.docker => world.host = "present")
    BY <1>1, <1>2 DEF ReadTrue
  <1>. HIDE DEF status
  <1>6. row \in RowType /\ RowTrue(world, row)
    BY <1>3, <1>5 DEF RowType, RowTrue
  <1>. HIDE DEF row
  <1>7. rows \in SUBSET RowType /\ \A r \in rows : RowTrue(world, r)
    BY <1>2, <1>6 DEF OpType, ReadTrue
  <1>8. rest \in SUBSET Keys /\ o.keys \in SUBSET Keys /\ o.bg \in BOOLEAN /\ "store" \in Pcs
    BY <1>2 DEF OpType, Pcs
  <1>. HIDE DEF rows, rest
  <1>9. CASE rest = {}
    <2>1. op' = [op EXCEPT ![p] = put]
      BY <1>1, <1>9
    <2>. HIDE DEF o
    <2>2. put \in OpType
      BY <1>2, <1>7, <1>8 DEF OpType
    <2>3. /\ put.kind = o.kind /\ put.pc = "store" /\ put.jobs = o.jobs /\ put.todo = o.todo
          /\ put.verdict = o.verdict /\ put.log = o.log /\ put.rows = rows /\ put.report = o.report
          /\ put.lane = o.lane /\ put.key = o.key
      BY <1>2 DEF OpType
    <2>. HIDE DEF put
    <2>4. Shape(world, put)
      BY <1>1, <1>2, <1>3, <2>3 DEF Shape
    <2>5. ReadTrue(world, put)
      BY <1>2, <1>7, <2>3 DEF ReadTrue
    <2>. QED  BY <1>1, <1>4, <2>1, <2>2, <2>4, <2>5, OpStep
  <1>10. CASE rest # {}
    <2>1. op' = [op EXCEPT ![p] = again]
      BY <1>1, <1>10
    <2>. DEFINE r == ReadOf(rest)
    <2>2. /\ r \in OpType /\ r.kind = "read" /\ r.todo = {"read"} /\ r.jobs = {} /\ r.lane = "none"
          /\ r.verdict = Idle.verdict /\ r.log = Idle.log /\ r.report = {}
      BY <1>8, ReadOfType
    <2>3. again = [r EXCEPT !.keys = o.keys, !.rows = rows, !.bg = o.bg]
      OBVIOUS
    <2>. HIDE DEF o, again
    <2>4. again \in OpType /\ again.pc = r.pc /\ again.key = r.key /\ again.rows = rows
      <3>. HIDE DEF r
      <3>. QED  BY <1>7, <1>8, <2>2, <2>3 DEF OpType
    <2>5. /\ again.kind = "read" /\ again.todo = {"read"} /\ again.jobs = {} /\ again.lane = "none"
          /\ again.verdict = Idle.verdict /\ again.log = Idle.log /\ again.report = {}
      <3>. HIDE DEF r
      <3>. QED  BY <2>2, <2>3 DEF OpType
    <2>6. Shape(world, again) /\ ReadTrue(world, again)
      BY <1>7, <1>8, <2>4, <2>5, ReadStarts
    <2>. QED  BY <1>1, <1>4, <2>1, <2>4, <2>6, OpStep
  <1>. QED  BY <1>9, <1>10

LEMMA StoreKeeps == ASSUME PInv, NEW p \in Procs, Store(p) PROVE PInv'
  <1>. DEFINE o == op[p]
              ans == answer[p]
              a == [ans EXCEPT !.rows = o.rows]
  <1>1. /\ o.pc = "store" /\ op' = [op EXCEPT ![p] = Idle] /\ UNCHANGED <<world, objs>>
        /\ answer' = [answer EXCEPT ![p].rows = o.rows]
    BY DEF Store, Go
  <1>2. answer' = [answer EXCEPT ![p] = a]
    BY <1>1 DEF PInv, TypeOK
  <1>3. /\ o \in OpType /\ ReadTrue(world, o) /\ ans \in AnswerType /\ AnswerTrue(world, ans)
        /\ Covered(objs[p], o, ans)
    BY ProcFacts
  <1>4. o.rows \in SUBSET RowType /\ \A r \in o.rows : RowTrue(world, r)
    BY <1>3 DEF OpType, ReadTrue
  <1>5. Holds(o, ans) = {}
    BY <1>1, HoldsAt
  <1>. HIDE DEF o, ans
  <1>6. a \in AnswerType /\ a.rows = o.rows /\ a.lost = ans.lost /\ a.report = ans.report /\ a.kept = ans.kept
    BY <1>3, <1>4 DEF AnswerType
  <1>. HIDE DEF a
  <1>7. AnswerTrue(world, a)
    BY <1>3, <1>4, <1>6 DEF AnswerTrue
  <1>8. Covered(objs[p], Idle, a)
    BY <1>3, <1>5, <1>6 DEF Covered
  <1>. QED  BY <1>1, <1>2, <1>6, <1>7, <1>8, IdleType, AnswerStep

(***************************************************************************)
(* The process dies.                                                       *)
(***************************************************************************)
LEMMA DieKeeps == ASSUME PInv, Die PROVE PInv'
  <1>1. /\ op' = [p \in Procs |-> Idle] /\ UNCHANGED <<world, objs>>
        /\ answer' = [p \in Procs |-> [NoAnswer EXCEPT !.lost = {n \in Objects : objs[p][n].is # "none"}]]
    BY DEF Die
  <1>2. ASSUME NEW p \in Procs
        PROVE  answer'[p] \in AnswerType /\ ProcOK(p)'
    <2>. DEFINE lost == {n \in Objects : objs[p][n].is # "none"}
                a == [NoAnswer EXCEPT !.lost = lost]
    <2>1. op'[p] = Idle /\ answer'[p] = a
      BY <1>1
    <2>2. lost \in SUBSET Objects
      OBVIOUS
    <2>3. Covered(objs[p], Idle, [NoAnswer EXCEPT !.lost = lost])
      BY DEF Covered, NoAnswer
    <2>. HIDE DEF lost
    <2>4. a \in AnswerType /\ a.report = {} /\ a.rows = {}
      BY <2>2 DEF NoAnswer, AnswerType
    <2>5. AnswerTrue(world, a)
      BY <2>4 DEF AnswerTrue
    <2>. HIDE DEF a
    <2>6. Covered(objs[p], Idle, a)
      BY <2>3 DEF a
    <2>. QED  BY <1>1, <2>1, <2>4, <2>5, <2>6, IdleType, ProcFacts DEF ProcOK
  <1>3. op' \in [Procs -> OpType]
    BY <1>1, IdleType
  <1>4. answer' \in [Procs -> AnswerType]
    BY <1>1, <1>2
  <1>. QED  BY <1>1, <1>2, <1>3, <1>4 DEF PInv, TypeOK

(***************************************************************************)
(* The cluster moves an object of a process.                               *)
(***************************************************************************)
LEMMA ObjectStep ==
  ASSUME PInv, NEW p \in Procs, NEW n \in Objects, NEW x \in ObjType, UNCHANGED <<op, answer>>,
         world' \in WorldType, Wider(world, world'), objs' = [objs EXCEPT ![p][n] = x],
         PodTrue(world', n, x), x.is # "none" => objs[p][n].is # "none"
  PROVE  PInv'
  <1>1. objs \in [Procs -> [Objects -> ObjType]]
    BY DEF PInv, TypeOK
  <1>2. /\ objs' \in [Procs -> [Objects -> ObjType]] /\ objs'[p] = [objs[p] EXCEPT ![n] = x]
        /\ \A q \in Procs \ {p} : objs'[q] = objs[q]
    BY <1>1
  <1>3. \A m \in Objects : PodTrue(world', m, objs'[p][m])
    BY <1>1, <1>2, ProcFacts, WiderKeeps
  <1>4. Covered(objs'[p], op'[p], answer'[p])
    BY <1>1, <1>2, ProcFacts DEF Covered
  <1>5. /\ Shape(world', op'[p]) /\ ReadTrue(world', op'[p]) /\ AnswerTrue(world', answer'[p])
    BY ProcFacts, WiderKeeps
  <1>. QED  BY <1>2, <1>3, <1>4, <1>5, Frame DEF PInv, TypeOK

\* The same world.
LEMMA ObjectMoves ==
  ASSUME PInv, NEW p \in Procs, NEW n \in Objects, NEW x \in ObjType, UNCHANGED <<world, op, answer>>,
         objs' = [objs EXCEPT ![p][n] = x], PodTrue(world, n, x),
         x.is # "none" => objs[p][n].is # "none"
  PROVE  PInv'
  BY ObjectStep, SameWorld DEF PInv, TypeOK

\* An object whose pod changed.
LEMMA PodMoves ==
  ASSUME NEW o \in ObjType, NEW pod \in PodType, NEW x, x = [o EXCEPT !.pod = pod]
  PROVE  x \in ObjType /\ x.is = o.is /\ x.pod = pod /\ x.mounts = o.mounts
  BY DEF ObjType

LEMMA PlaceKeeps == ASSUME PInv, NEW p \in Procs, NEW n \in Objects, Place(p, n) PROVE PInv'
  <1>. DEFINE o == objs[p][n]
              old == o.pod
              fits == {m \in Nodes : TakesPods(m) /\ (n \in Nodes => m = n)}
  <1>1. o \in ObjType /\ old \in PodType /\ PodTrue(world, n, o)
    BY ProcFacts DEF ObjType
  <1>2. o.is # "none" /\ old.node = None /\ UNCHANGED <<world, op, answer>>
    BY DEF Place
  <1>3. /\ ~old.mounted /\ ~old.mount_failed
        /\ \A c \in Containers : old.at[c] \in {"creating", "backoff"}
    BY <1>1, <1>2, ProbesAssumption DEF PodTrue, Missing, PodType
  <1>4. ASSUME NEW m \in fits,
               objs' = [objs EXCEPT ![p][n].pod.node = m, ![p][n].pod.unschedulable = FALSE]
        PROVE  PInv'
    <2>. DEFINE pod == [old EXCEPT !.node = m, !.unschedulable = FALSE]
                x == [o EXCEPT !.pod = pod]
    <2>1. objs' = [objs EXCEPT ![p][n] = x]
      <3>. DEFINE y == [o EXCEPT !.pod = [old EXCEPT !.node = m]]
                  mid == [objs EXCEPT ![p][n] = y]
      <3>1. mid = [objs EXCEPT ![p][n].pod.node = m]
        BY DEF PInv, TypeOK, ObjType, PodType
      <3>2. objs' = [mid EXCEPT ![p][n].pod.unschedulable = FALSE]
        BY <3>1, <1>4
      <3>3. mid[p][n] = y /\ objs \in [Procs -> [Objects -> ObjType]]
        BY DEF PInv, TypeOK
      <3>4. y.pod = [old EXCEPT !.node = m]
        BY <1>1 DEF ObjType
      <3>5. [y EXCEPT !.pod.unschedulable = FALSE] = x
        BY <1>1, <3>4 DEF ObjType, PodType
      <3>6. objs' = [mid EXCEPT ![p][n] = [mid[p][n] EXCEPT !.pod.unschedulable = FALSE]]
        BY <3>2, <3>3
      <3>. HIDE DEF y, x
      <3>. QED  BY <3>3, <3>5, <3>6
    <2>2. m \in Nodes /\ (n \in Nodes => m = n)
      BY <1>4
    <2>. HIDE DEF old, o
    <2>3. /\ pod \in PodType /\ pod.node = m /\ pod.mounted = old.mounted /\ pod.at = old.at
          /\ pod.mount_failed = old.mount_failed
      BY <1>1, <2>2 DEF PodType, Places
    <2>. HIDE DEF pod
    <2>4. x \in ObjType /\ x.is = o.is /\ x.pod = pod /\ x.mounts = o.mounts
      BY <1>1, <2>3, PodMoves
    <2>. HIDE DEF x
    <2>5. PodTrue(world, n, x)
      BY <1>1, <1>2, <1>3, <2>2, <2>3, <2>4 DEF PodTrue
    <2>. QED  BY <1>2, <2>1, <2>4, <2>5, ObjectMoves DEF o
  <1>5. ASSUME objs' = [objs EXCEPT ![p][n].pod.unschedulable = TRUE] PROVE PInv'
    <2>. DEFINE pod == [old EXCEPT !.unschedulable = TRUE]
                x == [o EXCEPT !.pod = pod]
    <2>1. objs' = [objs EXCEPT ![p][n] = x]
      BY <1>5 DEF PInv, TypeOK, ObjType, PodType
    <2>. HIDE DEF old, o
    <2>3. /\ pod \in PodType /\ pod.node = old.node /\ pod.mounted = old.mounted /\ pod.at = old.at
          /\ pod.mount_failed = old.mount_failed
      BY <1>1 DEF PodType
    <2>. HIDE DEF pod
    <2>4. x \in ObjType /\ x.is = o.is /\ x.pod = pod /\ x.mounts = o.mounts
      BY <1>1, <2>3, PodMoves
    <2>. HIDE DEF x
    <2>5. PodTrue(world, n, x)
      BY <1>1, <1>2, <1>3, <2>3, <2>4 DEF PodTrue
    <2>. QED  BY <1>2, <2>1, <2>4, <2>5, ObjectMoves DEF o
  <1>. QED  BY <1>4, <1>5 DEF Place

LEMMA MountKeeps == ASSUME PInv, NEW p \in Procs, NEW n \in Objects, Mount(p, n) PROVE PInv'
  <1>. DEFINE o == objs[p][n]
              old == o.pod
              absent == o.mounts /\ ~world.claim /\ ~world.weights[old.node]
  <1>1. o \in ObjType /\ old \in PodType /\ PodTrue(world, n, o) /\ world \in WorldType
    BY ProcFacts DEF ObjType
  <1>2. o.is = "job" /\ old.node \in Nodes /\ ~old.mounted /\ UNCHANGED <<world, op, answer>>
    BY <1>1 DEF Mount, PodType, Places
  <1>3. CASE ~absent /\ objs' = [objs EXCEPT ![p][n].pod.mounted = TRUE]
    <2>. DEFINE pod == [old EXCEPT !.mounted = TRUE]
                x == [o EXCEPT !.pod = pod]
    <2>1. objs' = [objs EXCEPT ![p][n] = x]
      BY <1>3 DEF PInv, TypeOK, ObjType, PodType
    <2>2. o.mounts => There(world, old.node)
      BY <1>1, <1>2, <1>3 DEF There, WorldType
    <2>. HIDE DEF old, o
    <2>3. /\ pod \in PodType /\ pod.node = old.node /\ pod.mounted = TRUE /\ pod.at = old.at
          /\ pod.mount_failed = old.mount_failed
      BY <1>1 DEF PodType
    <2>. HIDE DEF pod
    <2>4. x \in ObjType /\ x.is = o.is /\ x.pod = pod /\ x.mounts = o.mounts
      BY <1>1, <2>3, PodMoves
    <2>. HIDE DEF x
    <2>5. PodTrue(world, n, x)
      BY <1>1, <1>2, <2>2, <2>3, <2>4 DEF PodTrue, old
    <2>. QED  BY <1>2, <2>1, <2>4, <2>5, ObjectMoves DEF o
  <1>4. CASE /\ absent \/ (o.mounts /\ world.claim)
             /\ objs' = [objs EXCEPT ![p][n].pod.mount_failed = TRUE]
    <2>. DEFINE pod == [old EXCEPT !.mount_failed = TRUE]
                x == [o EXCEPT !.pod = pod]
    <2>1. objs' = [objs EXCEPT ![p][n] = x]
      BY <1>4 DEF PInv, TypeOK, ObjType, PodType
    <2>2. Missing(world, old.node)
      BY <1>1, <1>2, <1>4 DEF Missing, WorldType
    <2>. HIDE DEF old, o
    <2>3. /\ pod \in PodType /\ pod.node = old.node /\ pod.mounted = old.mounted /\ pod.at = old.at
          /\ pod.mount_failed = TRUE
      BY <1>1 DEF PodType
    <2>. HIDE DEF pod
    <2>4. x \in ObjType /\ x.is = o.is /\ x.pod = pod /\ x.mounts = o.mounts
      BY <1>1, <2>3, PodMoves
    <2>. HIDE DEF x
    <2>5. PodTrue(world, n, x)
      BY <1>1, <1>2, <2>2, <2>3, <2>4 DEF PodTrue, old
    <2>. QED  BY <1>2, <2>1, <2>4, <2>5, ObjectMoves DEF o
  <1>. QED  BY <1>3, <1>4 DEF Mount

LEMMA PullKeeps ==
  ASSUME PInv, NEW p \in Procs, NEW n \in Objects, NEW c \in Containers, Pull(p, n, c)
  PROVE  PInv'
  <1>. DEFINE o == objs[p][n]
              old == o.pod
              nd == old.node
              image == world.images[nd][c]
              stage == IF image = "broken" THEN "backoff" ELSE "pulled"
              at == [old.at EXCEPT ![c] = stage]
              pod == [old EXCEPT !.at = at]
              x == [o EXCEPT !.pod = pod]
  <1>1. o \in ObjType /\ old \in PodType /\ PodTrue(world, n, o) /\ world \in WorldType
    BY ProcFacts DEF ObjType
  <1>2. o.is = "job" /\ old.mounted /\ old.at[c] = "creating" /\ UNCHANGED <<op, answer>>
    BY DEF Pull
  <1>3. nd \in Nodes /\ image \in {"absent", "present", "broken"}
    BY <1>1, <1>2 DEF PodTrue, WorldType, Containers
  <1>4. objs' = [objs EXCEPT ![p][n] = x]
    BY DEF Pull, PInv, TypeOK, ObjType, PodType
  <1>5. /\ world' \in WorldType /\ Wider(world, world')
        /\ stage = "pulled" => world'.images[nd][c] = "present"
    <2>1. CASE image = "absent"
      <3>. DEFINE images == [world.images EXCEPT ![nd][c] = "present"]
      <3>1. world' = [world EXCEPT !.images = images]
        BY <2>1, <1>1 DEF Pull, WorldType
      <3>2. /\ images \in [Nodes -> [{"engine", "policy"} -> {"absent", "present", "broken"}]]
            /\ images[nd][c] = "present"
            /\ \A m \in Nodes, d \in Containers : world.images[m][d] = "present" => images[m][d] = "present"
        BY <1>1, <1>3 DEF WorldType, Containers
      <3>. HIDE DEF images
      <3>3. world' \in WorldType
        BY <1>1, <3>1, <3>2 DEF WorldType
      <3>4. Wider(world, world')
        BY <1>1, <3>1, <3>2 DEF WorldType, Wider
      <3>5. world'.images = images
        BY <1>1, <3>1 DEF WorldType
      <3>. QED  BY <3>2, <3>3, <3>4, <3>5
    <2>2. CASE image # "absent"
      <3>1. world' = world
        BY <2>2 DEF Pull
      <3>. QED  BY <2>2, <3>1, <1>1, <1>3, SameWorld
    <2>. QED  BY <2>1, <2>2
  <1>6. stage \in Stages /\ stage \in {"backoff", "pulled"}
    BY DEF Stages
  <1>7. PodTrue(world', n, o)
    BY <1>1, <1>5, WiderKeeps
  <1>. HIDE DEF stage, old, o
  <1>8. at \in [Containers -> Stages] /\ at[c] = stage /\ \A d \in Containers \ {c} : at[d] = old.at[d]
    BY <1>1, <1>6 DEF PodType
  <1>. HIDE DEF at
  <1>9. /\ pod \in PodType /\ pod.node = old.node /\ pod.mounted = old.mounted /\ pod.at = at
        /\ pod.mount_failed = old.mount_failed
    BY <1>1, <1>8 DEF PodType
  <1>. HIDE DEF pod
  <1>10. x \in ObjType /\ x.is = o.is /\ x.pod = pod /\ x.mounts = o.mounts
    BY <1>1, <1>9, PodMoves
  <1>. HIDE DEF x
  <1>11. PodTrue(world', n, x)
    <2>1. ASSUME NEW d \in Containers, at[d] \notin {"creating", "backoff"}
          PROVE  pod.mounted /\ pod.node \in Nodes /\ world'.images[pod.node][d] = "present"
      <3>1. CASE d = c
        BY <3>1, <2>1, <1>2, <1>3, <1>5, <1>6, <1>8, <1>9
      <3>2. CASE d # c
        BY <3>2, <2>1, <1>7, <1>8, <1>9 DEF PodTrue, old
      <3>. QED  BY <3>1, <3>2
    <2>. QED  BY <1>7, <2>1, <1>9, <1>10 DEF PodTrue, old
  <1>. QED  BY <1>2, <1>4, <1>5, <1>10, <1>11, ObjectStep DEF o

LEMMA RunKeeps ==
  ASSUME PInv, NEW p \in Procs, NEW n \in Objects, NEW c \in Containers, Run(p, n, c)
  PROVE  PInv'
  <1>1. PICK stage \in {"terminated", "create_error"} : objs' = [objs EXCEPT ![p][n].pod.at[c] = stage]
    BY DEF Run
  <1>. DEFINE o == objs[p][n]
              old == o.pod
              at == [old.at EXCEPT ![c] = stage]
              pod == [old EXCEPT !.at = at]
              x == [o EXCEPT !.pod = pod]
  <1>2. o \in ObjType /\ old \in PodType /\ PodTrue(world, n, o)
    BY ProcFacts DEF ObjType
  <1>3. o.is = "job" /\ old.at[c] = "pulled" /\ UNCHANGED <<world, op, answer>>
    BY DEF Run
  <1>4. objs' = [objs EXCEPT ![p][n] = x]
    BY <1>1 DEF PInv, TypeOK, ObjType, PodType
  <1>. HIDE DEF old, o
  <1>5. at \in [Containers -> Stages] /\ at[c] = stage /\ \A d \in Containers \ {c} : at[d] = old.at[d]
    BY <1>2 DEF PodType, Stages
  <1>. HIDE DEF at
  <1>6. /\ pod \in PodType /\ pod.node = old.node /\ pod.mounted = old.mounted /\ pod.at = at
        /\ pod.mount_failed = old.mount_failed
    BY <1>2, <1>5 DEF PodType
  <1>. HIDE DEF pod
  <1>7. x \in ObjType /\ x.is = o.is /\ x.pod = pod /\ x.mounts = o.mounts
    BY <1>2, <1>6, PodMoves
  <1>. HIDE DEF x
  <1>8. PodTrue(world, n, x)
    <2>1. ASSUME NEW d \in Containers, at[d] \notin {"creating", "backoff"}
          PROVE  pod.mounted /\ pod.node \in Nodes /\ world.images[pod.node][d] = "present"
      <3>1. old.at[d] \notin {"creating", "backoff"}
        BY <2>1, <1>3, <1>5
      <3>. QED  BY <3>1, <1>2, <1>6 DEF PodTrue, old
    <2>. QED  BY <1>2, <2>1, <1>6, <1>7 DEF PodTrue, old
  <1>. QED  BY <1>3, <1>4, <1>7, <1>8, ObjectMoves DEF o

LEMMA ReapKeeps == ASSUME PInv, NEW p \in Procs, NEW n \in Jobs, Reap(p, n) PROVE PInv'
  BY ObjectMoves, NoObjectType, JobsAreObjects DEF Reap

\* The docker host gains the image.
LEMMA PullEndsKeeps == ASSUME PInv, PullEnds PROVE PInv'
  <1>1. UNCHANGED <<objs, op, answer>> /\ (world' = world \/ world' = [world EXCEPT !.host = "present"])
    BY DEF PullEnds
  <1>2. world \in WorldType
    BY DEF PInv, TypeOK
  <1>3. world' \in WorldType
    BY <1>1, <1>2 DEF WorldType
  <1>4. Wider(world, world')
    BY <1>1, <1>2 DEF WorldType, Wider
  <1>5. ASSUME NEW p \in Procs PROVE ProcOK(p)'
    BY <1>1, <1>4, ProcFacts, WiderKeeps DEF ProcOK
  <1>. QED  BY <1>1, <1>3, <1>5 DEF PInv, TypeOK

(***************************************************************************)
(* The theorems.                                                           *)
(***************************************************************************)
LEMMA InitOK == Init => PInv
  <1>. SUFFICES ASSUME Init PROVE PInv
    OBVIOUS
  <1>1. TypeOK
    BY WorldsAssumption, NoObjectType, IdleType, NoAnswerType DEF Init, TypeOK
  <1>2. ASSUME NEW p \in Procs PROVE ProcOK(p)
    BY NoObjectType, IdleType, NoAnswerType DEF Init, ProcOK, Covered
  <1>. QED  BY <1>1, <1>2 DEF PInv

LEMMA NextOK == PInv /\ [Next]_vars => PInv'
  <1>. SUFFICES ASSUME PInv, [Next]_vars PROVE PInv'
    OBVIOUS
  <1>0. ASSUME UNCHANGED <<world, objs, op, answer>> PROVE PInv'
    BY <1>0 DEF PInv, TypeOK, ProcOK
  <1>1. ASSUME NEW p \in Procs, Asks(p) PROVE PInv'
    BY <1>1, PreflightKeeps, PresenceKeeps, SmokeKeeps, ReadAskedKeeps DEF Asks
  <1>2. ASSUME NEW p \in Procs, Works(p) PROVE PInv'
    BY <1>2, ApplyKeeps, PollKeeps, ReadLogsKeeps, DeleteKeeps, ReturnKeeps, SmokeStepKeeps,
       SmokePodKeeps, SmokeDoneKeeps, ReadPollKeeps, ReadSshKeeps, RowKeeps, StoreKeeps DEF Works
  <1>3. ASSUME NEW p \in Procs, ClusterMoves(p) PROVE PInv'
    BY <1>3, PlaceKeeps, MountKeeps, PullKeeps, RunKeeps DEF ClusterMoves
  <1>4. CASE EnsureImage \/ PullTakesTime \/ Age \/ UNCHANGED vars
    BY <1>0, <1>4 DEF EnsureImage, PullTakesTime, Age, vars
  <1>. QED  BY <1>1, <1>2, <1>3, <1>4, TimeKeeps, ReapKeeps, PullEndsKeeps, DieKeeps DEF Next

LEMMA PInvHolds == Spec => []PInv
  BY InitOK, NextOK, PTL DEF Spec

\* What a preflight, a weights check or a read of an image answered is so when it answers and stays
\* so: an image that passed is on the node named, weights that passed are there, weights that failed
\* on a node's own disk are not, an image said to be on its way has its Job left to pull it
\* (ProbeVerdict.checks, model_check, run_in_image).
THEOREM ReportsAreTrue == Spec => []ReportTrue
  <1>1. PInv => ReportTrue
    <2>. SUFFICES ASSUME PInv, NEW p \in Procs
                  PROVE  /\ \A c \in answer[p].report :
                              /\ c.key \in Containers /\ c.status = "pass" => world.images[c.node][c.key] = "present"
                              /\ c.key \in Containers /\ c.status = "warn" => "pulls" \in answer[p].kept
                              /\ c.key = "weights" /\ c.status = "pass" => WeightsOn(c.node)
                              /\ c.key = "weights" /\ c.status = "fail" /\ ~world.claim => ~world.weights[c.node]
                         /\ \A r \in answer[p].rows : r.status = "ok" /\ world.docker => world.host = "present"
      BY DEF ReportTrue
    <2>. QED  BY ProcFacts DEF AnswerTrue, CheckTrue, RowTrue, WeightsOn
  <1>. QED  BY <1>1, PInvHolds, PTL

\* An operation that returned left nothing on the cluster but the Job it said it keeps and what a
\* call that raised, or a death of the process, kept it from deleting (the probes' finally).
THEOREM ProbesLeaveNothing == Spec => []NothingLeft
  <1>1. PInv => NothingLeft
    BY ProcFacts, HoldsAt DEF NothingLeft, Covered
  <1>. QED  BY <1>1, PInvHolds, PTL
=============================================================================

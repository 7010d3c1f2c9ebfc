------------------------------ MODULE Registry ------------------------------
(***************************************************************************)
(* The hardware registry: clusters, machines and node groups as an admin    *)
(* edits them (api/clusters.py, api/machines.py, api/machine_groups.py), the *)
(* GPU nodes behind a cluster's machines (control/launch/k8s.py, hardware.py)*)
(* and the worker that launches onto them from settings it caches for 15    *)
(* seconds (control/launch/clusters.py).                                    *)
(*                                                                          *)
(* A request that asks a cluster or a machine something between its checks  *)
(* and its commit is two steps here: it is open in `requests` meanwhile, and *)
(* the worker and other requests go on.  A request answered from the        *)
(* database alone is one step.  A refused request changes nothing and is not *)
(* a step.                                                                  *)
(***************************************************************************)
EXTENDS Naturals, FiniteSets, FiniteSetsExt, Sequences, SequencesExt

CONSTANTS
  Clusters,    \* ids of cluster rows
  Machines,    \* ids of machine rows, a set of naturals (the bound on rows)
  Groups,      \* node groups
  Campaigns,   \* campaigns
  Runs,        \* runs the worker may launch
  Hosts,       \* GPU nodes of the clusters, by host name
  Products,    \* accelerator products the nodes are labelled with
  CardType,    \* Products -> the canonical type, "" when unknown
  Forms,       \* what an admin may fill in for a machine; see FormOK
  Sites,       \* the situations of a run: see SiteOK
  None         \* no row, no value

\* An id no machine row has.
NoRow == [name |-> <<>>, driver |-> "none", cluster |-> None, selector |-> None,
          gpu_count |-> 0, gpu_type |-> "", state |-> "none"]

\* Where a machine's pods land: one cluster row's namespace and workload kind.
NoPlace == [cluster |-> None, namespace |-> "env", kind |-> "env"]

Spots == [namespace : {"ns1", "ns2"}, kind : {"llmservice", "deployment"}]

\* Nodes a selector may match: one host, one product, or all (no selector).
Selectors == [by : {"host"}, of : Hosts] \union [by : {"product"}, of : Products]
             \union {[by |-> "all", of |-> None]}

NodeRows == [product : Products \union {""}, cards : Nat, ready : BOOLEAN, cordoned : BOOLEAN]

\* A situation: the rows that exist at first, the nodes of each cluster, who
\* may ask for what, and how often.
SiteOK(s) ==
  /\ DOMAIN s = {"clusters", "nodes", "access", "quota", "ops", "asks", "news", "open"}
  /\ s.clusters \in [Clusters -> Spots \union {None}]
  /\ \A c \in Clusters : /\ DOMAIN s.nodes[c] \subseteq Hosts
                        /\ s.nodes[c] \in [DOMAIN s.nodes[c] -> NodeRows]
  /\ s.access \in [Clusters -> {"readable", "forbidden", "down"}]
  /\ s.quota \in [Clusters -> Nat \union {None}]
  /\ s.asks \in Nat /\ s.news \in Nat /\ s.open \in Nat

\* What a form says of a machine (MachineCreate); gpu_count 0 leaves it to the
\* probe.
FormOK(b) == /\ DOMAIN b = {"name", "driver", "cluster", "selector", "gpu_count"}
             /\ b.driver \in {"ssh_docker", "k8s"} /\ b.cluster \in Clusters \union {None}
             /\ b.selector \in Selectors /\ b.gpu_count \in Nat

ASSUME FormsAssumption == \A b \in Forms : FormOK(b)
ASSUME SitesAssumption == \A s \in Sites : SiteOK(s)
ASSUME FiniteAssumption == IsFiniteSet(Hosts) /\ IsFiniteSet(Products)
ASSUME NoneAssumption == None \notin {"live", "pending"}
ASSUME TypesAssumption == CardType \in [Products -> STRING] /\ Machines \subseteq Nat

VARIABLES
  site,
  clusters,   \* cluster rows: namespace and workload kind, or None
  machines,   \* machine rows, or NoRow
  groups,     \* [Groups -> sequence of member machines in rank order]
  campaigns,  \* [Campaigns -> status, the machine names and the group it is pinned to]
  runs,       \* [Runs -> status, machine, campaign]
  pods,       \* [Runs -> where the run's pods stand, None when there are none]
  cache,      \* the worker's resolved cluster settings (launch/clusters.py _cache)
  world,      \* the clusters themselves: nodes, what the credential may read, GPU quota
  requests,   \* open requests
  asks, news, \* what is left of the bounds on requests and on changes of the world
  page,       \* machines registered from a cluster page and not edited by hand since
  moved,      \* clusters whose nodes, labels or permissions changed
  stale       \* runs launched from settings that an edit had made or was making old

vars == <<site, clusters, machines, groups, campaigns, runs, pods, cache, world,
          requests, asks, news, page, moved, stale>>

registry == <<clusters, machines, groups, campaigns>>
fleet    == <<runs, pods, cache>>
ghosts   == <<page, moved, stale>>

Rows == {m \in Machines : machines[m] # NoRow}
On(c) == {m \in Rows : machines[m].driver = "k8s" /\ machines[m].cluster = c}
TakenNames == {machines[m].name : m \in Rows}
Free == Machines \ Rows
Live(r) == runs[r].status \in {"live", "pending"}
LiveOn(m) == {r \in Runs : Live(r) /\ runs[r].machine = m}

Ask(op) == asks > 0 /\ op \in site.ops /\ asks' = asks - 1
-----------------------------------------------------------------------------
(* What a cluster shows of its nodes.                                       *)

\* _node_takes_pods: Ready, and not cordoned (no toleration of the cordon).
node_takes_pods(n) == n.ready /\ ~n.cordoned

\* _gpu_nodes: nodes with allocatable cards or a product label.
gpu_nodes(ns) == {h \in DOMAIN ns : ns[h].cards > 0 \/ ns[h].product # ""}

TypeOfNode(n) == IF n.product = "" THEN "" ELSE CardType[n.product]

\* The nodes a label selector matches on the API server.
Matched(ns, sel) == {h \in DOMAIN ns : \/ sel.by = "host" /\ sel.of = h
                                       \/ sel.by = "product" /\ sel.of = ns[h].product
                                       \/ sel.by = "all"}

\* The sum of a function's values: what they count, each by its number, and
\* how many that makes.
Units(count) == UNION {{x} \X (1..count[x]) : x \in DOMAIN count}
SumOf(count) == Cardinality(Units(count))

CardsOf(ns, hs) == SumOf([h \in hs |-> ns[h].cards])

NoCapacity == [supported |-> FALSE, gpu_count |-> 0, gpu_type |-> "", nodes |-> 0, quota |-> FALSE]

\* K8sDriver._quota_capacity: the namespace's GPU quota, or nothing.
quota_capacity(c) ==
  IF world[c].quota = None THEN [NoCapacity EXCEPT !.supported = TRUE]
  ELSE [NoCapacity EXCEPT !.supported = TRUE, !.gpu_count = world[c].quota, !.quota = TRUE]

\* K8sDriver.probe_capacity: the cards of the matched nodes that take pods,
\* capped by the namespace's quota; the quota alone when nodes are unreadable
\* or no selector is set.  The driver of a row that is gone, and of no row, is
\* the default cluster's, which answers nothing here.
probe_capacity(row) ==
  IF row.driver # "k8s" THEN [supported |-> TRUE, gpu_count |-> 1, gpu_type |-> "",
                              nodes |-> 1, quota |-> FALSE]
  ELSE IF row.cluster = None \/ clusters[row.cluster] = None THEN NoCapacity
  ELSE LET c == row.cluster
           ns == world[c].nodes
           hit == Matched(ns, row.selector)
           usable == {h \in hit : node_takes_pods(ns[h])}
           total == CardsOf(ns, usable)
           types == {TypeOfNode(ns[h]) : h \in hit} \ {""}
       IN IF world[c].access = "down" THEN [NoCapacity EXCEPT !.supported = TRUE]
          ELSE IF row.selector.by = "all" \/ world[c].access = "forbidden" THEN quota_capacity(c)
          ELSE [supported |-> TRUE,
                gpu_count |-> IF total > 0 /\ world[c].quota # None /\ world[c].quota < total
                              THEN world[c].quota ELSE total,
                gpu_type |-> IF Cardinality(types) = 1 THEN CHOOSE t \in types : TRUE ELSE "",
                nodes |-> Cardinality(hit), quota |-> FALSE]

\* hardware.record_capacity: a probe that said nothing leaves the row alone.
record_capacity(row, probe) ==
  IF ~(probe.supported /\ (probe.nodes > 0 \/ probe.quota)) THEN row
  ELSE [row EXCEPT !.gpu_count = probe.gpu_count,
                   !.gpu_type = IF probe.gpu_type # "" THEN probe.gpu_type ELSE @]

\* _apply_probe: a row left without cards is refused.
Applies(row) == record_capacity(row, probe_capacity(row)).gpu_count > 0

\* _nodes_view: what a cluster page knows when it is read: the nodes and the
\* selectors of the machines already registered, or only the quota.
nodes_view(c) ==
  [readable |-> world[c].access = "readable", nodes |-> world[c].nodes, quota |-> world[c].quota,
   selectors |-> {machines[m].selector : m \in On(c)}]

\* Mutant: only the nodes that take pods are looked up among the machines.
SinglesUsable(v) == {h \in gpu_nodes(v.nodes) : /\ node_takes_pods(v.nodes[h])
                                                /\ [by |-> "host", of |-> h] \in v.selectors}

\* Hosts registered on their own, and products registered as a pool, in a view.
Singles(v) == {h \in gpu_nodes(v.nodes) : [by |-> "host", of |-> h] \in v.selectors}
Pools(v) == {v.nodes[h].product : h \in gpu_nodes(v.nodes)} \ {""}
PoolNodes(v, p) == {h \in gpu_nodes(v.nodes) : v.nodes[h].product = p}
Pooled(v) == {p \in Pools(v) : [by |-> "product", of |-> p] \in v.selectors}
-----------------------------------------------------------------------------
Init ==
  /\ site \in Sites
  /\ clusters = site.clusters
  /\ machines = [m \in Machines |-> NoRow]
  /\ groups = [g \in Groups |-> <<>>]
  /\ campaigns = [k \in Campaigns |-> None]
  /\ runs = [r \in Runs |-> [status |-> None, machine |-> None, campaign |-> None]]
  /\ pods = [r \in Runs |-> None]
  /\ cache = [c \in Clusters |-> None]
  /\ world = [c \in Clusters |-> [nodes |-> site.nodes[c], access |-> site.access[c],
                                  quota |-> site.quota[c]]]
  /\ requests = {} /\ asks = site.asks /\ news = site.news
  /\ page = {} /\ moved = {} /\ stale = {}
-----------------------------------------------------------------------------
(* Clusters.                                                                *)

\* create_cluster: with `check`, one that cannot be reached is rolled back.
create_cluster(c, spot, check) ==
  /\ Ask("cluster") /\ clusters[c] = None
  /\ check => world[c].access # "down"
  /\ clusters' = [clusters EXCEPT ![c] = spot]
  /\ UNCHANGED <<site, machines, groups, campaigns, fleet, world, requests, news, ghosts>>

\* Mutant: a finished run that is not torn down yet is not live work.
unfinished_work(c) == {r \in Runs : runs[r].status = "live" /\ runs[r].machine \in On(c)}

\* _live_work: runs not finished or not torn down on the cluster's machines.
live_work(c) == {r \in Runs : Live(r) /\ runs[r].machine \in On(c)}

\* update_cluster: the namespace and the kind stay put under live work.  The
\* API's own cache is dropped; the worker's is another process's.
update_cluster(c, spot) ==
  /\ Ask("cluster") /\ clusters[c] \notin {None, spot}
  /\ live_work(c) = {}
  /\ clusters' = [clusters EXCEPT ![c] = spot]
  /\ UNCHANGED <<site, machines, groups, campaigns, fleet, world, requests, news, ghosts>>

\* delete_cluster: refused while a machine names it.
delete_cluster(c) ==
  /\ Ask("cluster") /\ clusters[c] # None
  /\ \A m \in Rows : machines[m].cluster # c
  /\ clusters' = [clusters EXCEPT ![c] = None]
  /\ UNCHANGED <<site, machines, groups, campaigns, fleet, world, requests, news, ghosts>>
-----------------------------------------------------------------------------
(* Registering what a cluster has: the page is read, then rows are added.   *)

Open(req) == requests' = requests \union {req}
Close(req) == requests' = requests \ {req}

\* register_nodes, register_pools up to the answer of the cluster.
OpenRegistration(c, op, what) ==
  /\ Ask(op) /\ clusters[c] # None /\ world[c].access # "down"
  /\ Cardinality(requests) < site.open
  /\ Open([op |-> op, on |-> c, what |-> what, seen |-> nodes_view(c)])
  /\ UNCHANGED <<site, registry, fleet, world, news, ghosts>>

\* The row a registration adds: not leased.
NewRow(name, c, selector, cards, type) ==
  [name |-> name, driver |-> "k8s", cluster |-> c, selector |-> selector,
   gpu_count |-> cards, gpu_type |-> type, state |-> "AWAY"]

\* The names the rows are given in turn, each the first of its two that no
\* machine and no row before it has; none when a row has no free name, which
\* refuses the whole request.
NameChoices(wanted) ==
  {f \in [DOMAIN wanted -> 1..2] :
     \A i \in DOMAIN wanted :
       LET taken == TakenNames \union {wanted[j].names[f[j]] : j \in 1..(i - 1)}
       IN  /\ wanted[i].names[f[i]] \notin taken
           /\ \A k \in 1..(f[i] - 1) : wanted[i].names[k] \in taken}

\* The rows under those names, in the order of the free ids.
AddRows(c, wanted, f) ==
  [m \in Machines |->
     LET n == Cardinality({x \in Free : x <= m})
     IN  IF m \in Rows \/ n > Len(wanted) THEN machines[m]
         ELSE NewRow(wanted[n].names[f[n]], c, wanted[n].selector, wanted[n].cards,
                     wanted[n].type)]

Added(req, wanted) ==
  /\ Cardinality(Free) >= Len(wanted)
  /\ Close(req)
  /\ IF NameChoices(wanted) = {} THEN UNCHANGED <<machines, page>>
     ELSE \E f \in NameChoices(wanted) :
            /\ machines' = AddRows(req.on, wanted, f)
            /\ page' = page \union {m \in Free : machines'[m] # NoRow}
  /\ UNCHANGED <<site, clusters, groups, campaigns, fleet, world, asks, news, moved, stale>>

\* A registration that is refused when it is decided.
Refused(req) ==
  /\ Close(req)
  /\ UNCHANGED <<site, registry, fleet, world, asks, news, ghosts>>

\* register_nodes: one machine per node, pinned by host name; a node of a
\* registered pool is refused, one already registered is skipped.
register_nodes(req) ==
  /\ req.op = "nodes"
  /\ LET v == req.seen
         known == req.what \subseteq gpu_nodes(v.nodes)
         pooled == {h \in req.what \intersect gpu_nodes(v.nodes) :
                      v.nodes[h].product \in Pooled(v) /\ h \notin Singles(v)}
         new == SetToSeq(req.what \ Singles(v))
         row(h) == [names |-> <<<<h>>, <<req.on, h>>>>,
                    selector |-> [by |-> "host", of |-> h],
                    cards |-> v.nodes[h].cards, type |-> TypeOfNode(v.nodes[h])]
     IN IF v.readable /\ known /\ pooled = {} /\ clusters[req.on] # None
        THEN Added(req, [i \in DOMAIN new |-> row(new[i])])
        ELSE Refused(req)

\* register_pools: one machine per product; a product some of whose nodes are
\* registered on their own is refused.
register_pools(req) ==
  /\ req.op = "pools"
  /\ LET v == req.seen
         known == req.what \subseteq Pools(v) /\ req.what # {}
         split == {p \in req.what : PoolNodes(v, p) \intersect Singles(v) # {} /\ p \notin Pooled(v)}
         new == SetToSeq(req.what \ Pooled(v))
         usable(p) == {h \in PoolNodes(v, p) : node_takes_pods(v.nodes[h])}
         kind(p) == IF CardType[p] # "" THEN CardType[p] ELSE p
         row(p) == [names |-> <<<<req.on, kind(p)>>, <<req.on, p>>>>,
                    selector |-> [by |-> "product", of |-> p],
                    cards |-> CardsOf(v.nodes, usable(p)), type |-> CardType[p]]
     IN IF v.readable /\ known /\ split = {} /\ clusters[req.on] # None
        THEN Added(req, [i \in DOMAIN new |-> row(new[i])])
        ELSE Refused(req)

\* _register_namespace_pool: one machine for a namespace whose nodes cannot be
\* read, sized by its quota, if the cluster has no other machine.
register_namespace_pool(req) ==
  /\ req.op = "namespace"
  /\ IF ~req.seen.readable /\ req.seen.quota # None /\ On(req.on) = {} /\ clusters[req.on] # None
     THEN Added(req, <<[names |-> <<<<req.on>>, <<req.on, "pool">>>>,
                        selector |-> [by |-> "all", of |-> None],
                        cards |-> req.seen.quota, type |-> ""]>>)
     ELSE Refused(req)
-----------------------------------------------------------------------------
(* Machines.                                                                *)

Fields == {"name", "driver", "cluster", "selector", "gpu_count"}

\* A row with a form's fields; an absent count keeps the stored one.
Filled(row, b) ==
  [f \in DOMAIN row |-> IF f \notin Fields \/ (f = "gpu_count" /\ b.gpu_count = 0)
                        THEN row[f] ELSE b[f]]

\* create_machine: the name is free, the probe or the form gives it cards.
create_machine(m, b) ==
  /\ Ask("hand") /\ m \in Free /\ m = Min(Free)
  /\ b.name \notin TakenNames
  /\ b.cluster # None => clusters[b.cluster] # None
  /\ LET row == Filled(NewRow(b.name, None, b.selector, 0, ""), b) IN
       /\ Applies(row)
       /\ machines' = [machines EXCEPT ![m] = record_capacity(row, probe_capacity(row))]
  /\ UNCHANGED <<site, clusters, groups, campaigns, fleet, world, requests, news, ghosts>>

\* _blocking_campaigns: unfinished campaigns pinned to the machine by name.
blocking_campaigns(m) ==
  {k \in Campaigns : campaigns[k] # None /\ campaigns[k].status # "DONE"
                     /\ machines[m].name \in campaigns[k].pins}

\* _guard_in_use: what an edit and a removal check first.
guard_in_use(m) == blocking_campaigns(m) = {} /\ machines[m].state # "RESERVED"

\* update_machine up to its probe: checked, not yet written.
update_machine(m, b) ==
  /\ Ask("edit") /\ m \in Rows /\ Cardinality(requests) < site.open
  /\ guard_in_use(m)
  /\ b.name \notin TakenNames \ {machines[m].name}
  /\ Open([op |-> "edit", on |-> m, what |-> b, seen |-> machines[m]])
  /\ UNCHANGED <<site, registry, fleet, world, news, ghosts>>

\* The columns an edit writes: those its form or its probe changed.
Written(req) ==
  LET loaded == req.seen
      full == Filled(loaded, req.what)
      read == record_capacity(full, probe_capacity(full))
      now == machines[req.on]
  IN [f \in DOMAIN now |-> IF read[f] # loaded[f] THEN read[f] ELSE now[f]]

\* update_machine from its probe on: the write fails when the row is gone, its
\* name was taken or its cluster deleted meanwhile.
write_machine(req) ==
  /\ req.op = "edit"
  /\ LET m == req.on IN
     IF /\ m \in Rows
        /\ Applies(Filled(req.seen, req.what))
        /\ req.what.name \notin TakenNames \ {machines[m].name}
        /\ req.what.cluster # None => clusters[req.what.cluster] # None
     THEN /\ Close(req)
          /\ machines' = [machines EXCEPT ![m] = Written(req)]
          /\ page' = page \ {m}
          /\ UNCHANGED <<site, clusters, groups, campaigns, fleet, world, asks, news, moved, stale>>
     ELSE Refused(req)

\* POST /machines/{id}/probe-capacity: the cards are read again.
reread_machine(m) ==
  /\ Ask("edit") /\ m \in Rows
  /\ probe_capacity(machines[m]).supported /\ Applies(machines[m])
  /\ machines' = [machines EXCEPT ![m] = record_capacity(@, probe_capacity(@))]
  /\ UNCHANGED <<site, clusters, groups, campaigns, fleet, world, requests, news, ghosts>>

\* The node groups a machine is in.
groups_of(m) == {g \in Groups : m \in Range(groups[g])}

\* delete_machine: not pinned, not held, in no group; its finished runs are
\* detached.
delete_machine(m) ==
  /\ Ask("edit") /\ m \in Rows /\ guard_in_use(m)
  /\ groups_of(m) = {}
  /\ machines' = [machines EXCEPT ![m] = NoRow]
  /\ runs' = [r \in Runs |-> IF runs[r].machine = m THEN [runs[r] EXCEPT !.machine = None]
                             ELSE runs[r]]
  /\ page' = page \ {m}
  /\ UNCHANGED <<site, clusters, groups, campaigns, pods, cache, world, requests, news, moved, stale>>

\* set_machine_state: the borrow and return of a machine by hand.
set_machine_state(m, s) ==
  /\ "lease" \in site.ops /\ m \in Rows /\ machines[m].state \notin {"RESERVED", s}
  /\ machines' = [machines EXCEPT ![m].state = s]
  /\ UNCHANGED <<site, clusters, groups, campaigns, fleet, world, requests, asks, news, ghosts>>
-----------------------------------------------------------------------------
(* Node groups.                                                             *)

\* _load_members: registered machines, each once, of one driver, cluster, card
\* type and count, in no other group.
load_members(ms, g) ==
  /\ ms # <<>> /\ Range(ms) \subseteq Rows /\ Cardinality(Range(ms)) = Len(ms)
  /\ \A i, j \in DOMAIN ms :
       \A f \in {"driver", "cluster", "gpu_type", "gpu_count"} :
         machines[ms[i]][f] = machines[ms[j]][f]
  /\ \A o \in Groups \ {g} : Range(groups[o]) \intersect Range(ms) = {}

\* create_group and the part of update_group that replaces the members.
set_group(g, ms) ==
  /\ Ask("group") /\ groups[g] # ms
  /\ load_members(ms, g)
  /\ groups' = [groups EXCEPT ![g] = ms]
  /\ UNCHANGED <<site, clusters, machines, campaigns, fleet, world, requests, news, ghosts>>

\* delete_group: no unfinished campaign deploys across it.
delete_group(g) ==
  /\ Ask("group") /\ groups[g] # <<>>
  /\ \A k \in Campaigns : campaigns[k] # None /\ campaigns[k].status # "DONE"
                            => campaigns[k].group # g
  /\ groups' = [groups EXCEPT ![g] = <<>>]
  /\ UNCHANGED <<site, clusters, machines, campaigns, fleet, world, requests, news, ghosts>>
-----------------------------------------------------------------------------
(* Campaigns and their runs, as far as the registry's guards see them.      *)

\* node_group_errors: a campaign's group exists and is not a cluster's.
node_group_errors(g) == g # None /\ (groups[g] = <<>>
                                     \/ \E m \in Range(groups[g]) : machines[m].driver = "k8s")

create_campaign(k, pins, g) ==
  /\ Ask("campaign") /\ campaigns[k] = None /\ ~node_group_errors(g)
  /\ campaigns' = [campaigns EXCEPT ![k] = [status |-> "ACTIVE", pins |-> pins, group |-> g]]
  /\ UNCHANGED <<site, clusters, machines, groups, fleet, world, requests, news, ghosts>>

\* set_campaign_status: done only when it is not running.
set_campaign_status(k, s) ==
  /\ Ask("campaign") /\ campaigns[k] # None /\ campaigns[k].status # s
  /\ s = "DONE" => /\ campaigns[k].status # "ACTIVE"
                   /\ \A r \in Runs : ~(runs[r].status = "live" /\ runs[r].campaign = k)
  /\ campaigns' = [campaigns EXCEPT ![k].status = s]
  /\ UNCHANGED <<site, clusters, machines, groups, fleet, world, requests, news, ghosts>>

\* resolve_cluster in the worker: what it cached, or the row, or the default.
resolve_cluster(c) ==
  IF c = None THEN NoPlace
  ELSE IF cache[c] # None THEN cache[c]
  ELSE IF clusters[c] = None THEN NoPlace
  ELSE [cluster |-> c, namespace |-> clusters[c].namespace, kind |-> clusters[c].kind]

\* Where the worker's driver for a machine looks (_driver_for).
Place(row) == IF row.driver = "k8s" THEN resolve_cluster(row.cluster)
              ELSE [NoPlace EXCEPT !.kind = "ssh_docker"]

Cached(row) == IF row.driver = "k8s" /\ row.cluster # None /\ clusters[row.cluster] # None
               THEN [cache EXCEPT ![row.cluster] = resolve_cluster(row.cluster)] ELSE cache

\* The row as it is, cache aside.
PlaceNow(row) ==
  IF row.driver # "k8s" THEN [NoPlace EXCEPT !.kind = "ssh_docker"]
  ELSE IF row.cluster = None \/ clusters[row.cluster] = None THEN NoPlace
  ELSE [cluster |-> row.cluster, namespace |-> clusters[row.cluster].namespace,
        kind |-> clusters[row.cluster].kind]

\* A tick launches a run on a leased machine with a card to spare: its pods go
\* where the worker's settings say.
Launch(r, k, m) ==
  /\ runs[r].status = None /\ campaigns[k] # None /\ campaigns[k].status = "ACTIVE"
  /\ m \in Rows /\ machines[m].state # "AWAY"
  /\ campaigns[k].pins = {} \/ machines[m].name \in campaigns[k].pins
  /\ campaigns[k].group = None
  /\ Cardinality(LiveOn(m)) < machines[m].gpu_count
  /\ Place(machines[m]) # NoPlace
  /\ runs' = [runs EXCEPT ![r] = [status |-> "live", machine |-> m, campaign |-> k]]
  /\ pods' = [pods EXCEPT ![r] = Place(machines[m])]
  /\ cache' = Cached(machines[m])
  /\ machines' = [machines EXCEPT ![m].state = "RESERVED"]
  /\ stale' = IF \/ Place(machines[m]) # PlaceNow(machines[m])
                 \/ \E q \in requests : q.op = "edit" /\ q.on = m
              THEN stale \union {r} ELSE stale
  /\ UNCHANGED <<site, clusters, groups, campaigns, world, requests, asks, news, page, moved>>

\* _release_machine: free again once nothing holds it.
Released(m, r) == IF \E o \in LiveOn(m) : o # r THEN machines
                  ELSE [machines EXCEPT ![m].state = "AVAILABLE"]

\* A run ends: the driver deletes what it finds where its settings say, and a
\* run whose pods it does not find there counts as gone.  Unconfirmed, the
\* teardown stays pending and the machine held.
EndRun(r, confirmed) ==
  /\ Live(r) /\ runs[r].machine \in Rows
  /\ LET m == runs[r].machine
         found == Place(machines[m]) = pods[r]
         over == ~found \/ confirmed
     IN /\ runs' = [runs EXCEPT ![r].status = IF over THEN "over" ELSE "pending"]
        /\ pods' = IF found /\ confirmed THEN [pods EXCEPT ![r] = None] ELSE pods
        /\ cache' = Cached(machines[m])
        /\ machines' = IF over THEN Released(m, r) ELSE machines
  /\ <<runs, pods, cache, machines>>' # <<runs, pods, cache, machines>>
  /\ UNCHANGED <<site, clusters, groups, campaigns, world, requests, asks, news, ghosts>>

\* The 15 seconds of a cached row pass.
Expire(c) ==
  /\ cache[c] # None
  /\ cache' = [cache EXCEPT ![c] = None]
  /\ UNCHANGED <<site, registry, runs, pods, world, requests, asks, news, ghosts>>

\* _refresh_k8s_capacity: the leased cluster machines are read again.
refresh_k8s_capacity ==
  /\ "refresh" \in site.ops
  /\ machines' = [m \in Machines |->
       IF m \in Rows /\ machines[m].driver = "k8s" /\ machines[m].state # "AWAY"
       THEN record_capacity(machines[m], probe_capacity(machines[m])) ELSE machines[m]]
  /\ machines' # machines
  /\ UNCHANGED <<site, clusters, groups, campaigns, fleet, world, requests, asks, news, ghosts>>
-----------------------------------------------------------------------------
(* The clusters themselves.                                                 *)

\* A node is cordoned or let back, or stops answering and comes back.
NodeChanges(c, h) ==
  /\ news > 0 /\ "node" \in site.ops /\ h \in DOMAIN world[c].nodes
  /\ \/ world' = [world EXCEPT ![c].nodes[h].cordoned = ~@]
     \/ world' = [world EXCEPT ![c].nodes[h].ready = ~@]
  /\ news' = news - 1
  /\ UNCHANGED <<site, registry, fleet, requests, asks, ghosts>>

\* What the credential may read changes, or a node is labelled anew.
AccessChanges(c, a) ==
  /\ news > 0 /\ "access" \in site.ops /\ world[c].access # a
  /\ world' = [world EXCEPT ![c].access = a]
  /\ news' = news - 1 /\ moved' = moved \union {c}
  /\ UNCHANGED <<site, registry, fleet, requests, asks, page, stale>>

Relabelled(c, h, p) ==
  /\ news > 0 /\ "label" \in site.ops /\ h \in DOMAIN world[c].nodes
  /\ world[c].nodes[h].product # p
  /\ world' = [world EXCEPT ![c].nodes[h].product = p]
  /\ news' = news - 1 /\ moved' = moved \union {c}
  /\ UNCHANGED <<site, registry, fleet, requests, asks, page, stale>>
-----------------------------------------------------------------------------
ClusterRequests == \E c \in Clusters : \/ \E s \in Spots, k \in BOOLEAN : create_cluster(c, s, k)
                                       \/ \E s \in Spots : update_cluster(c, s)
                                       \/ delete_cluster(c)
Registrations ==
  \/ \E c \in Clusters : \/ \E hs \in (SUBSET Hosts) \ {{}} : OpenRegistration(c, "nodes", hs)
                         \/ \E ps \in SUBSET Products : OpenRegistration(c, "pools", ps)
                         \/ OpenRegistration(c, "namespace", {})
  \/ \E q \in requests : register_nodes(q) \/ register_pools(q) \/ register_namespace_pool(q)
MachineRequests ==
  \/ \E m \in Machines : \/ \E b \in Forms : create_machine(m, b) \/ update_machine(m, b)
                         \/ reread_machine(m) \/ delete_machine(m)
                         \/ \E s \in {"AWAY", "AVAILABLE"} : set_machine_state(m, s)
  \/ \E q \in requests : write_machine(q)
GroupRequests == \E g \in Groups : \/ \E ms \in SeqOf(Machines, 2) : set_group(g, ms)
                                   \/ delete_group(g)
CampaignRequests ==
  \E k \in Campaigns :
    \/ \E pins \in {{}} \union {{n} : n \in TakenNames}, g \in Groups \union {None} :
         create_campaign(k, pins, g)
    \/ \E s \in {"ACTIVE", "PAUSED", "DONE"} : set_campaign_status(k, s)
Worker == \/ \E r \in Runs : \/ \E k \in Campaigns, m \in Machines : Launch(r, k, m)
                             \/ \E ok \in BOOLEAN : EndRun(r, ok)
          \/ \E c \in Clusters : Expire(c)
          \/ refresh_k8s_capacity
World == \E c \in Clusters : \/ \E h \in Hosts : NodeChanges(c, h)
                             \/ \E a \in {"readable", "forbidden", "down"} : AccessChanges(c, a)
                             \/ \E h \in Hosts, p \in Products : Relabelled(c, h, p)

Next == ClusterRequests \/ Registrations \/ MachineRequests \/ GroupRequests
        \/ CampaignRequests \/ Worker \/ World

Spec == Init /\ [][Next]_vars
-----------------------------------------------------------------------------

\* A run's pods stay where the platform looks for them for as long as they
\* stand, whatever is edited, removed or registered meanwhile (update_cluster:
\* "changing either under live work would leave those pods holding GPUs,
\* unreachable"; update_machine and delete_machine guard the machine the same
\* way) - except a run launched from settings an edit had just replaced, or
\* while an edit of its machine was being decided.
KeptInReach ==
  \A r \in Runs \ stale : pods[r] # None =>
    /\ Live(r) /\ runs[r].machine \in Rows
    /\ PlaceNow(machines[runs[r].machine]) = pods[r]

\* The machines registered from a cluster's page never promise more cards than
\* the cluster's nodes have, as long as its nodes and permissions stay what
\* they were and one registration is decided at a time (register_nodes:
\* "already part of a registered pool, so their cards would count twice").
CountedOnce ==
  \A c \in Clusters \ moved :
    site.open < 2 =>
      SumOf([m \in On(c) \intersect page |-> machines[m].gpu_count])
        <= IF world[c].access = "readable" THEN CardsOf(world[c].nodes, DOMAIN world[c].nodes)
           ELSE IF world[c].quota = None THEN 0 ELSE world[c].quota
=============================================================================

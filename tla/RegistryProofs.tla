--------------------------- MODULE RegistryProofs ---------------------------
(***************************************************************************)
(* That a run's pods stay in reach (KeptInReach), for every registry, every  *)
(* number of runs and requests and every order of them.                      *)
(*                                                                          *)
(* KeptInReach is not inductive.  A teardown that does not find the pods     *)
(* where the worker's settings say counts them as gone, so what the worker   *)
(* cached has to agree with the row for as long as the pods stand (Reach);    *)
(* an edit is checked before it is written, so what it found free has to     *)
(* stay free of every run the property speaks of (EditOK); and that rests    *)
(* on a machine under a live run being RESERVED (Held).                      *)
(*                                                                          *)
(* And that no card is handed out twice (CountedOnce): the second half.      *)
(***************************************************************************)
EXTENDS Registry, FiniteSetTheorems, TLAPS

RowFields == {"name", "driver", "cluster", "selector", "gpu_count", "gpu_type", "state"}
RunFields == {"status", "machine", "campaign"}

IsRow(x) == /\ DOMAIN x = RowFields
            /\ x.driver \in {"ssh_docker", "k8s"}
            /\ x.cluster \in Clusters \union {None}

Shapes == /\ DOMAIN machines = Machines /\ DOMAIN runs = Runs /\ DOMAIN pods = Runs
          /\ DOMAIN clusters = Clusters /\ DOMAIN cache = Clusters
          /\ \A m \in Machines : machines[m] = NoRow \/ IsRow(machines[m])
          /\ \A r \in Runs : DOMAIN runs[r] = RunFields

\* A live run stands on a registered machine, which it holds.
Held == \A r \in Runs : Live(r) => /\ runs[r].machine \in Rows
                                   /\ machines[runs[r].machine].state = "RESERVED"

\* An open edit found its machine free: the runs there since are the ones
\* launched while it was being decided.
EditOK(q) == /\ q.what \in Forms /\ IsRow(q.seen)
             /\ \A r \in Runs : Live(r) /\ runs[r].machine = q.on => r \in stale
RequestsOK == \A q \in requests : IF q.op = "edit" THEN EditOK(q) ELSE q.on \in Clusters

\* The pods are where the row says, and where the worker would look.
InReach(r) ==
  r \notin stale /\ pods[r] # None =>
    /\ Live(r)
    /\ pods[r] # NoPlace
    /\ PlaceNow(machines[runs[r].machine]) = pods[r]
    /\ Place(machines[runs[r].machine]) = pods[r]
Reach == \A r \in Runs : InReach(r)

\* The inductive invariant.
RegInv == Shapes /\ Held /\ RequestsOK /\ Reach

-----------------------------------------------------------------------------
(* Rows. *)

LEMMA RowIsThere == ASSUME NEW x, IsRow(x) PROVE x # NoRow
<1>1. NoRow.driver = "none"
  BY Zenon DEF NoRow
<1>2. x.driver # "none"
  BY SMT DEF IsRow
<1> QED BY <1>1, <1>2, Zenon

LEMMA StateSet ==
  ASSUME NEW x, IsRow(x), NEW s
  PROVE  LET y == [x EXCEPT !.state = s] IN
         IsRow(y) /\ y.driver = x.driver /\ y.cluster = x.cluster /\ y.state = s
BY SMT DEF IsRow, RowFields

LEMMA CapacityKeeps ==
  ASSUME NEW x, IsRow(x), NEW probe
  PROVE  LET y == record_capacity(x, probe) IN
         IsRow(y) /\ y.driver = x.driver /\ y.cluster = x.cluster /\ y.state = x.state
<1>1. ASSUME NEW n, NEW t
      PROVE  LET y == [x EXCEPT !.gpu_count = n, !.gpu_type = t] IN
             IsRow(y) /\ y.driver = x.driver /\ y.cluster = x.cluster /\ y.state = x.state
  BY SMT DEF IsRow, RowFields
<1> DEFINE ty == IF probe.gpu_type # "" THEN probe.gpu_type ELSE x.gpu_type
<1>2. \/ record_capacity(x, probe) = x
      \/ record_capacity(x, probe) = [x EXCEPT !.gpu_count = probe.gpu_count, !.gpu_type = ty]
  BY Zenon DEF record_capacity
<1> HIDE DEF ty
<1>3. CASE record_capacity(x, probe) = x
  BY <1>3, Zenon
<1>4. CASE record_capacity(x, probe) = [x EXCEPT !.gpu_count = probe.gpu_count, !.gpu_type = ty]
  <2> DEFINE n == probe.gpu_count
             y == [x EXCEPT !.gpu_count = n, !.gpu_type = ty]
  <2> HIDE DEF n
  <2>1. IsRow(y) /\ y.driver = x.driver /\ y.cluster = x.cluster /\ y.state = x.state
    BY <1>1, Zenon
  <2> QED BY <1>4, <2>1, Zenon DEF n
<1> QED BY <1>2, <1>3, <1>4, Zenon

LEMMA FilledIs ==
  ASSUME NEW x, IsRow(x), NEW b \in Forms
  PROVE  IsRow(Filled(x, b)) /\ Filled(x, b).state = x.state
<1>1. /\ b.driver \in {"ssh_docker", "k8s"} /\ b.cluster \in Clusters \union {None}
  BY FormsAssumption, Zenon DEF FormOK
<1>2. DOMAIN x = RowFields
  BY DEF IsRow
<1>3. Filled(x, b) = [f \in RowFields |-> IF f \notin Fields \/ (f = "gpu_count" /\ b.gpu_count = 0)
                                          THEN x[f] ELSE b[f]]
  BY <1>2, Zenon DEF Filled
<1>4. /\ DOMAIN Filled(x, b) = RowFields
      /\ Filled(x, b).driver = b.driver /\ Filled(x, b).cluster = b.cluster
      /\ Filled(x, b).state = x.state
  BY <1>3, SMT DEF RowFields, Fields
<1> QED BY <1>1, <1>4, Zenon DEF IsRow

LEMMA NewRowIs ==
  ASSUME NEW n, NEW c \in Clusters \union {None}, NEW s, NEW k, NEW t
  PROVE  IsRow(NewRow(n, c, s, k, t))
BY SMT DEF IsRow, NewRow, RowFields

-----------------------------------------------------------------------------
(* Steps that leave the runs, the clusters and the cache alone. *)

\* A row that another may replace under a run: the same driver and cluster, and
\* held if it was.
Stays(x, y) == /\ IsRow(y) /\ y.driver = x.driver /\ y.cluster = x.cluster
               /\ x.state = "RESERVED" => y.state = "RESERVED"

\* Where a row's pods land depends on its driver and its cluster.
LEMMA SamePlace ==
  ASSUME NEW x, NEW y, y.driver = x.driver, y.cluster = x.cluster
  PROVE  PlaceNow(y) = PlaceNow(x) /\ Place(y) = Place(x)
BY Zenon DEF PlaceNow, Place

LEMMA Quiet ==
  ASSUME RegInv, UNCHANGED <<clusters, runs, pods, cache, stale>>,
         DOMAIN machines' = Machines,
         \A m \in Machines : \/ machines'[m] = machines[m]
                             \/ m \notin Rows /\ IsRow(machines'[m])
                             \/ m \in Rows /\ Stays(machines[m], machines'[m]),
         RequestsOK'
  PROVE  RegInv'
<1>1. Shapes'
  BY SMT DEF RegInv, Shapes, Stays
<1>2. ASSUME NEW m \in Rows
      PROVE  /\ m \in Rows' /\ machines'[m].driver = machines[m].driver
             /\ machines'[m].cluster = machines[m].cluster
             /\ machines[m].state = "RESERVED" => machines'[m].state = "RESERVED"
  <2>1. m \in Machines /\ machines[m] # NoRow
    BY DEF Rows
  <2>2. CASE machines'[m] = machines[m]
    BY <2>1, <2>2, Zenon DEF Rows
  <2>3. CASE Stays(machines[m], machines'[m])
    <3>1. machines'[m] # NoRow
      BY <2>3, RowIsThere, Zenon DEF Stays
    <3> QED BY <2>1, <2>3, <3>1, Zenon DEF Rows, Stays
  <2> QED BY <2>1, <2>2, <2>3, Zenon
<1>3. \A r \in Runs : Live(r)' <=> Live(r)
  BY Zenon DEF Live
<1>4. Held'
  <2> SUFFICES ASSUME NEW r \in Runs, Live(r)'
      PROVE  runs'[r].machine \in Rows' /\ machines'[runs'[r].machine].state = "RESERVED"
    BY Zenon DEF Held
  <2>1. runs' = runs
    OBVIOUS
  <2>2. runs[r].machine \in Rows /\ machines[runs[r].machine].state = "RESERVED"
    BY <1>3, Zenon DEF RegInv, Held
  <2> QED BY <1>2, <2>1, <2>2, Zenon
<1>5. Reach'
  <2> SUFFICES ASSUME NEW r \in Runs, r \notin stale, pods[r] # None
      PROVE  /\ Live(r)' /\ pods[r] # NoPlace
             /\ PlaceNow(machines[runs[r].machine])' = pods[r]
             /\ Place(machines[runs[r].machine])' = pods[r]
    BY Zenon DEF Reach, InReach
  <2> DEFINE m == runs[r].machine
  <2>1. /\ Live(r) /\ pods[r] # NoPlace
        /\ PlaceNow(machines[m]) = pods[r] /\ Place(machines[m]) = pods[r]
    BY Zenon DEF RegInv, Reach, InReach
  <2>2. m \in Rows
    BY <2>1, Zenon DEF RegInv, Held
  <2>3. machines'[m].driver = machines[m].driver /\ machines'[m].cluster = machines[m].cluster
    BY <1>2, <2>2, Zenon
  <2>4. PlaceNow(machines'[m]) = PlaceNow(machines[m]) /\ Place(machines'[m]) = Place(machines[m])
    BY <2>3, SamePlace, Zenon
  <2>5. /\ PlaceNow(machines[m])' = PlaceNow(machines'[m])
        /\ Place(machines[m])' = Place(machines'[m])
    BY Zenon DEF PlaceNow, Place, resolve_cluster
  <2> QED BY <1>3, <2>1, <2>4, <2>5, Zenon
<1> QED BY <1>1, <1>4, <1>5, Zenon DEF RegInv

\* The requests that are left of those that were open are as they should be.
LEMMA FewerRequests ==
  ASSUME RequestsOK, UNCHANGED <<runs, stale>>, requests' \subseteq requests
  PROVE  RequestsOK'
BY Zenon DEF RequestsOK, EditOK, Live

LEMMA OneMoreRequest ==
  ASSUME RequestsOK, UNCHANGED <<runs, stale>>, NEW q, Open(q),
         IF q.op = "edit" THEN EditOK(q) ELSE q.on \in Clusters
  PROVE  RequestsOK'
<1> SUFFICES ASSUME NEW p \in requests'
    PROVE  IF p.op = "edit" THEN EditOK(p)' ELSE p.on \in Clusters
  BY Zenon DEF RequestsOK
<1>1. p \in requests \/ p = q
  BY DEF Open
<1>2. IF p.op = "edit" THEN EditOK(p) ELSE p.on \in Clusters
  BY <1>1, Zenon DEF RequestsOK
<1>3. EditOK(p)' <=> EditOK(p)
  BY Zenon DEF EditOK, Live
<1> QED BY <1>2, <1>3, Zenon

LEMMA NothingMoves ==
  ASSUME RegInv, UNCHANGED <<clusters, runs, pods, cache, stale, machines>>, RequestsOK'
  PROVE  RegInv'
<1>1. DOMAIN machines' = Machines
  BY Zenon DEF RegInv, Shapes
<1> QED BY <1>1, Quiet, Zenon

-----------------------------------------------------------------------------
(* Registrations. *)

LEMMA StepOpenRegistration ==
  ASSUME RegInv, NEW c \in Clusters, NEW op \in {"nodes", "pools", "namespace"}, NEW what,
         OpenRegistration(c, op, what)
  PROVE  RegInv'
<1> DEFINE v == nodes_view(c)
           q == [op |-> op, on |-> c, what |-> what, seen |-> v]
<1>1. UNCHANGED <<clusters, runs, pods, cache, stale, machines>> /\ Open(q)
  BY Zenon DEF OpenRegistration, registry, fleet, ghosts
<1> HIDE DEF v
<1>2. q.op = op /\ q.on = c /\ op # "edit"
  BY SMT
<1> HIDE DEF q
<1>3. RequestsOK'
  BY <1>1, <1>2, OneMoreRequest, Zenon DEF RegInv
<1> QED BY <1>1, <1>3, NothingMoves, Zenon

LEMMA StepRefused ==
  ASSUME RegInv, NEW q, Refused(q)
  PROVE  RegInv'
<1>1. UNCHANGED <<clusters, runs, pods, cache, stale, machines>>
  BY Zenon DEF Refused, registry, fleet, ghosts
<1>2. requests' \subseteq requests
  BY DEF Refused, Close
<1>3. RequestsOK'
  BY <1>1, <1>2, FewerRequests, Zenon DEF RegInv
<1> QED BY <1>1, <1>3, NothingMoves, Zenon

LEMMA StepAdded ==
  ASSUME RegInv, NEW q, q.on \in Clusters, NEW wanted, Added(q, wanted)
  PROVE  RegInv'
<1>1. UNCHANGED <<clusters, runs, pods, cache, stale>>
  BY Zenon DEF Added, fleet
<1>2. requests' \subseteq requests
  BY DEF Added, Close
<1>3. RequestsOK'
  BY <1>1, <1>2, FewerRequests, Zenon DEF RegInv
<1>4. CASE UNCHANGED machines
  BY <1>1, <1>3, <1>4, NothingMoves, Zenon
<1>5. ASSUME NEW f, machines' = AddRows(q.on, wanted, f) PROVE RegInv'
  <2>1. DOMAIN machines' = Machines
    BY <1>5, Zenon DEF AddRows
  <2>2. ASSUME NEW m \in Machines
        PROVE  machines'[m] = machines[m] \/ (m \notin Rows /\ IsRow(machines'[m]))
    <3> DEFINE n == Cardinality({x \in Free : x <= m})
               w == NewRow(wanted[n].names[f[n]], q.on, wanted[n].selector, wanted[n].cards,
                           wanted[n].type)
    <3>1. machines'[m] = IF m \in Rows \/ n > Len(wanted) THEN machines[m] ELSE w
      BY <1>5, Zenon DEF AddRows
    <3>2. IsRow(w)
      BY NewRowIs, Zenon
    <3> HIDE DEF n, w
    <3> QED BY <3>1, <3>2, Zenon
  <2> QED BY <1>1, <1>3, <2>1, <2>2, Quiet, Zenon
<1> QED BY <1>4, <1>5, Zenon DEF Added

LEMMA StepRegisters ==
  ASSUME RegInv, NEW q \in requests,
         register_nodes(q) \/ register_pools(q) \/ register_namespace_pool(q)
  PROVE  RegInv'
<1>1. q.op # "edit"
  BY DEF register_nodes, register_pools, register_namespace_pool
<1>2. q.on \in Clusters
  BY <1>1, Zenon DEF RegInv, RequestsOK
<1>3. Refused(q) \/ \E wanted : Added(q, wanted)
  BY Zenon DEF register_nodes, register_pools, register_namespace_pool
<1> QED BY <1>2, <1>3, StepRefused, StepAdded, Zenon

-----------------------------------------------------------------------------
(* Machines, as the forms and the probes change them. *)

LEMMA StepCreateMachine ==
  ASSUME RegInv, NEW m \in Machines, NEW b \in Forms, create_machine(m, b)
  PROVE  RegInv'
<1> DEFINE new == NewRow(b.name, None, b.selector, 0, "")
           row == Filled(new, b)
           pr == probe_capacity(row)
<1>1. /\ UNCHANGED <<clusters, runs, pods, cache, stale, requests>>
      /\ machines' = [machines EXCEPT ![m] = record_capacity(row, pr)] /\ m \in Free
  BY Zenon DEF create_machine, fleet, ghosts
<1>2. IsRow(record_capacity(row, pr))
  <2>1. IsRow(new)
    BY NewRowIs, Zenon
  <2> HIDE DEF new, pr
  <2>2. IsRow(row)
    BY <2>1, FilledIs, Zenon
  <2> HIDE DEF row
  <2> QED BY <2>2, CapacityKeeps, Zenon
<1> HIDE DEF row, pr
<1>3. RequestsOK'
  BY <1>1, FewerRequests, SMT DEF RegInv
<1>4. DOMAIN machines' = Machines /\ DOMAIN machines = Machines
  BY <1>1, SMT DEF RegInv, Shapes
<1>5. m \notin Rows
  BY <1>1, Zenon DEF Free
<1>6. \A x \in Machines : machines'[x] = machines[x] \/ (x \notin Rows /\ IsRow(machines'[x]))
  BY <1>1, <1>2, <1>4, <1>5, Zenon
<1> QED BY <1>1, <1>3, <1>4, <1>6, Quiet, Zenon

LEMMA StepUpdateMachine ==
  ASSUME RegInv, NEW m \in Machines, NEW b \in Forms, update_machine(m, b)
  PROVE  RegInv'
<1> DEFINE q == [op |-> "edit", on |-> m, what |-> b, seen |-> machines[m]]
<1>1. /\ UNCHANGED <<clusters, runs, pods, cache, stale, machines>> /\ Open(q)
      /\ m \in Rows /\ machines[m].state # "RESERVED"
  BY Zenon DEF update_machine, guard_in_use, registry, fleet, ghosts
<1>2. q.op = "edit" /\ q.on = m /\ q.what = b /\ q.seen = machines[m]
  BY SMT
<1> HIDE DEF q
<1>3. IsRow(machines[m])
  BY <1>1, Zenon DEF RegInv, Shapes, Rows
<1>4. \A r \in Runs : ~(Live(r) /\ runs[r].machine = m)
  BY <1>1, Zenon DEF RegInv, Held
<1>5. EditOK(q)
  BY <1>2, <1>3, <1>4, Zenon DEF EditOK
<1>6. RequestsOK'
  BY <1>1, <1>2, <1>5, OneMoreRequest, Zenon DEF RegInv
<1> QED BY <1>1, <1>6, NothingMoves, Zenon

\* One row is replaced by one that is the same to the runs on it.
LEMMA OneRow ==
  ASSUME RegInv, NEW m \in Rows, NEW y, Stays(machines[m], y),
         UNCHANGED <<clusters, runs, pods, cache, stale, requests>>,
         machines' = [machines EXCEPT ![m] = y]
  PROVE  RegInv'
<1>1. RequestsOK'
  BY FewerRequests, SMT DEF RegInv
<1>2. DOMAIN machines' = Machines /\ DOMAIN machines = Machines
  BY SMT DEF RegInv, Shapes
<1>3. \A x \in Machines : machines'[x] = machines[x] \/ (x \in Rows /\ Stays(machines[x], machines'[x]))
  BY <1>2, Zenon
<1> QED BY <1>1, <1>2, <1>3, Quiet, Zenon

LEMMA StepReread ==
  ASSUME RegInv, NEW m \in Machines, reread_machine(m)
  PROVE  RegInv'
<1> DEFINE y == record_capacity(machines[m], probe_capacity(machines[m]))
<1>1. /\ UNCHANGED <<clusters, runs, pods, cache, stale, requests>>
      /\ machines' = [machines EXCEPT ![m] = y] /\ m \in Rows
  BY Zenon DEF reread_machine, fleet, ghosts
<1>2. IsRow(machines[m])
  BY <1>1, Zenon DEF RegInv, Shapes, Rows
<1>3. Stays(machines[m], y)
  BY <1>2, CapacityKeeps, Zenon DEF Stays
<1> HIDE DEF y
<1> QED BY <1>1, <1>3, OneRow, Zenon

LEMMA StepSetState ==
  ASSUME RegInv, NEW m \in Machines, NEW s, set_machine_state(m, s)
  PROVE  RegInv'
<1> DEFINE y == [machines[m] EXCEPT !.state = s]
<1>1. /\ UNCHANGED <<clusters, runs, pods, cache, stale, requests>>
      /\ machines' = [machines EXCEPT ![m] = y] /\ m \in Rows
      /\ machines[m].state # "RESERVED"
  BY Zenon DEF set_machine_state, fleet, ghosts
<1>2. IsRow(machines[m])
  BY <1>1, Zenon DEF RegInv, Shapes, Rows
<1>3. Stays(machines[m], y)
  BY <1>1, <1>2, StateSet, Zenon DEF Stays
<1> HIDE DEF y
<1> QED BY <1>1, <1>3, OneRow, Zenon

LEMMA StepRefresh ==
  ASSUME RegInv, refresh_k8s_capacity
  PROVE  RegInv'
<1>1. UNCHANGED <<clusters, runs, pods, cache, stale, requests>>
  BY Zenon DEF refresh_k8s_capacity, fleet, ghosts
<1>2. DOMAIN machines' = Machines
  BY Zenon DEF refresh_k8s_capacity
<1>3. ASSUME NEW m \in Machines
      PROVE  machines'[m] = machines[m] \/ (m \in Rows /\ Stays(machines[m], machines'[m]))
  <2> DEFINE y == record_capacity(machines[m], probe_capacity(machines[m]))
  <2>1. machines'[m] = machines[m] \/ (m \in Rows /\ machines'[m] = y)
    BY Zenon DEF refresh_k8s_capacity
  <2>2. ASSUME m \in Rows PROVE Stays(machines[m], y)
    <3>1. IsRow(machines[m])
      BY <2>2, Zenon DEF RegInv, Shapes, Rows
    <3> QED BY <3>1, CapacityKeeps, Zenon DEF Stays
  <2> HIDE DEF y
  <2> QED BY <2>1, <2>2, Zenon
<1>4. RequestsOK'
  BY <1>1, FewerRequests, SMT DEF RegInv
<1> QED BY <1>1, <1>2, <1>3, <1>4, Quiet, Zenon

\* Node groups, campaigns, and the clusters themselves.
LEMMA StepElsewhere ==
  ASSUME RegInv, UNCHANGED <<clusters, runs, pods, cache, stale, machines, requests>>
  PROVE  RegInv'
<1>1. RequestsOK'
  BY FewerRequests, SMT DEF RegInv
<1> QED BY <1>1, NothingMoves, Zenon

-----------------------------------------------------------------------------
(* Clusters and the cache. *)

\* The pods of a run stand where its row's driver and cluster say.
LEMMA Standing ==
  ASSUME RegInv, NEW r \in Runs, r \notin stale, pods[r] # None
  PROVE  /\ Live(r) /\ pods[r] # NoPlace /\ runs[r].machine \in Rows
         /\ IsRow(machines[runs[r].machine])
         /\ PlaceNow(machines[runs[r].machine]) = pods[r]
         /\ Place(machines[runs[r].machine]) = pods[r]
<1>1. /\ Live(r) /\ pods[r] # NoPlace
      /\ PlaceNow(machines[runs[r].machine]) = pods[r]
      /\ Place(machines[runs[r].machine]) = pods[r]
  BY Zenon DEF RegInv, Reach, InReach
<1>2. runs[r].machine \in Rows
  BY <1>1, Zenon DEF RegInv, Held
<1> QED BY <1>1, <1>2, Zenon DEF RegInv, Shapes, Rows

\* Only clusters and the cache change, and no place a run's pods stand at.
LEMMA ClustersMove ==
  ASSUME RegInv, UNCHANGED <<machines, runs, pods, stale, requests>>,
         DOMAIN clusters' = Clusters, DOMAIN cache' = Clusters,
         \A r \in Runs : \A x : r \notin stale /\ pods[r] # None /\ x = machines[runs[r].machine] =>
           PlaceNow(x)' = pods[r] /\ Place(x)' = pods[r]
  PROVE  RegInv'
<1>1. Shapes'
  BY Zenon DEF RegInv, Shapes
<1>2. Held'
  BY Zenon DEF RegInv, Held, Live, Rows
<1>3. RequestsOK'
  BY FewerRequests, SMT DEF RegInv
<1>4. Reach'
  <2> SUFFICES ASSUME NEW r \in Runs, r \notin stale, pods[r] # None
      PROVE  /\ Live(r)' /\ pods[r] # NoPlace
             /\ PlaceNow(machines[runs[r].machine])' = pods[r]
             /\ Place(machines[runs[r].machine])' = pods[r]
    BY Zenon DEF Reach, InReach
  <2>1. Live(r) /\ pods[r] # NoPlace
    BY Standing, Zenon
  <2>2. Live(r)'
    BY <2>1, Zenon DEF Live
  <2>3. PICK x : x = machines[runs[r].machine]
    OBVIOUS
  <2>4. PlaceNow(x)' = pods[r] /\ Place(x)' = pods[r]
    BY <2>3
  <2>5. /\ PlaceNow(machines[runs[r].machine])' = PlaceNow(x)'
        /\ Place(machines[runs[r].machine])' = Place(x)'
    BY <2>3, Zenon DEF PlaceNow, Place
  <2> QED BY <2>1, <2>2, <2>4, <2>5, Zenon
<1> QED BY <1>1, <1>2, <1>3, <1>4, Zenon DEF RegInv

\* A cluster row on which no such run's machine lies.
LEMMA OneCluster ==
  ASSUME RegInv, NEW c \in Clusters, NEW spot,
         UNCHANGED <<machines, runs, pods, stale, requests, cache>>,
         clusters' = [clusters EXCEPT ![c] = spot],
         \A r \in Runs : r \notin stale /\ pods[r] # None =>
           ~(machines[runs[r].machine].driver = "k8s" /\ machines[runs[r].machine].cluster = c)
  PROVE  RegInv'
<1>1. DOMAIN clusters = Clusters /\ DOMAIN cache = Clusters
  BY Zenon DEF RegInv, Shapes
<1>2. DOMAIN clusters' = Clusters /\ DOMAIN cache' = Clusters
  BY <1>1, SMT
<1>3. ASSUME NEW r \in Runs, NEW x, r \notin stale, pods[r] # None,
             x = machines[runs[r].machine]
      PROVE  PlaceNow(x)' = pods[r] /\ Place(x)' = pods[r]
  <2>1. IsRow(x) /\ PlaceNow(x) = pods[r] /\ Place(x) = pods[r]
    BY <1>3, Standing, Zenon
  <2>2. ~(x.driver = "k8s" /\ x.cluster = c)
    BY <1>3
  <2>4. CASE x.driver # "k8s"
    <3>1. PlaceNow(x)' = PlaceNow(x) /\ Place(x)' = Place(x)
      BY <2>4, Zenon DEF PlaceNow, Place
    <3> QED BY <2>1, <3>1, Zenon
  <2>5. CASE x.cluster = None
    <3>1. PlaceNow(x)' = PlaceNow(x) /\ Place(x)' = Place(x)
      BY <2>5, Zenon DEF PlaceNow, Place, resolve_cluster
    <3> QED BY <2>1, <3>1, Zenon
  <2>6. CASE x.driver = "k8s" /\ x.cluster # None
    <3>1. x.cluster \in Clusters /\ x.cluster # c
      BY <2>1, <2>2, <2>6, SMT DEF IsRow
    <3>2. clusters'[x.cluster] = clusters[x.cluster]
      BY <1>1, <3>1, SMT
    <3>3. PlaceNow(x)' = PlaceNow(x) /\ Place(x)' = Place(x)
      BY <3>2, Zenon DEF PlaceNow, Place, resolve_cluster
    <3> QED BY <2>1, <3>3, Zenon
  <2> QED BY <2>4, <2>5, <2>6, Zenon
<1> QED BY <1>2, <1>3, ClustersMove, Zenon

LEMMA StepCreateCluster ==
  ASSUME RegInv, NEW c \in Clusters, NEW spot, NEW check, create_cluster(c, spot, check)
  PROVE  RegInv'
<1>1. /\ UNCHANGED <<machines, runs, pods, stale, requests, cache>> /\ clusters[c] = None
      /\ clusters' = [clusters EXCEPT ![c] = spot]
  BY Zenon DEF create_cluster, fleet, ghosts
<1>2. ASSUME NEW r \in Runs, r \notin stale, pods[r] # None
      PROVE  ~(machines[runs[r].machine].driver = "k8s" /\ machines[runs[r].machine].cluster = c)
  <2>1. PlaceNow(machines[runs[r].machine]) # NoPlace
    BY <1>2, Standing, Zenon
  <2> QED BY <1>1, <2>1, Zenon DEF PlaceNow
<1> QED BY <1>1, <1>2, OneCluster, Zenon

LEMMA StepUpdateCluster ==
  ASSUME RegInv, NEW c \in Clusters, NEW spot, update_cluster(c, spot)
  PROVE  RegInv'
<1>1. /\ UNCHANGED <<machines, runs, pods, stale, requests, cache>> /\ live_work(c) = {}
      /\ clusters' = [clusters EXCEPT ![c] = spot]
  BY Zenon DEF update_cluster, fleet, ghosts
<1>2. ASSUME NEW r \in Runs, r \notin stale, pods[r] # None
      PROVE  ~(machines[runs[r].machine].driver = "k8s" /\ machines[runs[r].machine].cluster = c)
  <2>1. Live(r) /\ runs[r].machine \in Rows
    BY <1>2, Standing, Zenon
  <2> QED BY <1>1, <2>1, Zenon DEF live_work, On
<1> QED BY <1>1, <1>2, OneCluster, Zenon

LEMMA StepDeleteCluster ==
  ASSUME RegInv, NEW c \in Clusters, delete_cluster(c)
  PROVE  RegInv'
<1>1. /\ UNCHANGED <<machines, runs, pods, stale, requests, cache>>
      /\ \A m \in Rows : machines[m].cluster # c
      /\ clusters' = [clusters EXCEPT ![c] = None]
  BY Zenon DEF delete_cluster, fleet, ghosts
<1>2. ASSUME NEW r \in Runs, r \notin stale, pods[r] # None
      PROVE  ~(machines[runs[r].machine].driver = "k8s" /\ machines[runs[r].machine].cluster = c)
  BY <1>1, <1>2, Standing, Zenon
<1> QED BY <1>1, <1>2, OneCluster, Zenon

\* Filling the cache changes no place: it holds what resolve_cluster answers.
LEMMA CacheFills ==
  ASSUME Shapes, NEW row, IsRow(row), cache' = Cached(row), UNCHANGED clusters
  PROVE  /\ DOMAIN cache' = Clusters
         /\ \A x : IsRow(x) => PlaceNow(x)' = PlaceNow(x) /\ Place(x)' = Place(x)
<1>1. DOMAIN cache = Clusters
  BY Zenon DEF Shapes
<1>2. DOMAIN cache' = Clusters
  BY <1>1, SMT DEF Cached
<1>3. ASSUME NEW c \in Clusters PROVE resolve_cluster(c)' = resolve_cluster(c)
  <2>1. CASE cache'[c] = cache[c]
    BY <2>1, Zenon DEF resolve_cluster
  <2>2. CASE cache'[c] # cache[c]
    <3>1. cache' = [cache EXCEPT ![row.cluster] = resolve_cluster(row.cluster)]
      BY <2>2, Zenon DEF Cached
    <3>2. row.cluster = c /\ cache'[c] = resolve_cluster(c)
      BY <1>1, <2>2, <3>1, Zenon
    <3>3. c # None /\ clusters[c] # None
      BY <2>2, <3>2, Zenon DEF Cached
    <3>4. cache[c] = None
      BY <2>2, <3>2, <3>3, Zenon DEF resolve_cluster
    <3> QED BY <3>2, <3>3, <3>4, Zenon DEF resolve_cluster
  <2> QED BY <2>1, <2>2
<1>4. resolve_cluster(None)' = resolve_cluster(None)
  BY Zenon DEF resolve_cluster
<1>5. ASSUME NEW x, IsRow(x) PROVE PlaceNow(x)' = PlaceNow(x) /\ Place(x)' = Place(x)
  <2>1. x.cluster \in Clusters \/ x.cluster = None
    BY <1>5 DEF IsRow
  <2>2. resolve_cluster(x.cluster)' = resolve_cluster(x.cluster)
    BY <1>3, <1>4, <2>1, Zenon
  <2> QED BY <2>2, Zenon DEF PlaceNow, Place
<1> QED BY <1>2, <1>5, Zenon

LEMMA StepExpire ==
  ASSUME RegInv, NEW c \in Clusters, Expire(c)
  PROVE  RegInv'
<1>1. /\ UNCHANGED <<machines, runs, pods, stale, requests, clusters>>
      /\ cache' = [cache EXCEPT ![c] = None]
  BY Zenon DEF Expire, registry, ghosts
<1>2. DOMAIN clusters = Clusters /\ DOMAIN cache = Clusters
  BY Zenon DEF RegInv, Shapes
<1>3. DOMAIN clusters' = Clusters /\ DOMAIN cache' = Clusters
  BY <1>1, <1>2, SMT
<1>4. ASSUME NEW r \in Runs, NEW x, r \notin stale, pods[r] # None,
             x = machines[runs[r].machine]
      PROVE  PlaceNow(x)' = pods[r] /\ Place(x)' = pods[r]
  <2>1. IsRow(x) /\ PlaceNow(x) = pods[r] /\ Place(x) = pods[r]
    BY <1>4, Standing, Zenon
  <2>3. PlaceNow(x)' = PlaceNow(x)
    BY <1>1, Zenon DEF PlaceNow
  <2>4. CASE x.driver # "k8s" \/ x.cluster = None
    <3>1. Place(x)' = Place(x)
      BY <2>4, Zenon DEF Place, resolve_cluster
    <3> QED BY <2>1, <2>3, <3>1, Zenon
  <2>5. CASE x.driver = "k8s" /\ x.cluster # None
    <3>1. x.cluster \in Clusters
      BY <2>1, <2>5, Zenon DEF IsRow
    <3>2. cache'[x.cluster] = cache[x.cluster] \/ cache'[x.cluster] = None
      BY <1>1, <1>2, <3>1, Zenon
    <3>3. Place(x)' = Place(x) \/ Place(x)' = PlaceNow(x)
      BY <1>1, <2>5, <3>2, Zenon DEF Place, resolve_cluster, PlaceNow
    <3> QED BY <2>1, <2>3, <3>3, Zenon
  <2> QED BY <2>4, <2>5, Zenon
<1> QED BY <1>1, <1>3, <1>4, ClustersMove, Zenon

-----------------------------------------------------------------------------
(* An edit that is written, and a machine that is removed. *)

LEMMA WrittenIs ==
  ASSUME RegInv, NEW q \in requests, q.op = "edit", q.on \in Rows
  PROVE  IsRow(Written(q)) /\ Written(q).state = machines[q.on].state
<1> DEFINE now == machines[q.on]
           full == Filled(q.seen, q.what)
           read == record_capacity(full, probe_capacity(full))
<1>1. q.what \in Forms /\ IsRow(q.seen)
  BY Zenon DEF RegInv, RequestsOK, EditOK
<1>2. IsRow(now)
  BY Zenon DEF RegInv, Shapes, Rows
<1>3. IsRow(full) /\ full.state = q.seen.state
  BY <1>1, FilledIs, Zenon
<1>4. Written(q) = [f \in DOMAIN now |-> IF read[f] # q.seen[f] THEN read[f] ELSE now[f]]
  BY Zenon DEF Written
<1> HIDE DEF full, now
<1>5. IsRow(read) /\ read.state = full.state
  BY <1>3, CapacityKeeps, Zenon
<1> HIDE DEF read
<1> DEFINE w == [f \in DOMAIN now |-> IF read[f] # q.seen[f] THEN read[f] ELSE now[f]]
<1>6. /\ DOMAIN w = RowFields
      /\ w.driver = read.driver \/ w.driver = now.driver
      /\ w.cluster = read.cluster \/ w.cluster = now.cluster
      /\ w.state = now.state
  BY <1>2, <1>3, <1>5, SMT DEF IsRow, RowFields
<1> HIDE DEF w
<1>7. IsRow(w)
  BY <1>2, <1>5, <1>6, Zenon DEF IsRow
<1> QED BY <1>4, <1>6, <1>7, Zenon DEF w, now

LEMMA StepWriteMachine ==
  ASSUME RegInv, NEW q \in requests, write_machine(q)
  PROVE  RegInv'
<1>1. q.op = "edit"
  BY Zenon DEF write_machine
<1>2. \/ Refused(q)
      \/ /\ q.on \in Rows /\ Close(q) /\ machines' = [machines EXCEPT ![q.on] = Written(q)]
         /\ UNCHANGED <<clusters, runs, pods, cache, stale>>
  BY Zenon DEF write_machine, fleet
<1>3. CASE Refused(q)
  BY <1>3, StepRefused, Zenon
<1>4. CASE /\ q.on \in Rows /\ Close(q) /\ machines' = [machines EXCEPT ![q.on] = Written(q)]
           /\ UNCHANGED <<clusters, runs, pods, cache, stale>>
  <2>1. IsRow(Written(q)) /\ Written(q).state = machines[q.on].state
    BY <1>1, <1>4, WrittenIs, Zenon
  <2>2. DOMAIN machines = Machines /\ q.on \in Machines
    BY <1>4, Zenon DEF RegInv, Shapes, Rows
  <2>3. /\ DOMAIN machines' = Machines
        /\ machines'[q.on] = Written(q)
        /\ \A m \in Machines : m # q.on => machines'[m] = machines[m]
    <3> DEFINE w == Written(q)
    <3>1. machines' = [machines EXCEPT ![q.on] = w]
      BY <1>4
    <3> HIDE DEF w
    <3>2. /\ DOMAIN machines' = Machines
          /\ machines'[q.on] = w
          /\ \A m \in Machines : m # q.on => machines'[m] = machines[m]
      BY <2>2, <3>1, SMT
    <3> QED BY <3>2 DEF w
  <2>4. Shapes'
    BY <1>4, <2>1, <2>3, Zenon DEF RegInv, Shapes
  <2>5. requests' \subseteq requests
    BY <1>4 DEF Close
  <2>6. RequestsOK'
    BY <1>4, <2>5, FewerRequests, Zenon DEF RegInv
  <2>7. \A r \in Runs : Live(r)' <=> Live(r)
    BY <1>4, Zenon DEF Live
  <2>8. \A m \in Rows : m \in Rows' /\ machines'[m].state = machines[m].state
    <3>1. Written(q) # NoRow
      BY <2>1, RowIsThere, Zenon
    <3> QED BY <2>1, <2>3, <3>1, Zenon DEF Rows
  <2>9. Held'
    <3> SUFFICES ASSUME NEW r \in Runs, Live(r)'
        PROVE  runs'[r].machine \in Rows' /\ machines'[runs'[r].machine].state = "RESERVED"
      BY Zenon DEF Held
    <3>1. runs' = runs
      BY <1>4
    <3>2. runs[r].machine \in Rows /\ machines[runs[r].machine].state = "RESERVED"
      BY <2>7, Zenon DEF RegInv, Held
    <3> QED BY <2>8, <3>1, <3>2, Zenon
  <2>10. Reach'
    <3> SUFFICES ASSUME NEW r \in Runs, r \notin stale, pods[r] # None
        PROVE  /\ Live(r)' /\ pods[r] # NoPlace
               /\ PlaceNow(machines[runs[r].machine])' = pods[r]
               /\ Place(machines[runs[r].machine])' = pods[r]
      BY <1>4, Zenon DEF Reach, InReach
    <3>1. PICK m : m = runs[r].machine
      OBVIOUS
    <3>2. /\ Live(r) /\ pods[r] # NoPlace /\ m \in Rows
          /\ PlaceNow(machines[m]) = pods[r] /\ Place(machines[m]) = pods[r]
      BY <3>1, Standing, Zenon
    <3>3. m # q.on
      BY <1>1, <3>1, <3>2, Zenon DEF RegInv, RequestsOK, EditOK
    <3>4. machines'[m] = machines[m]
      BY <2>3, <3>2, <3>3, Zenon DEF Rows
    <3>5. /\ PlaceNow(machines[runs[r].machine])' = PlaceNow(machines[m])
          /\ Place(machines[runs[r].machine])' = Place(machines[m])
      <4>1. PICK x : x = machines[m]
        OBVIOUS
      <4>2. machines'[runs'[r].machine] = x
        BY <1>4, <3>1, <3>4, <4>1, Zenon
      <4>3. PlaceNow(x)' = PlaceNow(x) /\ Place(x)' = Place(x)
        BY <1>4, Zenon DEF PlaceNow, Place, resolve_cluster
      <4>4. /\ PlaceNow(machines[runs[r].machine])' = PlaceNow(x)'
            /\ Place(machines[runs[r].machine])' = Place(x)'
        BY <4>2, Zenon DEF PlaceNow, Place
      <4> QED BY <4>1, <4>3, <4>4, Zenon
    <3> QED BY <2>7, <3>2, <3>5, Zenon
  <2> QED BY <2>4, <2>6, <2>9, <2>10, Zenon DEF RegInv
<1> QED BY <1>2, <1>3, <1>4, Zenon

LEMMA StepDeleteMachine ==
  ASSUME RegInv, NEW m \in Machines, delete_machine(m)
  PROVE  RegInv'
<1>1. /\ UNCHANGED <<clusters, pods, cache, stale, requests>>
      /\ machines' = [machines EXCEPT ![m] = NoRow]
      /\ machines[m].state # "RESERVED"
      /\ runs' = [r \in Runs |-> IF runs[r].machine = m THEN [runs[r] EXCEPT !.machine = None]
                                 ELSE runs[r]]
  BY Zenon DEF delete_machine, guard_in_use
<1>2. DOMAIN machines = Machines /\ \A r \in Runs : DOMAIN runs[r] = RunFields
  BY Zenon DEF RegInv, Shapes
<1>3. DOMAIN machines' = Machines /\ machines'[m] = NoRow
      /\ \A x \in Machines : x # m => machines'[x] = machines[x]
  <2> HIDE DEF NoRow
  <2> QED BY <1>1, <1>2, SMT
<1>4. ASSUME NEW r \in Runs
      PROVE  /\ DOMAIN runs'[r] = RunFields /\ runs'[r].status = runs[r].status
             /\ runs[r].machine # m => runs'[r] = runs[r]
  <2>1. DOMAIN runs[r] = RunFields
    BY <1>2
  <2>2. LET y == [runs[r] EXCEPT !.machine = None] IN
        DOMAIN y = RunFields /\ y.status = runs[r].status
    BY <2>1, SMT DEF RunFields
  <2>3. runs'[r] = IF runs[r].machine = m THEN [runs[r] EXCEPT !.machine = None] ELSE runs[r]
    BY <1>1, Zenon
  <2> QED BY <2>1, <2>2, <2>3, Zenon
<1>5. \A r \in Runs : Live(r)' <=> Live(r)
  BY <1>4, Zenon DEF Live
<1>6. \A r \in Runs : Live(r) => runs[r].machine # m /\ runs'[r] = runs[r]
  BY <1>1, <1>4, Zenon DEF RegInv, Held
<1>7. Shapes'
  <2>1. DOMAIN runs' = Runs
    BY <1>1, Zenon
  <2> QED BY <1>1, <1>3, <1>4, <2>1, Zenon DEF RegInv, Shapes
<1>8. Held'
  <2> SUFFICES ASSUME NEW r \in Runs, Live(r)'
      PROVE  runs'[r].machine \in Rows' /\ machines'[runs'[r].machine].state = "RESERVED"
    BY Zenon DEF Held
  <2>1. /\ runs[r].machine \in Rows /\ machines[runs[r].machine].state = "RESERVED"
        /\ runs[r].machine # m /\ runs'[r] = runs[r]
    BY <1>5, <1>6, Zenon DEF RegInv, Held
  <2>2. machines'[runs[r].machine] = machines[runs[r].machine]
    BY <1>3, <2>1, Zenon DEF Rows
  <2> QED BY <2>1, <2>2, Zenon DEF Rows
<1>9. RequestsOK'
  <2> SUFFICES ASSUME NEW q \in requests, q.op = "edit" PROVE EditOK(q)'
    BY <1>1, Zenon DEF RegInv, RequestsOK
  <2>1. EditOK(q)
    BY Zenon DEF RegInv, RequestsOK
  <2> QED BY <1>1, <1>5, <1>6, <2>1, Zenon DEF EditOK
<1>10. Reach'
  <2> SUFFICES ASSUME NEW r \in Runs, r \notin stale, pods[r] # None
      PROVE  /\ Live(r)' /\ pods[r] # NoPlace
             /\ PlaceNow(machines[runs[r].machine])' = pods[r]
             /\ Place(machines[runs[r].machine])' = pods[r]
    BY <1>1, Zenon DEF Reach, InReach
  <2>1. PICK n : n = runs[r].machine
    OBVIOUS
  <2>2. /\ Live(r) /\ pods[r] # NoPlace /\ n \in Rows
        /\ PlaceNow(machines[n]) = pods[r] /\ Place(machines[n]) = pods[r]
    BY <2>1, Standing, Zenon
  <2>3. n # m /\ runs'[r].machine = n
    BY <1>6, <2>1, <2>2, Zenon
  <2>4. machines'[n] = machines[n]
    BY <1>3, <2>2, <2>3, Zenon DEF Rows
  <2>5. /\ PlaceNow(machines[runs[r].machine])' = PlaceNow(machines[n])
        /\ Place(machines[runs[r].machine])' = Place(machines[n])
    <3>1. PICK x : x = machines[n]
      OBVIOUS
    <3>2. machines'[runs'[r].machine] = x
      BY <2>3, <2>4, <3>1, Zenon
    <3>3. PlaceNow(x)' = PlaceNow(x) /\ Place(x)' = Place(x)
      BY <1>1, Zenon DEF PlaceNow, Place, resolve_cluster
    <3>4. /\ PlaceNow(machines[runs[r].machine])' = PlaceNow(x)'
          /\ Place(machines[runs[r].machine])' = Place(x)'
      BY <3>2, Zenon DEF PlaceNow, Place
    <3> QED BY <3>1, <3>3, <3>4, Zenon
  <2> QED BY <1>5, <2>2, <2>5, Zenon
<1> QED BY <1>7, <1>8, <1>9, <1>10, Zenon DEF RegInv

-----------------------------------------------------------------------------
(* The worker: launches and teardowns. *)

\* A step of the worker: the cache is filled from one row, the states of
\* machines change, and what is said of each run holds of what it became.
WorkerStep(row) ==
  /\ IsRow(row) /\ cache' = Cached(row)
  /\ UNCHANGED <<clusters, requests>> /\ stale \subseteq stale'
  /\ DOMAIN machines' = Machines /\ DOMAIN runs' = Runs /\ DOMAIN pods' = Runs
  /\ \A m \in Machines : \/ machines'[m] = machines[m]
                         \/ /\ m \in Rows /\ IsRow(machines'[m])
                            /\ machines'[m].driver = machines[m].driver
                            /\ machines'[m].cluster = machines[m].cluster
  /\ \A r \in Runs : DOMAIN runs'[r] = RunFields
  /\ \A r \in Runs : Live(r)' => /\ runs'[r].machine \in Rows
                                 /\ machines'[runs'[r].machine].state = "RESERVED"
  /\ \A r \in Runs, q \in requests :
       Live(r)' /\ q.op = "edit" /\ runs'[r].machine = q.on =>
         r \in stale' \/ (Live(r) /\ runs[r].machine = q.on)
  /\ \A r \in Runs : r \notin stale' /\ pods'[r] # None =>
       /\ Live(r)' /\ pods'[r] # NoPlace
       /\ PlaceNow(machines[runs'[r].machine]) = pods'[r]
       /\ Place(machines[runs'[r].machine]) = pods'[r]

LEMMA WorkerMoves ==
  ASSUME RegInv, NEW row, WorkerStep(row)
  PROVE  RegInv'
<1> USE DEF WorkerStep
<1>1. Shapes
  BY Zenon DEF RegInv
<1>2. /\ DOMAIN cache' = Clusters
      /\ \A x : IsRow(x) => PlaceNow(x)' = PlaceNow(x) /\ Place(x)' = Place(x)
  BY <1>1, CacheFills, Zenon
<1>3. Shapes'
  BY <1>1, <1>2, Zenon DEF Shapes
<1>4. ASSUME NEW m \in Rows
      PROVE  /\ m \in Rows' /\ IsRow(machines[m]) /\ IsRow(machines'[m])
             /\ machines'[m].driver = machines[m].driver
             /\ machines'[m].cluster = machines[m].cluster
  <2>1. m \in Machines /\ IsRow(machines[m])
    BY <1>1, Zenon DEF Shapes, Rows
  <2>2. /\ IsRow(machines'[m]) /\ machines'[m].driver = machines[m].driver
        /\ machines'[m].cluster = machines[m].cluster
    BY <2>1, Zenon
  <2>3. machines'[m] # NoRow
    BY <2>2, RowIsThere, Zenon
  <2> QED BY <2>1, <2>2, <2>3, Zenon DEF Rows
<1>5. Held'
  BY <1>4, Zenon DEF Held
<1>6. RequestsOK'
  <2> SUFFICES ASSUME NEW q \in requests, q.op = "edit" PROVE EditOK(q)'
    BY Zenon DEF RegInv, RequestsOK
  <2>1. EditOK(q)
    BY Zenon DEF RegInv, RequestsOK
  <2>2. ASSUME NEW r \in Runs, Live(r)', runs'[r].machine = q.on PROVE r \in stale'
    BY <2>1, <2>2 DEF EditOK
  <2> QED BY <2>1, <2>2, Zenon DEF EditOK
<1>7. Reach'
  <2> SUFFICES ASSUME NEW r \in Runs, r \notin stale', pods'[r] # None
      PROVE  /\ Live(r)' /\ pods'[r] # NoPlace
             /\ PlaceNow(machines[runs[r].machine])' = pods'[r]
             /\ Place(machines[runs[r].machine])' = pods'[r]
    BY Zenon DEF Reach, InReach
  <2>1. /\ Live(r)' /\ pods'[r] # NoPlace
        /\ PlaceNow(machines[runs'[r].machine]) = pods'[r]
        /\ Place(machines[runs'[r].machine]) = pods'[r]
    OBVIOUS
  <2>2. PICK m : m = runs'[r].machine
    OBVIOUS
  <2>3. m \in Rows
    BY <2>1, <2>2, Zenon
  <2>4. PICK x : x = machines'[m]
    OBVIOUS
  <2>5. IsRow(x) /\ x.driver = machines[m].driver /\ x.cluster = machines[m].cluster
    BY <1>4, <2>3, <2>4, Zenon
  <2>6. PlaceNow(x) = PlaceNow(machines[m]) /\ Place(x) = Place(machines[m])
    BY <2>5, SamePlace, Zenon
  <2>7. PlaceNow(x)' = PlaceNow(x) /\ Place(x)' = Place(x)
    BY <1>2, <2>5, Zenon
  <2>8. /\ PlaceNow(machines[runs[r].machine])' = PlaceNow(x)'
        /\ Place(machines[runs[r].machine])' = Place(x)'
    BY <2>2, <2>4, Zenon DEF PlaceNow, Place
  <2> QED BY <2>1, <2>2, <2>6, <2>7, <2>8, Zenon
<1> QED BY <1>3, <1>5, <1>6, <1>7, Zenon DEF RegInv

LEMMA StepLaunch ==
  ASSUME RegInv, NEW r \in Runs, NEW k, NEW m \in Machines, Launch(r, k, m)
  PROVE  RegInv'
<1> DEFINE row == machines[m]
           y == [row EXCEPT !.state = "RESERVED"]
           run == [status |-> "live", machine |-> m, campaign |-> k]
           old == \/ Place(row) # PlaceNow(row)
                  \/ \E q \in requests : q.op = "edit" /\ q.on = m
<1>1. /\ m \in Rows /\ Place(row) # NoPlace
      /\ runs' = [runs EXCEPT ![r] = run]
      /\ pods' = [pods EXCEPT ![r] = Place(row)]
      /\ cache' = Cached(row)
      /\ machines' = [machines EXCEPT ![m] = y]
      /\ stale' = IF old THEN stale \union {r} ELSE stale
      /\ UNCHANGED <<clusters, requests>>
  BY Zenon DEF Launch
<1>2. /\ DOMAIN machines = Machines /\ DOMAIN runs = Runs /\ DOMAIN pods = Runs
      /\ IsRow(row) /\ \A s \in Runs : DOMAIN runs[s] = RunFields
  BY <1>1, Zenon DEF RegInv, Shapes, Rows
<1>3. IsRow(y) /\ y.driver = row.driver /\ y.cluster = row.cluster /\ y.state = "RESERVED"
  BY <1>2, StateSet, Zenon
<1>4. DOMAIN run = RunFields /\ run.machine = m /\ run.status = "live"
  BY SMT DEF RunFields
<1> HIDE DEF y, run
<1>5. /\ DOMAIN machines' = Machines /\ DOMAIN runs' = Runs /\ DOMAIN pods' = Runs
  BY <1>1, <1>2, SMT
<1>6. /\ machines'[m] = y /\ \A x \in Machines : x # m => machines'[x] = machines[x]
  BY <1>1, <1>2, Zenon
<1>7. /\ runs'[r] = run /\ \A s \in Runs : s # r => runs'[s] = runs[s]
  BY <1>1, <1>2, Zenon
<1>8. /\ pods'[r] = Place(row) /\ \A s \in Runs : s # r => pods'[s] = pods[s]
  BY <1>1, <1>2, Zenon
<1>9. stale \subseteq stale' /\ (old => r \in stale')
  BY <1>1, SMT
<1>10. Live(r)' /\ \A s \in Runs : s # r => (Live(s)' <=> Live(s))
  BY <1>4, <1>7 DEF Live
<1>11. \A x \in Machines : \/ machines'[x] = machines[x]
                           \/ /\ x \in Rows /\ IsRow(machines'[x])
                              /\ machines'[x].driver = machines[x].driver
                              /\ machines'[x].cluster = machines[x].cluster
  BY <1>1, <1>3, <1>6, Zenon
<1>12. \A s \in Runs : DOMAIN runs'[s] = RunFields
  BY <1>2, <1>4, <1>7, Zenon
<1>13. ASSUME NEW s \in Runs, Live(s)'
       PROVE  runs'[s].machine \in Rows /\ machines'[runs'[s].machine].state = "RESERVED"
  <2>1. CASE s = r
    BY <1>1, <1>3, <1>4, <1>6, <1>7, <2>1, ZenonT(30)
  <2>2. CASE s # r
    <3>1. /\ runs'[s] = runs[s] /\ runs[s].machine \in Rows
          /\ machines[runs[s].machine].state = "RESERVED"
      BY <1>7, <1>10, <1>13, <2>2, Zenon DEF RegInv, Held
    <3> QED BY <1>3, <1>6, <3>1, Zenon DEF Rows
  <2> QED BY <2>1, <2>2
<1>14. ASSUME NEW s \in Runs, NEW q \in requests,
              Live(s)', q.op = "edit", runs'[s].machine = q.on
       PROVE  s \in stale' \/ (Live(s) /\ runs[s].machine = q.on)
  BY <1>4, <1>7, <1>9, <1>10, <1>14, Zenon
<1>15. ASSUME NEW s \in Runs, s \notin stale', pods'[s] # None
       PROVE  /\ Live(s)' /\ pods'[s] # NoPlace
              /\ PlaceNow(machines[runs'[s].machine]) = pods'[s]
              /\ Place(machines[runs'[s].machine]) = pods'[s]
  <2>1. CASE s = r
    <3>1. ~old
      BY <1>9, <1>15, <2>1, Zenon
    <3>2. Place(row) = PlaceNow(row)
      BY <3>1, Zenon
    <3> QED BY <1>1, <1>4, <1>7, <1>8, <1>10, <2>1, <3>2, Zenon
  <2>2. CASE s # r
    <3>1. pods'[s] = pods[s] /\ runs'[s] = runs[s] /\ s \notin stale
      BY <1>7, <1>8, <1>9, <1>15, <2>2, SMT
    <3>2. /\ Live(s) /\ pods[s] # NoPlace
          /\ PlaceNow(machines[runs[s].machine]) = pods[s]
          /\ Place(machines[runs[s].machine]) = pods[s]
      BY <1>15, <3>1, Standing, Zenon
    <3> QED BY <1>10, <2>2, <3>1, <3>2, Zenon
  <2> QED BY <2>1, <2>2
<1> HIDE DEF old
<1>16. PICK x : x = row
  OBVIOUS
<1>17. IsRow(x) /\ cache' = Cached(x) /\ UNCHANGED <<clusters, requests>> /\ stale \subseteq stale'
  BY <1>1, <1>2, <1>9, <1>16, Zenon DEF Cached
<1>18. WorkerStep(x)
  BY <1>5, <1>11, <1>12, <1>13, <1>14, <1>15, <1>17, Zenon DEF WorkerStep
<1> QED BY <1>18, WorkerMoves, Zenon

LEMMA StepEndRun ==
  ASSUME RegInv, NEW r \in Runs, NEW confirmed, EndRun(r, confirmed)
  PROVE  RegInv'
<1> DEFINE m == runs[r].machine
           row == machines[m]
           found == Place(row) = pods[r]
           over == ~found \/ confirmed
           st == IF over THEN "over" ELSE "pending"
           run == [runs[r] EXCEPT !.status = st]
           y == [row EXCEPT !.state = "AVAILABLE"]
<1>1. /\ Live(r) /\ m \in Rows
      /\ runs' = [runs EXCEPT ![r] = run]
      /\ pods' = IF found /\ confirmed THEN [pods EXCEPT ![r] = None] ELSE pods
      /\ cache' = Cached(row)
      /\ machines' = IF over THEN Released(m, r) ELSE machines
      /\ UNCHANGED <<clusters, requests, stale>>
  BY Zenon DEF EndRun, ghosts
<1>2. /\ DOMAIN machines = Machines /\ DOMAIN runs = Runs /\ DOMAIN pods = Runs
      /\ IsRow(row) /\ \A s \in Runs : DOMAIN runs[s] = RunFields
  BY <1>1, Zenon DEF RegInv, Shapes, Rows
<1>3. IsRow(y) /\ y.driver = row.driver /\ y.cluster = row.cluster
  BY <1>2, StateSet, Zenon
<1>4. \/ machines' = machines
      \/ /\ over /\ machines' = [machines EXCEPT ![m] = y]
         /\ \A o \in Runs : Live(o) /\ runs[o].machine = m => o = r
  BY <1>1, Zenon DEF Released, LiveOn
<1>5. DOMAIN run = RunFields /\ run.machine = m /\ run.status = st
  <2>1. DOMAIN runs[r] = RunFields
    BY <1>2
  <2> HIDE DEF st
  <2> QED BY <2>1, SMT DEF RunFields
<1> HIDE DEF y, run
<1>6. /\ DOMAIN runs' = Runs /\ runs'[r] = run /\ \A s \in Runs : s # r => runs'[s] = runs[s]
  BY <1>1, <1>2, Zenon
<1>7. /\ DOMAIN pods' = Runs /\ \A s \in Runs : pods'[s] = pods[s] \/ pods'[s] = None
      /\ found /\ confirmed => pods'[r] = None
  BY <1>1, <1>2, Zenon
<1>8. Live(r)' <=> ~over
  <2>1. Live(r)' <=> st \in {"live", "pending"}
    BY <1>5, <1>6, Zenon DEF Live
  <2> HIDE DEF over
  <2> QED BY <2>1
<1>9. \A s \in Runs : s # r => (Live(s)' <=> Live(s))
  BY <1>6, Zenon DEF Live
<1> HIDE DEF found
<1>10. /\ DOMAIN machines' = Machines
       /\ \A x \in Machines : machines'[x] = machines[x] \/ (x = m /\ machines'[x] = y)
       /\ \A x \in Machines : \/ machines'[x] = machines[x]
                              \/ /\ over /\ \A o \in Runs : Live(o) /\ runs[o].machine = x => o = r
  BY <1>1, <1>2, <1>4, Zenon
<1>11. \A x \in Machines : \/ machines'[x] = machines[x]
                           \/ /\ x \in Rows /\ IsRow(machines'[x])
                              /\ machines'[x].driver = machines[x].driver
                              /\ machines'[x].cluster = machines[x].cluster
  BY <1>1, <1>3, <1>10, Zenon
<1>12. \A s \in Runs : DOMAIN runs'[s] = RunFields
  BY <1>2, <1>5, <1>6, Zenon
<1>13. ASSUME NEW s \in Runs, Live(s)'
       PROVE  runs'[s].machine \in Rows /\ machines'[runs'[s].machine].state = "RESERVED"
  <2>1. Live(s) /\ (s = r => ~over)
    BY <1>1, <1>8, <1>9, <1>13, Zenon
  <2>2. runs'[s].machine = runs[s].machine
    BY <1>5, <1>6, Zenon
  <2>3. runs[s].machine \in Rows /\ machines[runs[s].machine].state = "RESERVED"
    BY <2>1, Zenon DEF RegInv, Held
  <2>4. runs[s].machine \in Machines
    BY <2>3, Zenon DEF Rows
  <2>5. machines'[runs[s].machine] = machines[runs[s].machine]
    BY <1>10, <2>1, <2>4, Zenon
  <2> QED BY <2>2, <2>3, <2>5, Zenon
<1>14. ASSUME NEW s \in Runs, NEW q \in requests,
              Live(s)', q.op = "edit", runs'[s].machine = q.on
       PROVE  s \in stale' \/ (Live(s) /\ runs[s].machine = q.on)
  <2>1. Live(s)
    BY <1>1, <1>9, <1>14, Zenon
  <2>2. runs'[s].machine = runs[s].machine
    BY <1>5, <1>6, Zenon
  <2> QED BY <1>14, <2>1, <2>2, Zenon
<1>15. ASSUME NEW s \in Runs, s \notin stale', pods'[s] # None
       PROVE  /\ Live(s)' /\ pods'[s] # NoPlace
              /\ PlaceNow(machines[runs'[s].machine]) = pods'[s]
              /\ Place(machines[runs'[s].machine]) = pods'[s]
  <2>1. s \notin stale /\ pods'[s] = pods[s] /\ pods[s] # None
    BY <1>1, <1>7, <1>15, Zenon
  <2>2. /\ Live(s) /\ pods[s] # NoPlace
        /\ PlaceNow(machines[runs[s].machine]) = pods[s]
        /\ Place(machines[runs[s].machine]) = pods[s]
    BY <2>1, Standing, Zenon
  <2>3. runs'[s].machine = runs[s].machine
    BY <1>5, <1>6, Zenon
  <2>4. Live(s)'
    <3>1. CASE s = r
      <4>1. found
        BY <2>2, <3>1, Zenon DEF found
      <4>2. ~confirmed
        BY <1>7, <1>15, <3>1, <4>1, Zenon
      <4> QED BY <1>8, <3>1, <4>1, <4>2, Zenon
    <3>2. CASE s # r
      BY <1>9, <2>2, <3>2, Zenon
    <3> QED BY <3>1, <3>2
  <2> QED BY <2>1, <2>2, <2>3, <2>4, Zenon
<1>16. stale \subseteq stale'
  BY <1>1
<1> HIDE DEF over
<1>17. PICK x : x = row
  OBVIOUS
<1>18. IsRow(x) /\ cache' = Cached(x) /\ UNCHANGED <<clusters, requests>>
  BY <1>1, <1>2, <1>17, Zenon DEF Cached
<1>19. DOMAIN machines' = Machines /\ DOMAIN runs' = Runs /\ DOMAIN pods' = Runs
  BY <1>6, <1>7, <1>10, Zenon
<1>20. WorkerStep(x)
  BY <1>11, <1>12, <1>13, <1>14, <1>15, <1>16, <1>18, <1>19, Zenon DEF WorkerStep
<1> QED BY <1>20, WorkerMoves, Zenon

-----------------------------------------------------------------------------
LEMMA InitRegInv == Init => RegInv
<1> SUFFICES ASSUME Init PROVE RegInv
  OBVIOUS
<1>1. site.clusters \in [Clusters -> Spots \union {None}]
  BY SitesAssumption, Zenon DEF Init, SiteOK
<1>2. /\ machines = [m \in Machines |-> NoRow] /\ requests = {}
      /\ runs = [r \in Runs |-> [status |-> None, machine |-> None, campaign |-> None]]
      /\ pods = [r \in Runs |-> None] /\ cache = [c \in Clusters |-> None]
      /\ clusters = site.clusters
  BY Zenon DEF Init
<1>3. \A r \in Runs : DOMAIN runs[r] = RunFields /\ runs[r].status = None
  BY <1>2, SMT DEF RunFields
<1>4. Shapes
  <2>1. DOMAIN clusters = Clusters
    BY <1>1, <1>2, SMT
  <2> QED BY <1>2, <1>3, <2>1, Zenon DEF Shapes
<1>5. Held
  BY <1>3, NoneAssumption, Zenon DEF Held, Live
<1>6. RequestsOK
  BY <1>2, Zenon DEF RequestsOK
<1>7. Reach
  BY <1>2, Zenon DEF Reach, InReach
<1> QED BY <1>4, <1>5, <1>6, <1>7, Zenon DEF RegInv

\* Every step keeps the invariant.
LEMMA NextRegInv ==
  ASSUME RegInv, [Next]_vars
  PROVE  RegInv'
<1>1. CASE UNCHANGED vars
  BY <1>1, StepElsewhere, Zenon DEF vars
<1>2. CASE ClusterRequests
  BY <1>2, StepCreateCluster, StepUpdateCluster, StepDeleteCluster, Zenon DEF ClusterRequests
<1>3. CASE Registrations
  <2>1. ASSUME NEW c \in Clusters, NEW what,
               \/ OpenRegistration(c, "nodes", what) \/ OpenRegistration(c, "pools", what)
               \/ OpenRegistration(c, "namespace", what)
        PROVE  RegInv'
    BY <2>1, StepOpenRegistration
  <2> QED BY <1>3, <2>1, StepRegisters, Zenon DEF Registrations
<1>4. CASE MachineRequests
  BY <1>4, StepCreateMachine, StepUpdateMachine, StepReread, StepDeleteMachine, StepSetState,
     StepWriteMachine, Zenon DEF MachineRequests
<1>5. CASE GroupRequests
  <2>1. UNCHANGED <<clusters, runs, pods, cache, stale, machines, requests>>
    BY <1>5, Zenon DEF GroupRequests, set_group, delete_group, fleet, ghosts
  <2> QED BY <2>1, StepElsewhere, Zenon
<1>6. CASE CampaignRequests
  <2>1. UNCHANGED <<clusters, runs, pods, cache, stale, machines, requests>>
    BY <1>6, Zenon DEF CampaignRequests, create_campaign, set_campaign_status, fleet, ghosts
  <2> QED BY <2>1, StepElsewhere, Zenon
<1>7. CASE Worker
  BY <1>7, StepLaunch, StepEndRun, StepExpire, StepRefresh, Zenon DEF Worker
<1>8. CASE World
  <2>1. UNCHANGED <<clusters, runs, pods, cache, stale, machines, requests>>
    BY <1>8, Zenon DEF World, NodeChanges, AccessChanges, Relabelled, registry, fleet, ghosts
  <2> QED BY <2>1, StepElsewhere, Zenon
<1> QED BY <1>1, <1>2, <1>3, <1>4, <1>5, <1>6, <1>7, <1>8, Zenon DEF Next

LEMMA RegInvHolds == Spec => []RegInv
<1>1. Init => RegInv
  BY InitRegInv
<1>2. RegInv /\ [Next]_vars => RegInv'
  BY NextRegInv
<1> QED BY <1>1, <1>2, PTL DEF Spec

\* A run's pods stay where the platform looks for them for as long as they stand,
\* whatever is edited, removed or registered meanwhile (update_cluster,
\* update_machine, delete_machine, the worker's cached settings): for any number
\* of clusters, machines, runs and open requests.
THEOREM PodsStayInReach == Spec => []KeptInReach
<1>1. RegInv => KeptInReach
  <2> SUFFICES ASSUME RegInv, NEW r \in Runs \ stale, pods[r] # None
      PROVE  /\ Live(r) /\ runs[r].machine \in Rows
             /\ PlaceNow(machines[runs[r].machine]) = pods[r]
    BY Zenon DEF KeptInReach
  <2> QED BY Standing, Zenon
<1> QED BY <1>1, RegInvHolds, PTL

\* A machine with a live run on it stays registered and RESERVED, whatever is
\* edited, refreshed, set by hand or removed around it (_guard_in_use,
\* _release_machine).
THEOREM LiveMachinesAreHeld == Spec => []Held
<1>1. RegInv => Held
  BY Zenon DEF RegInv
<1> QED BY <1>1, RegInvHolds, PTL
-----------------------------------------------------------------------------
(* Cards counted once.  CountedOnce speaks of a sum over the rows a cluster's *)
(* page added; what is inductive is that each of them promises no more than   *)
(* the nodes it is matched to have, and that no node is matched twice         *)
(* (Promise).  A registration is decided on the page it read, so what it read *)
(* has to stay true of the rows and the nodes until it is written (Seen), and *)
(* no other registration may be open beside it (OneAtATime).                  *)

Listed(c) == On(c) \intersect page

NodesOK(ns) == DOMAIN ns \subseteq Hosts /\ ns \in [DOMAIN ns -> NodeRows]

WorldOK ==
  /\ site \in Sites /\ DOMAIN world = Clusters
  /\ \A c \in Clusters : /\ DOMAIN world[c] = {"nodes", "access", "quota"}
                         /\ NodesOK(world[c].nodes)
                         /\ world[c].quota \in Nat \union {None}

OneAtATime == IsFiniteSet(requests) /\ (site.open < 2 => \A p, q \in requests : p = q)

\* A row matched to nodes promises what they have at most; a row for a whole
\* namespace its quota.
Backed(row, w) ==
  /\ row.gpu_count \in Nat /\ row.selector \in Selectors
  /\ w.access = "readable" =>
       /\ row.selector.by = "host" \/ (row.selector.by = "product" /\ row.selector.of # "")
       /\ row.gpu_count <= CardsOf(w.nodes, Matched(w.nodes, row.selector))
  /\ w.access # "readable" =>
       row.selector.by = "all" /\ w.quota # None /\ row.gpu_count <= w.quota

Apart(x, y, w) ==
  /\ w.access = "readable"
  /\ Matched(w.nodes, x.selector) \intersect Matched(w.nodes, y.selector) = {}

Promise(c) ==
  /\ \A m \in Listed(c) : Backed(machines[m], world[c])
  /\ \A m, n \in Listed(c) : m # n => Apart(machines[m], machines[n], world[c])

\* The same nodes, whether they take pods or not.
Alike(ns, ms) ==
  /\ DOMAIN ms = DOMAIN ns
  /\ \A h \in DOMAIN ns : ms[h].cards = ns[h].cards /\ ms[h].product = ns[h].product

Seen(q) ==
  q.op # "edit" =>
    /\ q.op = "nodes" => q.what \in SUBSET Hosts
    /\ q.op = "pools" => q.what \in SUBSET Products
    /\ q.on \notin moved =>
         /\ q.seen.readable <=> world[q.on].access = "readable"
         /\ q.seen.quota = world[q.on].quota
         /\ Alike(q.seen.nodes, world[q.on].nodes)
         /\ \A m \in Listed(q.on) : machines[m].selector \in q.seen.selectors

CountInv ==
  /\ WorldOK /\ OneAtATime /\ page \subseteq Rows
  /\ site.open < 2 => /\ \A c \in Clusters \ moved : Promise(c)
                      /\ \A q \in requests : Seen(q)

\* A set in some order, each member once.
LEMMA SeqOfSet ==
  ASSUME NEW S, IsFiniteSet(S)
  PROVE  /\ Cardinality(S) \in Nat
         /\ SetToSeq(S) \in [1..Cardinality(S) -> S]
         /\ \A i, j \in 1..Cardinality(S) : SetToSeq(S)[i] = SetToSeq(S)[j] => i = j
<1>1. Cardinality(S) \in Nat /\ ExistsBijection(1..Cardinality(S), S)
  BY FS_CardinalityType
<1>2. PICK f \in [1..Cardinality(S) -> S] : IsInjective(f)
  BY <1>1 DEF ExistsBijection, Bijection, Injection, IsInjective
<1>3. SetToSeq(S) \in [1..Cardinality(S) -> S] /\ IsInjective(SetToSeq(S))
  BY <1>2 DEF SetToSeq
<1> QED BY <1>1, <1>3 DEF IsInjective

-----------------------------------------------------------------------------
(* Sums. *)

LEMMA InUnits ==
  ASSUME NEW count, NEW u
  PROVE  u \in Units(count) <=> \E x \in DOMAIN count : \E i \in 1..count[x] : u = <<x, i>>
<1>1. ASSUME NEW x, NEW n PROVE u \in {x} \X (1..n) <=> \E i \in 1..n : u = <<x, i>>
  OBVIOUS
<1>2. u \in Units(count) <=> \E x \in DOMAIN count : u \in {x} \X (1..count[x])
  BY Zenon DEF Units
<1> QED BY <1>1, <1>2, Zenon

LEMMA UnitsFinite ==
  ASSUME NEW D, IsFiniteSet(D), NEW count \in [D -> Nat]
  PROVE  IsFiniteSet(Units(count))
<1> DEFINE part(x) == {x} \X (1..count[x])
           T == {part(x) : x \in D}
           f == [x \in D |-> part(x)]
<1>1. ASSUME NEW x \in D PROVE IsFiniteSet(part(x))
  <2>1. count[x] \in Nat
    OBVIOUS
  <2>2. PICK n \in Nat : n = count[x]
    BY <2>1
  <2>3. IsFiniteSet(1..n)
    BY FS_Interval
  <2>4. IsFiniteSet({x})
    BY FS_Singleton
  <2>5. IsFiniteSet({x} \X (1..n))
    BY <2>3, <2>4, FS_Product
  <2> QED BY <2>2, <2>5
<1> HIDE DEF part
<1>2. f \in Surjection(D, T)
  BY DEF Surjection
<1>3. IsFiniteSet(T)
  BY <1>2, FS_Surjection
<1>4. IsFiniteSet(UNION T)
  BY <1>1, <1>3, FS_UNION
<1>5. UNION T = Units(count)
  BY DEF T, part, Units
<1> QED BY <1>4, <1>5

\* If each of some things is counted within a share of its own, the sum is
\* within the whole.
LEMMA SumWithin ==
  ASSUME NEW D, NEW count \in [D -> Nat],
         NEW H, IsFiniteSet(H), NEW room \in [H -> Nat],
         NEW share \in [D -> SUBSET H],
         \A x, y \in D : x # y => share[x] \intersect share[y] = {},
         \A x \in D : count[x] <= SumOf([h \in share[x] |-> room[h]])
  PROVE  SumOf(count) <= SumOf(room)
<1> DEFINE part == [x \in D |-> [h \in share[x] |-> room[h]]]
<1>1. ASSUME NEW x \in D
      PROVE  \E f \in [1..count[x] -> Units(part[x])] : \A i, j \in 1..count[x] : f[i] = f[j] => i = j
  <2>1. count[x] \in Nat /\ share[x] \in SUBSET H
    OBVIOUS
  <2>2. IsFiniteSet(share[x])
    BY <2>1, FS_Subset
  <2>3. part[x] \in [share[x] -> Nat]
    BY <2>1
  <2> DEFINE n == Cardinality(Units(part[x]))
  <2>4. n \in Nat /\ ExistsBijection(1..n, Units(part[x]))
    BY <2>2, <2>3, UnitsFinite, FS_CardinalityType
  <2> HIDE DEF n
  <2>5. PICK g \in [1..n -> Units(part[x])] : \A i, j \in 1..n : g[i] = g[j] => i = j
    <3> DEFINE U == Units(part[x])
    <3>1. ExistsBijection(1..n, U)
      BY <2>4
    <3> HIDE DEF U
    <3>2. \E g \in [1..n -> U] : \A i, j \in 1..n : g[i] = g[j] => i = j
      BY <3>1 DEF ExistsBijection, Bijection, Injection, IsInjective
    <3> QED BY <3>2 DEF U
  <2>6. count[x] <= n
    BY DEF SumOf, n
  <2> HIDE DEF n, part
  <2>7. 1..count[x] \subseteq 1..n
    BY <2>1, <2>4, <2>6
  <2> DEFINE f == [i \in 1..count[x] |-> g[i]]
  <2>8. f \in [1..count[x] -> Units(part[x])] /\ \A i, j \in 1..count[x] : f[i] = f[j] => i = j
    BY <2>5, <2>7
  <2> QED BY <2>8
<1>2. ASSUME NEW x \in D, NEW u \in Units(part[x])
      PROVE  u[1] \in share[x] /\ u \in Units(room)
  <2>1. PICK h \in share[x] : \E i \in 1..part[x][h] : u = <<h, i>>
    BY InUnits
  <2>2. h \in H /\ part[x][h] = room[h] /\ DOMAIN room = H
    OBVIOUS
  <2>3. \E i \in 1..room[h] : u = <<h, i>>
    BY <2>1, <2>2
  <2> QED BY <2>1, <2>2, <2>3, InUnits
<1> HIDE DEF part
<1> DEFINE at == [x \in D |-> CHOOSE f \in [1..count[x] -> Units(part[x])] :
                               \A i, j \in 1..count[x] : f[i] = f[j] => i = j]
<1>3. ASSUME NEW x \in D
      PROVE  /\ at[x] \in [1..count[x] -> Units(part[x])]
             /\ \A i, j \in 1..count[x] : at[x][i] = at[x][j] => i = j
  BY <1>1, Zenon
<1> HIDE DEF at
<1> DEFINE S == Units(count)
           f == [u \in S |-> at[u[1]][u[2]]]
<1>4. ASSUME NEW u \in S
      PROVE  /\ u[1] \in D /\ u[2] \in 1..count[u[1]] /\ u = <<u[1], u[2]>>
             /\ f[u] \in Units(part[u[1]])
  <2>0. PICK x \in D : \E i \in 1..count[x] : u = <<x, i>>
    BY InUnits
  <2>1. PICK i \in 1..count[x] : u = <<x, i>>
    BY <2>0
  <2>2. u[1] = x /\ u[2] = i
    BY <2>1
  <2>3. at[x][i] \in Units(part[x])
    BY <1>3
  <2> QED BY <2>1, <2>2, <2>3
<1>5. ASSUME NEW u \in S, NEW v \in S, f[u] = f[v] PROVE u = v
  <2>1. /\ u[1] \in D /\ u[2] \in 1..count[u[1]] /\ u = <<u[1], u[2]>> /\ f[u] \in Units(part[u[1]])
        /\ v[1] \in D /\ v[2] \in 1..count[v[1]] /\ v = <<v[1], v[2]>> /\ f[v] \in Units(part[v[1]])
    BY <1>4
  <2>2. f[u][1] \in share[u[1]] /\ f[u][1] \in share[v[1]]
    BY <2>1, <1>2, <1>5
  <2>3. u[1] = v[1]
    BY <2>1, <2>2, Zenon
  <2>4. f[u] = at[u[1]][u[2]] /\ f[v] = at[v[1]][v[2]]
    OBVIOUS
  <2> HIDE DEF f
  <2>5. u[2] = v[2]
    BY <2>1, <2>3, <2>4, <1>3, <1>5
  <2> QED BY <2>1, <2>3, <2>5, Zenon
<1>6. \A u \in S : f[u] \in Units(room)
  BY <1>2, <1>4
<1>7. f \in [S -> Units(room)]
  BY <1>6
<1> HIDE DEF f
<1>8. f \in Injection(S, Units(room))
  BY <1>5, <1>7 DEF Injection, IsInjective
<1>9. IsFiniteSet(Units(room))
  BY UnitsFinite
<1>10. Cardinality(S) <= Cardinality(Units(room))
  BY <1>8, <1>9, FS_Injection
<1> QED BY <1>10 DEF SumOf

\* The sum of one value.
LEMMA SumOfOne ==
  ASSUME NEW x, NEW count \in [{x} -> Nat]
  PROVE  SumOf(count) = count[x]
<1> DEFINE n == count[x]
           f == [i \in 1..n |-> <<x, i>>]
<1>1. n \in Nat
  OBVIOUS
<1>2. ASSUME NEW u PROVE u \in Units(count) <=> \E i \in 1..n : u = <<x, i>>
  <2>1. DOMAIN count = {x}
    OBVIOUS
  <2>2. u \in Units(count) <=> \E y \in DOMAIN count : \E i \in 1..count[y] : u = <<y, i>>
    BY InUnits
  <2> QED BY <2>1, <2>2
<1> HIDE DEF n
<1>3. f \in Bijection(1..n, Units(count))
  BY <1>2 DEF Bijection, Injection, Surjection, IsInjective
<1>4. IsFiniteSet(1..n) /\ Cardinality(1..n) = n
  BY <1>1, FS_Interval, SMTT(30)
<1> HIDE DEF f
<1>5. Cardinality(Units(count)) = n
  BY <1>3, <1>4, FS_Bijection DEF ExistsBijection
<1> QED BY <1>5 DEF n, SumOf

-----------------------------------------------------------------------------
(* What a cluster's rows promise. *)

LEMMA AlikeMatched ==
  ASSUME NEW ns, NEW ms, Alike(ns, ms), NEW s
  PROVE  /\ Matched(ms, s) = Matched(ns, s)
         /\ \A hs \in SUBSET DOMAIN ns : CardsOf(ms, hs) = CardsOf(ns, hs)
<1>1. Matched(ms, s) = Matched(ns, s)
  BY DEF Alike, Matched
<1>2. ASSUME NEW hs \in SUBSET DOMAIN ns PROVE CardsOf(ms, hs) = CardsOf(ns, hs)
  <2>1. [h \in hs |-> ms[h].cards] = [h \in hs |-> ns[h].cards]
    BY DEF Alike
  <2> QED BY <2>1 DEF CardsOf
<1> QED BY <1>1, <1>2

LEMMA CardsMore ==
  ASSUME NEW ns, NodesOK(ns), NEW hs, NEW ks, hs \subseteq ks, ks \subseteq DOMAIN ns
  PROVE  CardsOf(ns, ks) \in Nat /\ CardsOf(ns, hs) \in Nat /\ CardsOf(ns, hs) <= CardsOf(ns, ks)
<1> DEFINE few == [h \in hs |-> ns[h].cards]
           more == [h \in ks |-> ns[h].cards]
<1>1. IsFiniteSet(ks)
  BY FiniteAssumption, FS_Subset DEF NodesOK
<1>2. \A h \in ks : ns[h].cards \in Nat
  BY DEF NodesOK, NodeRows
<1>3. IsFiniteSet(hs) /\ more \in [ks -> Nat] /\ few \in [hs -> Nat]
  BY <1>1, <1>2, FS_Subset
<1>4. IsFiniteSet(Units(more)) /\ IsFiniteSet(Units(few))
  BY <1>1, <1>3, UnitsFinite
<1>5. Units(few) \subseteq Units(more)
  <2> SUFFICES ASSUME NEW u \in Units(few) PROVE u \in Units(more)
    OBVIOUS
  <2>1. PICK h \in hs : \E i \in 1..few[h] : u = <<h, i>>
    BY InUnits
  <2>2. h \in ks /\ few[h] = more[h]
    OBVIOUS
  <2> QED BY <2>1, <2>2, InUnits
<1> HIDE DEF few, more
<1>6. /\ Cardinality(Units(more)) \in Nat /\ Cardinality(Units(few)) \in Nat
      /\ Cardinality(Units(few)) <= Cardinality(Units(more))
  BY <1>4, <1>5, FS_Subset, FS_CardinalityType
<1> QED BY <1>6 DEF few, more, CardsOf, SumOf

\* The nodes of a cluster as far as a promise depends on them.
SameNodes(w, v) == v.access = w.access /\ v.quota = w.quota /\ Alike(w.nodes, v.nodes)

LEMMA StillBacked ==
  ASSUME NEW row, NEW w, NEW v, Backed(row, w), SameNodes(w, v)
  PROVE  Backed(row, v)
<1>1. Matched(v.nodes, row.selector) = Matched(w.nodes, row.selector)
  BY AlikeMatched DEF SameNodes
<1>2. Matched(w.nodes, row.selector) \in SUBSET DOMAIN w.nodes
  BY DEF Matched
<1>3. CardsOf(v.nodes, Matched(w.nodes, row.selector)) = CardsOf(w.nodes, Matched(w.nodes, row.selector))
  BY <1>2, AlikeMatched DEF SameNodes
<1> QED BY <1>1, <1>3, Zenon DEF Backed, SameNodes

LEMMA StillApart ==
  ASSUME NEW x, NEW y, NEW w, NEW v, Apart(x, y, w), SameNodes(w, v)
  PROVE  Apart(x, y, v)
<1>1. \A s : Matched(v.nodes, s) = Matched(w.nodes, s)
  BY AlikeMatched DEF SameNodes
<1> QED BY <1>1 DEF Apart, SameNodes

\* Rows that promise what they have, on nodes of their own, count each card
\* once.
LEMMA PromiseCounts ==
  ASSUME CountInv, NEW c \in Clusters \ moved, site.open < 2
  PROVE  SumOf([m \in Listed(c) |-> machines[m].gpu_count])
           <= IF world[c].access = "readable" THEN CardsOf(world[c].nodes, DOMAIN world[c].nodes)
              ELSE IF world[c].quota = None THEN 0 ELSE world[c].quota
<1>1. Promise(c) /\ NodesOK(world[c].nodes) /\ world[c].quota \in Nat \union {None}
  BY DEF CountInv, WorldOK
<1> DEFINE D == Listed(c)
           ns == world[c].nodes
           count == [m \in D |-> machines[m].gpu_count]
<1>2. count \in [D -> Nat]
  BY <1>1 DEF Promise, Backed
<1>3. CASE world[c].access = "readable"
  <2> DEFINE H == DOMAIN ns
             room == [h \in H |-> ns[h].cards]
             share == [m \in D |-> Matched(ns, machines[m].selector)]
  <2>1. IsFiniteSet(H)
    BY <1>1, FiniteAssumption, FS_Subset DEF NodesOK
  <2>2. room \in [H -> Nat]
    BY <1>1 DEF NodesOK, NodeRows
  <2>3. share \in [D -> SUBSET H]
    BY DEF Matched
  <2>4. \A m, n \in D : m # n => share[m] \intersect share[n] = {}
    BY <1>1 DEF Promise, Apart
  <2>5. ASSUME NEW m \in D PROVE count[m] <= SumOf([h \in share[m] |-> room[h]])
    <3>1. count[m] <= CardsOf(ns, share[m])
      BY <1>1, <1>3 DEF Promise, Backed
    <3>2. share[m] \in SUBSET H
      BY <2>3
    <3> HIDE DEF share, count
    <3>3. [h \in share[m] |-> ns[h].cards] = [h \in share[m] |-> room[h]]
      BY <3>2
    <3> QED BY <3>1, <3>3 DEF CardsOf
  <2> HIDE DEF share, count, D
  <2>6. SumOf(count) <= SumOf(room)
    <3> HIDE DEF room, H
    <3> QED BY <1>2, <2>1, <2>2, <2>3, <2>4, <2>5, SumWithin
  <2>7. SumOf(room) = CardsOf(ns, DOMAIN ns)
    BY DEF CardsOf
  <2>8. SumOf([m \in Listed(c) |-> machines[m].gpu_count]) = SumOf(count)
    BY DEF count, D
  <2> HIDE DEF room
  <2> QED BY <1>3, <2>6, <2>7, <2>8
<1>4. CASE world[c].access # "readable" /\ D = {}
  <2>1. Units(count) = {}
    BY <1>4 DEF Units
  <2>2. SumOf(count) = 0
    BY <2>1, FS_EmptySet DEF SumOf
  <2> QED BY <1>1, <1>4, <2>2
<1>5. CASE world[c].access # "readable" /\ D # {}
  <2>1. PICK m \in D : TRUE
    BY <1>5
  <2>2. D = {m}
    BY <1>1, <1>5, <2>1 DEF Promise, Apart
  <2>3. count[m] <= world[c].quota /\ world[c].quota # None
    BY <1>1, <1>5, <2>1 DEF Promise, Backed
  <2>4. count \in [{m} -> Nat]
    BY <1>2, <2>2
  <2> HIDE DEF count
  <2>5. SumOf(count) = count[m]
    BY <2>4, SumOfOne
  <2> QED BY <1>5, <2>3, <2>5 DEF count
<1> QED BY <1>3, <1>4, <1>5

LEMMA BackedBy ==
  ASSUME NEW row, NEW w, Backed(row, w), NEW y, y.selector = row.selector, y.gpu_count \in Nat,
         w.access = "readable" => y.gpu_count <= CardsOf(w.nodes, Matched(w.nodes, row.selector)),
         w.access # "readable" => y.gpu_count <= w.quota
  PROVE  Backed(y, w)
BY DEF Backed

\* Reading the cards again keeps a promise.
LEMMA RereadBacked ==
  ASSUME WorldOK, NEW c \in Clusters, NEW row, IsRow(row), row.driver = "k8s", row.cluster = c,
         Backed(row, world[c])
  PROVE  LET y == record_capacity(row, probe_capacity(row)) IN
         Backed(y, world[c]) /\ y.selector = row.selector
<1> DEFINE p == probe_capacity(row)
           w == world[c]
           t == IF p.gpu_type # "" THEN p.gpu_type ELSE row.gpu_type
<1>1. ASSUME NEW n \in Nat, NEW k,
             w.access = "readable" => n <= CardsOf(w.nodes, Matched(w.nodes, row.selector)),
             w.access # "readable" => n <= w.quota
      PROVE  LET y == [row EXCEPT !.gpu_count = n, !.gpu_type = k] IN
             Backed(y, w) /\ y.selector = row.selector
  <2> DEFINE y == [row EXCEPT !.gpu_count = n, !.gpu_type = k]
  <2>1. y.gpu_count = n /\ y.selector = row.selector
    BY DEF IsRow, RowFields
  <2> HIDE DEF y, w
  <2>2. Backed(row, w)
    BY DEF w
  <2>3. Backed(y, w)
    BY <1>1, <2>1, <2>2, BackedBy
  <2> QED BY <2>1, <2>3, Zenon DEF y
<1> DEFINE new == [row EXCEPT !.gpu_count = p.gpu_count, !.gpu_type = t]
<1>2. record_capacity(row, p) = row \/ record_capacity(row, p) = new
  <2> HIDE DEF p
  <2> QED BY Zenon DEF record_capacity
<1>0. ~(p.supported /\ (p.nodes > 0 \/ p.quota)) => record_capacity(row, p) = row
  <2> HIDE DEF p
  <2> QED BY Zenon DEF record_capacity
<1>3. CASE record_capacity(row, p) = row
  BY <1>3
<1>4. ASSUME p.supported, p.nodes > 0 \/ p.quota
      PROVE  /\ p.gpu_count \in Nat
             /\ w.access = "readable" => p.gpu_count <= CardsOf(w.nodes, Matched(w.nodes, row.selector))
             /\ w.access # "readable" => p.gpu_count <= w.quota
  <2>1. c # None /\ clusters[c] # None /\ row.cluster # None
    <3>1. ~NoCapacity.supported
      BY DEF NoCapacity
    <3> QED BY <1>4, <3>1 DEF probe_capacity
  <2>2. w.access # "down"
    <3> DEFINE down == [NoCapacity EXCEPT !.supported = TRUE]
    <3>1. down.nodes = 0 /\ down.quota = FALSE
      BY DEF NoCapacity
    <3>2. w.access = "down" => p = down
      BY <2>1, Zenon DEF probe_capacity
    <3> HIDE DEF p, down
    <3> QED BY <1>4, <3>1, <3>2
  <2> DEFINE hit == Matched(w.nodes, row.selector)
             usable == {h \in hit : node_takes_pods(w.nodes[h])}
             total == CardsOf(w.nodes, usable)
  <2>3. CASE w.access = "readable"
    <3>1. row.selector.by # "all"
      BY <2>3 DEF Backed
    <3>2. p.gpu_count = IF total > 0 /\ w.quota # None /\ w.quota < total THEN w.quota ELSE total
      BY <2>1, <2>3, <3>1 DEF probe_capacity
    <3>3. /\ NodesOK(w.nodes) /\ w.quota \in Nat \union {None}
      BY DEF WorldOK
    <3>4. usable \subseteq hit /\ hit \subseteq DOMAIN w.nodes
      BY DEF Matched
    <3> HIDE DEF usable, hit, w, p
    <3>5. total \in Nat /\ total <= CardsOf(w.nodes, hit)
      BY <3>3, <3>4, CardsMore
    <3> HIDE DEF total
    <3>6. p.gpu_count \in Nat /\ p.gpu_count <= total
      BY <3>2, <3>3, <3>5
    <3>7. CardsOf(w.nodes, hit) \in Nat
      BY <3>3, <3>4, CardsMore
    <3> QED BY <2>3, <3>5, <3>6, <3>7 DEF hit
  <2>4. CASE w.access # "readable"
    <3>1. row.selector.by = "all" /\ w.quota # None
      BY <2>4 DEF Backed
    <3>2. p = quota_capacity(c)
      BY <2>1, <2>2, <3>1, Zenon DEF probe_capacity
    <3>3. w.quota \in Nat
      BY <3>1 DEF WorldOK
    <3>4. quota_capacity(c).gpu_count = w.quota
      BY <3>1 DEF quota_capacity, NoCapacity
    <3> HIDE DEF p, w
    <3> QED BY <2>4, <3>2, <3>3, <3>4
  <2> QED BY <2>3, <2>4
<1>5. CASE /\ p.supported /\ (p.nodes > 0 \/ p.quota)
           /\ record_capacity(row, p) = new
  <2>1. PICK n \in Nat : n = p.gpu_count
    BY <1>4, <1>5
  <2>2. /\ w.access = "readable" => n <= CardsOf(w.nodes, Matched(w.nodes, row.selector))
        /\ w.access # "readable" => n <= w.quota
    BY <1>4, <1>5, <2>1
  <2> HIDE DEF p, w, t
  <2>3. PICK k : k = t
    OBVIOUS
  <2> DEFINE y == [row EXCEPT !.gpu_count = n, !.gpu_type = k]
  <2>4. Backed(y, w) /\ y.selector = row.selector
    BY <1>1, <2>2
  <2>5. record_capacity(row, p) = y
    BY <1>5, <2>1, <2>3
  <2> QED BY <2>4, <2>5, Zenon DEF p, w
<1> HIDE DEF new, p, w
<1> QED BY <1>0, <1>2, <1>3, <1>5 DEF p, w

\* A step that adds no row to a page.
LEMMA NothingListed ==
  ASSUME CountInv, site' = site, moved \subseteq moved', WorldOK', OneAtATime',
         page' \subseteq Rows',
         \A c \in Clusters \ moved' : SameNodes(world[c], world'[c]),
         \A c \in Clusters \ moved' : \A m \in Listed(c)' :
            /\ m \in Listed(c) /\ machines'[m].selector = machines[m].selector
            /\ Promise(c) => Backed(machines'[m], world[c]),
         \A q \in requests' : (q \in requests /\ (q.op # "edit" => q.on \in Clusters)) \/ Seen(q)'
  PROVE  CountInv'
<1> SUFFICES ASSUME site.open < 2
             PROVE  /\ \A c \in Clusters \ moved' : Promise(c)'
                    /\ \A q \in requests' : Seen(q)'
  BY Zenon DEF CountInv
<1>1. ASSUME NEW c \in Clusters \ moved' PROVE Promise(c)'
  <2>1. Promise(c) /\ SameNodes(world[c], world'[c])
    BY <1>1 DEF CountInv
  <2>2. ASSUME NEW m \in Listed(c)' PROVE Backed(machines'[m], world'[c])
    BY <2>1, StillBacked
  <2>3. ASSUME NEW m \in Listed(c)', NEW n \in Listed(c)', m # n
        PROVE  Apart(machines'[m], machines'[n], world'[c])
    <3>1. Apart(machines[m], machines[n], world[c])
      BY <2>1, <2>3 DEF Promise
    <3>2. Apart(machines[m], machines[n], world'[c])
      BY <2>1, <3>1, StillApart
    <3>3. machines'[m].selector = machines[m].selector /\ machines'[n].selector = machines[n].selector
      OBVIOUS
    <3> QED BY <3>2, <3>3 DEF Apart
  <2> QED BY <2>2, <2>3 DEF Promise
<1>2. ASSUME NEW q \in requests', q \in requests, q.op # "edit" => q.on \in Clusters PROVE Seen(q)'
  <2>1. Seen(q)
    BY <1>2 DEF CountInv
  <2> SUFFICES ASSUME q.op # "edit", q.on \notin moved'
               PROVE  /\ q.seen.readable <=> world'[q.on].access = "readable"
                      /\ q.seen.quota = world'[q.on].quota
                      /\ Alike(q.seen.nodes, world'[q.on].nodes)
                      /\ \A m \in Listed(q.on)' : machines'[m].selector \in q.seen.selectors
    BY <2>1 DEF Seen
  <2>2. q.on \in Clusters \ moved' /\ SameNodes(world[q.on], world'[q.on])
    BY <1>2
  <2>3. /\ q.seen.readable <=> world[q.on].access = "readable"
        /\ q.seen.quota = world[q.on].quota
        /\ Alike(q.seen.nodes, world[q.on].nodes)
        /\ \A m \in Listed(q.on) : machines[m].selector \in q.seen.selectors
    BY <2>1, <2>2 DEF Seen
  <2>4. Alike(q.seen.nodes, world'[q.on].nodes)
    BY <2>2, <2>3 DEF SameNodes, Alike
  <2>5. \A m \in Listed(q.on)' : machines'[m].selector \in q.seen.selectors
    BY <2>2, <2>3
  <2> QED BY <2>2, <2>3, <2>4, <2>5 DEF SameNodes
<1> QED BY <1>1, <1>2

\* A listed row after a step: it keeps what it promises, or its cards were read
\* again.
Kept(x, y) ==
  \/ /\ y.driver = x.driver /\ y.cluster = x.cluster
     /\ y.selector = x.selector /\ y.gpu_count = x.gpu_count
  \/ y = record_capacity(x, probe_capacity(x))

LEMMA RowsMove ==
  ASSUME CountInv, RegInv, UNCHANGED <<site, world, moved>>, requests' \subseteq requests,
         page' \subseteq page, DOMAIN machines' = Machines,
         \A m \in page' : machines'[m] # NoRow /\ Kept(machines[m], machines'[m])
  PROVE  CountInv'
<1>1. WorldOK' /\ moved \subseteq moved'
  BY Zenon DEF CountInv, WorldOK
<1>2. OneAtATime'
  BY FS_Subset, SMT DEF CountInv, OneAtATime
<1>3. page' \subseteq Rows' /\ page' \subseteq Rows
  BY DEF CountInv, Rows
<1>4. ASSUME NEW c \in Clusters \ moved' PROVE SameNodes(world[c], world'[c])
  BY DEF SameNodes, Alike
<1>5. ASSUME NEW c \in Clusters \ moved', NEW m \in Listed(c)'
      PROVE  /\ m \in Listed(c) /\ machines'[m].selector = machines[m].selector
             /\ Promise(c) => Backed(machines'[m], world[c])
  <2>1. /\ m \in page' /\ m \in page /\ m \in Rows /\ IsRow(machines[m])
        /\ machines'[m].driver = "k8s" /\ machines'[m].cluster = c
    BY <1>3 DEF Listed, On, Rows, RegInv, Shapes
  <2> DEFINE x == machines[m]
             y == machines'[m]
  <2>2. Kept(x, y)
    BY <2>1
  <2>3. CASE /\ y.driver = x.driver /\ y.cluster = x.cluster
             /\ y.selector = x.selector /\ y.gpu_count = x.gpu_count
    <3>0. x.driver = "k8s" /\ x.cluster = c
      BY <2>1, <2>3
    <3>1. m \in Listed(c)
      BY <2>1, <3>0 DEF Listed, On
    <3>2. Promise(c) => Backed(x, world[c])
      BY <3>1 DEF Promise
    <3>3. Backed(x, world[c]) => Backed(y, world[c])
      <4>1. PICK w : w = world[c]
        OBVIOUS
      <4> HIDE DEF x, y
      <4>2. ASSUME Backed(x, w) PROVE Backed(y, w)
        <5>1. /\ x.gpu_count \in Nat
              /\ w.access = "readable" => x.gpu_count <= CardsOf(w.nodes, Matched(w.nodes, x.selector))
              /\ w.access # "readable" => x.gpu_count <= w.quota
          BY <4>2 DEF Backed
        <5> QED BY <2>3, <4>2, <5>1, BackedBy, Zenon
      <4> QED BY <4>1, <4>2
    <3> QED BY <2>3, <3>1, <3>2, <3>3
  <2>4. CASE y = record_capacity(x, probe_capacity(x))
    <3>1. y.driver = x.driver /\ y.cluster = x.cluster
      <4>1. IsRow(x)
        BY <2>1
      <4>2. PICK p : p = probe_capacity(x)
        OBVIOUS
      <4> HIDE DEF x, y
      <4>3. y = record_capacity(x, p)
        BY <2>4, <4>2, Zenon
      <4> QED BY <4>1, <4>3, CapacityKeeps, Zenon
    <3>0. machines[m].driver = "k8s" /\ machines[m].cluster = c
      <4> HIDE DEF x, y
      <4>1. x.driver = "k8s" /\ x.cluster = c
        BY <2>1, <3>1, Zenon DEF y
      <4> QED BY <4>1 DEF x
    <3>2. m \in Listed(c)
      <4> HIDE <2>4
      <4> QED BY <2>1, <3>0, Zenon DEF Listed, On
    <3>3. ASSUME Promise(c) PROVE Backed(y, world[c])
      <4>1. Backed(x, world[c])
        BY <3>2, <3>3 DEF Promise
      <4> HIDE DEF x
      <4>2. WorldOK /\ c \in Clusters
        BY DEF CountInv
      <4>3. IsRow(x) /\ x.driver = "k8s" /\ x.cluster = c
        BY <2>1, <3>1 DEF x
      <4> QED BY <2>4, <4>1, <4>2, <4>3, RereadBacked, Zenon
    <3>4. y.selector = x.selector
      <4>1. \/ y = x \/ \E n, k : y = [x EXCEPT !.gpu_count = n, !.gpu_type = k]
        BY <2>4, Zenon DEF record_capacity
      <4> HIDE DEF x, y
      <4>2. DOMAIN x = RowFields
        BY <2>1 DEF x, IsRow
      <4>3. ASSUME NEW n, NEW k, y = [x EXCEPT !.gpu_count = n, !.gpu_type = k]
            PROVE  y.selector = x.selector
        BY <4>2, <4>3 DEF RowFields
      <4> QED BY <4>1, <4>3, Zenon
    <3> QED BY <3>2, <3>3, <3>4
  <2> QED BY <2>2, <2>3, <2>4 DEF Kept
<1>6. ASSUME NEW q \in requests' PROVE q \in requests /\ (q.op # "edit" => q.on \in Clusters)
  BY Zenon DEF RegInv, RequestsOK
<1> QED BY <1>1, <1>2, <1>3, <1>4, <1>5, <1>6, NothingListed, Zenon

\* Nothing the promises depend on moves.
LEMMA CountElsewhere ==
  ASSUME CountInv, RegInv, UNCHANGED <<site, machines, world, page, moved>>,
         requests' \subseteq requests
  PROVE  CountInv'
<1>1. DOMAIN machines' = Machines
  BY Zenon DEF RegInv, Shapes
<1>2. \A m \in page' : machines'[m] # NoRow /\ Kept(machines[m], machines'[m])
  BY DEF CountInv, Rows, Kept
<1> QED BY <1>1, <1>2, RowsMove, SMT

LEMMA StateKept ==
  ASSUME NEW x, IsRow(x), NEW s
  PROVE  Kept(x, [x EXCEPT !.state = s]) /\ [x EXCEPT !.state = s] # NoRow
<1> DEFINE y == [x EXCEPT !.state = s]
<1>1. /\ y.driver = x.driver /\ y.cluster = x.cluster
      /\ y.selector = x.selector /\ y.gpu_count = x.gpu_count
  BY DEF IsRow, RowFields
<1>2. IsRow(y)
  BY StateSet, Zenon
<1> HIDE DEF y
<1>3. Kept(x, y) /\ y # NoRow
  BY <1>1, <1>2, RowIsThere, Zenon DEF Kept
<1> QED BY <1>3, Zenon DEF y

LEMMA RereadKept ==
  ASSUME NEW x, IsRow(x)
  PROVE  LET y == record_capacity(x, probe_capacity(x)) IN Kept(x, y) /\ y # NoRow
BY CapacityKeeps, RowIsThere, Zenon DEF Kept

LEMMA SelfKept == ASSUME NEW x PROVE Kept(x, x)
BY Zenon DEF Kept

\* One row of the registry is replaced, the rest stay.
LEMMA OneKept ==
  ASSUME CountInv, RegInv, UNCHANGED <<site, world, moved>>, requests' \subseteq requests,
         NEW m \in Machines, NEW y, machines' = [machines EXCEPT ![m] = y], page' \subseteq page,
         m \in page' => y # NoRow /\ Kept(machines[m], y)
  PROVE  CountInv'
<1>1. DOMAIN machines' = Machines /\ DOMAIN machines = Machines
  BY SMT DEF RegInv, Shapes
<1>2. \A x \in page' : x \in Machines /\ machines[x] # NoRow
  BY DEF CountInv, Rows
<1>3. ASSUME NEW x \in page' PROVE machines'[x] # NoRow /\ Kept(machines[x], machines'[x])
  BY <1>1, <1>2, SelfKept, Zenon
<1> QED BY <1>1, <1>3, RowsMove, Zenon

LEMMA PageRow ==
  ASSUME CountInv, RegInv, NEW m \in page
  PROVE  m \in Rows /\ m \in Machines /\ IsRow(machines[m])
BY DEF CountInv, RegInv, Shapes, Rows

LEMMA CountCreateMachine ==
  ASSUME CountInv, RegInv, NEW m \in Machines, NEW b \in Forms, create_machine(m, b)
  PROVE  CountInv'
<1>1. \E y : machines' = [machines EXCEPT ![m] = y]
  BY Zenon DEF create_machine
<1>2. UNCHANGED <<site, world, moved, requests, page>> /\ m \in Free
  BY Zenon DEF create_machine, ghosts
<1>3. m \notin page'
  BY <1>2 DEF CountInv, Free
<1> QED BY <1>1, <1>2, <1>3, OneKept

LEMMA CountWriteMachine ==
  ASSUME CountInv, RegInv, NEW q \in requests, write_machine(q)
  PROVE  CountInv'
<1>1. CASE Refused(q)
  <2>1. UNCHANGED <<site, machines, world, page, moved>>
    BY <1>1, Zenon DEF Refused, registry, ghosts
  <2>2. requests' \subseteq requests
    BY <1>1 DEF Refused, Close
  <2> QED BY <2>1, <2>2, CountElsewhere
<1>2. CASE ~Refused(q)
  <2>1. /\ q.on \in Rows /\ Close(q) /\ page' = page \ {q.on} /\ UNCHANGED <<site, world, moved>>
    BY <1>2, Zenon DEF write_machine
  <2>2. \E y : machines' = [machines EXCEPT ![q.on] = y]
    BY <1>2, Zenon DEF write_machine
  <2>3. requests' \subseteq requests /\ q.on \in Machines /\ page' \subseteq page /\ q.on \notin page'
    BY <2>1 DEF Close, Rows
  <2> QED BY <2>1, <2>2, <2>3, OneKept
<1> QED BY <1>1, <1>2

LEMMA CountReread ==
  ASSUME CountInv, RegInv, NEW m \in Machines, reread_machine(m)
  PROVE  CountInv'
<1> DEFINE y == record_capacity(machines[m], probe_capacity(machines[m]))
<1>1. /\ UNCHANGED <<site, world, moved, requests, page>> /\ machines' = [machines EXCEPT ![m] = y]
  BY Zenon DEF reread_machine, ghosts
<1>2. m \in page => y # NoRow /\ Kept(machines[m], y)
  BY PageRow, RereadKept, Zenon
<1> HIDE DEF y
<1> QED BY <1>1, <1>2, OneKept

LEMMA CountDeleteMachine ==
  ASSUME CountInv, RegInv, NEW m \in Machines, delete_machine(m)
  PROVE  CountInv'
<1>1. /\ UNCHANGED <<site, world, moved, requests>> /\ page' = page \ {m}
      /\ machines' = [machines EXCEPT ![m] = NoRow]
  BY Zenon DEF delete_machine
<1>2. m \notin page' /\ page' \subseteq page /\ requests' \subseteq requests
  BY <1>1
<1> QED BY <1>1, <1>2, OneKept

LEMMA CountSetState ==
  ASSUME CountInv, RegInv, NEW m \in Machines, NEW s,
         machines' = [machines EXCEPT ![m] = [machines[m] EXCEPT !.state = s]],
         UNCHANGED <<site, world, moved, requests, page>>
  PROVE  CountInv'
<1> DEFINE y == [machines[m] EXCEPT !.state = s]
<1>1. machines' = [machines EXCEPT ![m] = y]
  BY Zenon
<1>2. m \in page => y # NoRow /\ Kept(machines[m], y)
  BY PageRow, StateKept, Zenon
<1> HIDE DEF y
<1> QED BY <1>1, <1>2, OneKept

LEMMA CountRefresh ==
  ASSUME CountInv, RegInv, refresh_k8s_capacity
  PROVE  CountInv'
<1>1. UNCHANGED <<site, world, moved, requests, page>>
  BY Zenon DEF refresh_k8s_capacity, ghosts
<1>2. DOMAIN machines' = Machines
  BY Zenon DEF refresh_k8s_capacity
<1>3. ASSUME NEW m \in page' PROVE machines'[m] # NoRow /\ Kept(machines[m], machines'[m])
  <2> DEFINE y == record_capacity(machines[m], probe_capacity(machines[m]))
  <2>1. m \in Machines /\ IsRow(machines[m])
    BY <1>1, PageRow
  <2>2. machines'[m] = machines[m] \/ machines'[m] = y
    BY <2>1, Zenon DEF refresh_k8s_capacity
  <2>3. y # NoRow /\ Kept(machines[m], y) /\ machines[m] # NoRow
    BY <2>1, RereadKept, RowIsThere, Zenon
  <2> HIDE DEF y
  <2> QED BY <2>2, <2>3, SelfKept, Zenon
<1> QED BY <1>1, <1>2, <1>3, RowsMove, SMT

LEMMA CountWorker ==
  ASSUME CountInv, RegInv, Worker
  PROVE  CountInv'
<1>1. ASSUME NEW r \in Runs, NEW k \in Campaigns, NEW m \in Machines, Launch(r, k, m)
      PROVE  CountInv'
  <2>1. /\ machines' = [machines EXCEPT ![m] = [machines[m] EXCEPT !.state = "RESERVED"]]
        /\ UNCHANGED <<site, world, moved, requests, page>>
    BY <1>1, Zenon DEF Launch
  <2> QED BY <2>1, CountSetState, Zenon
<1>2. ASSUME NEW r \in Runs, NEW ok \in BOOLEAN, EndRun(r, ok)
      PROVE  CountInv'
  <2> DEFINE m == runs[r].machine
  <2>1. UNCHANGED <<site, world, moved, requests, page>> /\ m \in Machines
    BY <1>2, Zenon DEF EndRun, ghosts, Rows
  <2>2. \/ machines' = machines
        \/ machines' = [machines EXCEPT ![m] = [machines[m] EXCEPT !.state = "AVAILABLE"]]
    BY <1>2, Zenon DEF EndRun, Released
  <2>3. CASE machines' = machines
    BY <2>1, <2>3, CountElsewhere, SMT
  <2>4. CASE machines' = [machines EXCEPT ![m] = [machines[m] EXCEPT !.state = "AVAILABLE"]]
    <3> HIDE DEF m
    <3> QED BY <2>1, <2>4, CountSetState, Zenon
  <2> QED BY <2>2, <2>3, <2>4
<1>3. ASSUME NEW c \in Clusters, Expire(c) PROVE CountInv'
  <2>1. UNCHANGED <<site, machines, world, page, moved, requests>>
    BY <1>3, Zenon DEF Expire, registry, ghosts
  <2> QED BY <2>1, CountElsewhere, SMT
<1> QED BY <1>1, <1>2, <1>3, CountRefresh, Zenon DEF Worker

\* One more open request.
LEMMA CountOpen ==
  ASSUME CountInv, RegInv, UNCHANGED <<site, machines, world, page, moved>>,
         NEW q, Open(q), Cardinality(requests) < site.open, Seen(q)
  PROVE  CountInv'
<1>1. WorldOK' /\ moved \subseteq moved'
  BY Zenon DEF CountInv, WorldOK
<1>2. OneAtATime'
  <2>1. IsFiniteSet(requests) /\ site.open \in Nat /\ requests' = requests \union {q} /\ site' = site
    BY SitesAssumption, Zenon DEF CountInv, OneAtATime, WorldOK, SiteOK, Open
  <2>2. IsFiniteSet(requests')
    BY <2>1, FS_AddElement
  <2>3. ASSUME site.open < 2 PROVE \A x, y \in requests' : x = y
    <3>1. Cardinality(requests) \in Nat
      BY <2>1, FS_CardinalityType
    <3>2. Cardinality(requests) = 0
      BY <2>1, <2>3, <3>1
    <3>3. requests = {}
      BY <2>1, <3>2, FS_EmptySet
    <3> QED BY <2>1, <3>3
  <2> QED BY <2>1, <2>2, <2>3 DEF OneAtATime
<1>3. page' \subseteq Rows' /\ Listed(q.on)' = Listed(q.on)
  BY DEF CountInv, Rows, Listed, On
<1>4. ASSUME NEW c \in Clusters \ moved' PROVE SameNodes(world[c], world'[c])
  BY DEF SameNodes, Alike
<1>5. ASSUME NEW c \in Clusters \ moved', NEW m \in Listed(c)'
      PROVE  /\ m \in Listed(c) /\ machines'[m].selector = machines[m].selector
             /\ Promise(c) => Backed(machines'[m], world[c])
  BY DEF Listed, On, Rows, Promise
<1>6. Seen(q)'
  BY <1>3, Zenon DEF Seen
<1>7. ASSUME NEW p \in requests'
      PROVE  (p \in requests /\ (p.op # "edit" => p.on \in Clusters)) \/ Seen(p)'
  BY <1>6, Zenon DEF RegInv, RequestsOK, Open
<1> QED BY <1>1, <1>2, <1>3, <1>4, <1>5, <1>7, NothingListed, Zenon

LEMMA CountOpenRegistration ==
  ASSUME CountInv, RegInv, NEW c \in Clusters, NEW op, NEW what,
         \/ op = "nodes" /\ what \in SUBSET Hosts
         \/ op = "pools" /\ what \in SUBSET Products
         \/ op = "namespace",
         OpenRegistration(c, op, what)
  PROVE  CountInv'
<1> DEFINE v == nodes_view(c)
           q == [op |-> op, on |-> c, what |-> what, seen |-> v]
<1>1. /\ UNCHANGED <<site, machines, world, page, moved>> /\ Open(q)
      /\ Cardinality(requests) < site.open
  BY Zenon DEF OpenRegistration, registry, ghosts
<1>2. /\ v.readable = (world[c].access = "readable") /\ v.nodes = world[c].nodes
      /\ v.quota = world[c].quota /\ v.selectors = {machines[m].selector : m \in On(c)}
  BY DEF nodes_view
<1> HIDE DEF v
<1>3. q.op = op /\ q.on = c /\ q.what = what /\ q.seen = v
  OBVIOUS
<1> HIDE DEF q
<1>4. Alike(v.nodes, world[c].nodes)
  BY <1>2 DEF Alike
<1>5. \A m \in Listed(c) : machines[m].selector \in v.selectors
  BY <1>2 DEF Listed
<1>6. Seen(q)
  BY <1>2, <1>3, <1>4, <1>5, Zenon DEF Seen
<1> QED BY <1>1, <1>6, CountOpen, Zenon

LEMMA CountUpdateMachine ==
  ASSUME CountInv, RegInv, NEW m \in Machines, NEW b \in Forms, update_machine(m, b)
  PROVE  CountInv'
<1> DEFINE q == [op |-> "edit", on |-> m, what |-> b, seen |-> machines[m]]
<1>1. /\ UNCHANGED <<site, machines, world, page, moved>> /\ Open(q)
      /\ Cardinality(requests) < site.open
  BY Zenon DEF update_machine, registry, ghosts
<1>2. q.op = "edit"
  OBVIOUS
<1> HIDE DEF q
<1>3. Seen(q)
  BY <1>2, Zenon DEF Seen
<1> QED BY <1>1, <1>3, CountOpen, Zenon

-----------------------------------------------------------------------------
(* The clusters themselves. *)

LEMMA OneWorld ==
  ASSUME CountInv, RegInv, UNCHANGED <<site, machines, page, requests>>, moved \subseteq moved',
         NEW c \in Clusters, NEW v, world' = [world EXCEPT ![c] = v],
         DOMAIN v = {"nodes", "access", "quota"}, NodesOK(v.nodes), v.quota \in Nat \union {None},
         c \in moved' \/ SameNodes(world[c], v)
  PROVE  CountInv'
<1>1. DOMAIN world = Clusters /\ DOMAIN world' = Clusters
  BY DEF CountInv, WorldOK
<1>2. \A x \in Clusters : world'[x] = IF x = c THEN v ELSE world[x]
  BY <1>1
<1>3. WorldOK'
  <2>1. WorldOK
    BY DEF CountInv
  <2>2. \A x \in Clusters : /\ DOMAIN world'[x] = {"nodes", "access", "quota"}
                            /\ NodesOK(world'[x].nodes)
                            /\ world'[x].quota \in Nat \union {None}
    BY <1>2, <2>1 DEF WorldOK
  <2> QED BY <1>1, <2>1, <2>2 DEF WorldOK
<1>4. OneAtATime' /\ page' \subseteq Rows'
  BY DEF CountInv, OneAtATime, Rows
<1>5. ASSUME NEW x \in Clusters \ moved' PROVE SameNodes(world[x], world'[x])
  BY <1>2 DEF SameNodes, Alike
<1>6. ASSUME NEW x \in Clusters \ moved', NEW m \in Listed(x)'
      PROVE  /\ m \in Listed(x) /\ machines'[m].selector = machines[m].selector
             /\ Promise(x) => Backed(machines'[m], world[x])
  BY DEF Listed, On, Rows, Promise
<1>7. ASSUME NEW q \in requests' PROVE q \in requests /\ (q.op # "edit" => q.on \in Clusters)
  BY Zenon DEF RegInv, RequestsOK
<1> QED BY <1>3, <1>4, <1>5, <1>6, <1>7, NothingListed, Zenon

LEMMA OneNode ==
  ASSUME NEW w, DOMAIN w = {"nodes", "access", "quota"}, NodesOK(w.nodes),
         NEW h \in DOMAIN w.nodes, NEW n \in NodeRows
  PROVE  LET v == [w EXCEPT !.nodes = [w.nodes EXCEPT ![h] = n]] IN
         /\ DOMAIN v = {"nodes", "access", "quota"} /\ NodesOK(v.nodes) /\ v.quota = w.quota
         /\ n.cards = w.nodes[h].cards /\ n.product = w.nodes[h].product => SameNodes(w, v)
<1> DEFINE ns == [w.nodes EXCEPT ![h] = n]
           v == [w EXCEPT !.nodes = ns]
<1>1. NodesOK(ns)
  BY DEF NodesOK
<1>2. n.cards = w.nodes[h].cards /\ n.product = w.nodes[h].product => Alike(w.nodes, ns)
  BY DEF Alike
<1> HIDE DEF ns
<1>3. DOMAIN v = {"nodes", "access", "quota"} /\ v.nodes = ns /\ v.quota = w.quota /\ v.access = w.access
  OBVIOUS
<1> HIDE DEF v
<1>4. /\ DOMAIN v = {"nodes", "access", "quota"} /\ NodesOK(v.nodes) /\ v.quota = w.quota
      /\ n.cards = w.nodes[h].cards /\ n.product = w.nodes[h].product => SameNodes(w, v)
  BY <1>1, <1>2, <1>3 DEF SameNodes
<1> QED BY <1>4, Zenon DEF v, ns

LEMMA CountWorld ==
  ASSUME CountInv, RegInv, World
  PROVE  CountInv'
<1>1. \A c \in Clusters : /\ DOMAIN world[c] = {"nodes", "access", "quota"}
                          /\ NodesOK(world[c].nodes) /\ world[c].quota \in Nat \union {None}
  BY Zenon DEF CountInv, WorldOK
<1>2. ASSUME NEW c \in Clusters, NEW h \in DOMAIN world[c].nodes, NEW n \in NodeRows,
             world' = [world EXCEPT ![c] = [world[c] EXCEPT !.nodes = [world[c].nodes EXCEPT ![h] = n]]],
             UNCHANGED <<site, machines, page, requests>>, moved \subseteq moved',
             \/ c \in moved'
             \/ n.cards = world[c].nodes[h].cards /\ n.product = world[c].nodes[h].product
      PROVE  CountInv'
  <2>1. PICK w : w = world[c]
    OBVIOUS
  <2> DEFINE v == [w EXCEPT !.nodes = [w.nodes EXCEPT ![h] = n]]
  <2>2. world' = [world EXCEPT ![c] = v]
    BY <1>2, <2>1, Zenon
  <2>3. /\ DOMAIN v = {"nodes", "access", "quota"} /\ NodesOK(v.nodes) /\ v.quota = w.quota
        /\ n.cards = w.nodes[h].cards /\ n.product = w.nodes[h].product => SameNodes(w, v)
    BY <1>1, <2>1, OneNode, Zenon
  <2> HIDE DEF v
  <2>4. v.quota \in Nat \union {None}
    BY <1>1, <2>1, <2>3, Zenon
  <2>5. c \in moved' \/ SameNodes(world[c], v)
    BY <1>2, <2>1, <2>3, Zenon
  <2> QED BY <1>2, <2>2, <2>3, <2>4, <2>5, OneWorld, Zenon
<1>3. ASSUME NEW c \in Clusters, NEW h, NodeChanges(c, h) PROVE CountInv'
  <2>1. h \in DOMAIN world[c].nodes /\ UNCHANGED <<site, machines, page, requests, moved>>
    BY <1>3, Zenon DEF NodeChanges, registry, ghosts
  <2> DEFINE x == world[c].nodes[h]
             n1 == [x EXCEPT !.cordoned = ~x.cordoned]
             n2 == [x EXCEPT !.ready = ~x.ready]
  <2>2. \/ world' = [world EXCEPT ![c] = [world[c] EXCEPT !.nodes = [world[c].nodes EXCEPT ![h] = n1]]]
        \/ world' = [world EXCEPT ![c] = [world[c] EXCEPT !.nodes = [world[c].nodes EXCEPT ![h] = n2]]]
    BY <1>3, Zenon DEF NodeChanges
  <2>3. x \in NodeRows
    BY <1>1, <2>1 DEF NodesOK
  <2>4. /\ n1 \in NodeRows /\ n1.cards = x.cards /\ n1.product = x.product
        /\ n2 \in NodeRows /\ n2.cards = x.cards /\ n2.product = x.product
    <3> HIDE DEF x
    <3> QED BY <2>3 DEF NodeRows
  <2> HIDE DEF n1, n2
  <2> QED BY <1>2, <2>1, <2>2, <2>4, SMT
<1>4. ASSUME NEW c \in Clusters, NEW h, NEW p \in Products, Relabelled(c, h, p) PROVE CountInv'
  <2>1. /\ h \in DOMAIN world[c].nodes /\ UNCHANGED <<site, machines, page, requests>>
        /\ moved' = moved \union {c}
    BY <1>4, Zenon DEF Relabelled, registry
  <2> DEFINE x == world[c].nodes[h]
             n == [x EXCEPT !.product = p]
  <2>2. world' = [world EXCEPT ![c] = [world[c] EXCEPT !.nodes = [world[c].nodes EXCEPT ![h] = n]]]
    BY <1>4, Zenon DEF Relabelled
  <2>3. x \in NodeRows
    BY <1>1, <2>1 DEF NodesOK
  <2>4. n \in NodeRows
    <3> HIDE DEF x
    <3> QED BY <2>3 DEF NodeRows
  <2>5. moved \subseteq moved' /\ c \in moved'
    BY <2>1
  <2> HIDE DEF n
  <2> QED BY <1>2, <2>1, <2>2, <2>4, <2>5, Zenon
<1>5. ASSUME NEW c \in Clusters, NEW a, AccessChanges(c, a) PROVE CountInv'
  <2> DEFINE v == [world[c] EXCEPT !.access = a]
  <2>1. /\ UNCHANGED <<site, machines, page, requests>> /\ moved' = moved \union {c}
        /\ world' = [world EXCEPT ![c] = v]
    BY <1>5, Zenon DEF AccessChanges, registry
  <2>2. DOMAIN v = {"nodes", "access", "quota"} /\ v.nodes = world[c].nodes /\ v.quota = world[c].quota
    BY <1>1
  <2> HIDE DEF v
  <2>3. NodesOK(v.nodes) /\ v.quota \in Nat \union {None}
    BY <1>1, <2>2, Zenon
  <2>4. moved \subseteq moved' /\ c \in moved'
    BY <2>1
  <2> QED BY <2>1, <2>2, <2>3, <2>4, OneWorld, Zenon
<1> QED BY <1>3, <1>4, <1>5, Zenon DEF World

-----------------------------------------------------------------------------
(* Rows a page adds. *)

\* The free ids are taken in turn, each by one row.
LEMMA FreePlaces ==
  ASSUME NEW F \in SUBSET Nat, NEW m \in F, NEW n \in F,
         Cardinality({x \in F : x <= m}) = Cardinality({x \in F : x <= n})
  PROVE  m = n
<1>1. ASSUME NEW a \in F, NEW b \in F, a < b
      PROVE  Cardinality({x \in F : x <= a}) # Cardinality({x \in F : x <= b})
  <2> DEFINE A == {x \in F : x <= a}
             B == {x \in F : x <= b}
  <2>0. a \in Nat /\ b \in Nat /\ \A x \in F : x \in Nat
    OBVIOUS
  <2>1. A \in SUBSET B /\ b \in B /\ b \notin A
    <3>1. \A x \in Nat : x <= a => x <= b
      BY <1>1, <2>0
    <3>2. b <= b /\ ~(b <= a)
      BY <1>1, <2>0
    <3> QED BY <2>0, <3>1, <3>2, Zenon
  <2>2. B \in SUBSET Nat /\ b \in Nat /\ \A x \in B : x <= b
    OBVIOUS
  <2> HIDE DEF A, B
  <2>3. IsFiniteSet(B)
    BY <2>2, FS_BoundedSetOfNaturals
  <2>4. Cardinality(A) # Cardinality(B)
    BY <2>1, <2>3, FS_Subset
  <2> QED BY <2>4 DEF A, B
<1>2. m \in Nat /\ n \in Nat
  OBVIOUS
<1>3. m < n \/ n < m \/ m = n
  BY <1>2
<1> QED BY <1>1, <1>3

LEMMA PlaceOfFree ==
  ASSUME NEW F \in SUBSET Nat, NEW m \in F
  PROVE  Cardinality({x \in F : x <= m}) \in Nat \ {0}
<1> DEFINE A == {x \in F : x <= m}
<1>0. m \in Nat
  OBVIOUS
<1>1. A \in SUBSET Nat /\ m \in Nat /\ m \in A /\ \A x \in A : x <= m
  <2>1. m <= m
    BY <1>0
  <2> QED BY <1>0, <2>1, Zenon
<1> HIDE DEF A
<1>2. IsFiniteSet(A)
  BY <1>1, FS_BoundedSetOfNaturals
<1>3. Cardinality(A) \in Nat /\ Cardinality(A) # 0
  BY <1>1, <1>2, FS_CardinalityType, FS_EmptySet
<1> QED BY <1>3 DEF A

\* What a registration may add: rows that are backed, and apart from each other
\* and from the rows there are.
Addable(c, wanted) ==
  /\ \A i \in DOMAIN wanted :
       /\ Backed([selector |-> wanted[i].selector, gpu_count |-> wanted[i].cards], world[c])
       /\ \A m \in Listed(c) : /\ Apart(wanted[i], machines[m], world[c])
                               /\ Apart(machines[m], wanted[i], world[c])
  /\ \A i, j \in DOMAIN wanted : i # j => Apart(wanted[i], wanted[j], world[c])

LEMMA CountAdded ==
  ASSUME CountInv, RegInv, NEW q \in requests, q.op # "edit", NEW wanted,
         Len(wanted) \in Nat, DOMAIN wanted = 1..Len(wanted), Added(q, wanted),
         site.open < 2 /\ q.on \notin moved => Addable(q.on, wanted)
  PROVE  CountInv'
<1> DEFINE c == q.on
<1>1. /\ UNCHANGED <<site, world, moved>> /\ requests' = requests \ {q} /\ c \in Clusters
      /\ requests' \subseteq requests
  BY Zenon DEF Added, Close, RegInv, RequestsOK
<1>2. CASE UNCHANGED <<machines, page>>
  BY <1>1, <1>2, CountElsewhere, SMT
<1>3. ASSUME NEW f, machines' = AddRows(c, wanted, f),
             page' = page \union {m \in Free : machines'[m] # NoRow}
      PROVE  CountInv'
  <2> DEFINE place(m) == Cardinality({x \in Free : x <= m})
             new(m) == NewRow(wanted[place(m)].names[f[place(m)]], c, wanted[place(m)].selector,
                              wanted[place(m)].cards, wanted[place(m)].type)
  <2>1. \A m \in Machines : machines'[m] = IF m \in Rows \/ place(m) > Len(wanted) THEN machines[m]
                                           ELSE new(m)
    BY <1>3, Zenon DEF AddRows
  <2>2. Free \in SUBSET Nat /\ Free = Machines \ Rows /\ page \subseteq Rows /\ Rows \subseteq Machines
    BY TypesAssumption DEF Free, CountInv, Rows
  <2>3. ASSUME NEW m \in page', m \notin Rows
        PROVE  /\ m \in Machines /\ m \in Free /\ machines'[m] = new(m)
               /\ place(m) \in DOMAIN wanted
    <3>1. m \in Free /\ machines'[m] # NoRow /\ m \in Machines
      BY <1>3, <2>2, <2>3
    <3>2. machines[m] = NoRow
      BY <2>3, <3>1 DEF Rows
    <3>3. machines'[m] = new(m) /\ ~(place(m) > Len(wanted))
      BY <2>1, <2>3, <3>1, <3>2, Zenon
    <3>4. place(m) \in Nat \ {0}
      BY <2>2, <3>1, PlaceOfFree
    <3> HIDE DEF place, new
    <3> QED BY <3>1, <3>3, <3>4
  <2>4. ASSUME NEW m \in page', m \in Rows PROVE m \in page /\ m \in Machines /\ machines'[m] = machines[m]
    BY <1>3, <2>1, <2>2, <2>4 DEF Free
  <2>5. ASSUME NEW m
        PROVE  /\ new(m).driver = "k8s" /\ new(m).cluster = c /\ new(m) # NoRow
               /\ new(m).selector = wanted[place(m)].selector
               /\ new(m).gpu_count = wanted[place(m)].cards
    <3> HIDE DEF place
    <3>1. IsRow(new(m))
      BY <1>1, NewRowIs, Zenon
    <3>2. new(m) # NoRow
      BY <3>1, RowIsThere
    <3>3. /\ new(m).driver = "k8s" /\ new(m).cluster = c
          /\ new(m).selector = wanted[place(m)].selector
          /\ new(m).gpu_count = wanted[place(m)].cards
      BY DEF NewRow
    <3> QED BY <3>2, <3>3
  <2>6. WorldOK' /\ OneAtATime'
    <3>1. WorldOK'
      BY <1>1, Zenon DEF CountInv, WorldOK
    <3>2. OneAtATime'
      BY <1>1, FS_Subset, SMT DEF CountInv, OneAtATime
    <3> QED BY <3>1, <3>2
  <2> HIDE DEF place, new
  <2>7. page' \subseteq Rows'
    <3> SUFFICES ASSUME NEW m \in page' PROVE m \in Machines /\ machines'[m] # NoRow
      BY DEF Rows
    <3>1. CASE m \in Rows
      BY <2>4, <3>1 DEF Rows
    <3>2. CASE m \notin Rows
      BY <2>3, <2>5, <3>2
    <3> QED BY <3>1, <3>2
  <2>8. ASSUME site.open < 2 PROVE requests' = {}
    BY <1>1, <2>8 DEF CountInv, OneAtATime
  <2>9. ASSUME site.open < 2, NEW d \in Clusters \ moved, NEW m \in Listed(d)'
        PROVE  \/ m \in Rows /\ m \in Listed(d) /\ machines'[m] = machines[m]
               \/ /\ m \notin Rows /\ d = c /\ m \in Free /\ place(m) \in DOMAIN wanted
                  /\ machines'[m].selector = wanted[place(m)].selector
                  /\ machines'[m].gpu_count = wanted[place(m)].cards
    <3>1. m \in page' /\ machines'[m].driver = "k8s" /\ machines'[m].cluster = d
      BY DEF Listed, On
    <3>2. CASE m \in Rows
      BY <2>4, <3>1, <3>2 DEF Listed, On
    <3>3. CASE m \notin Rows
      BY <2>3, <2>5, <3>1, <3>3
    <3> QED BY <3>2, <3>3
  <2>10. ASSUME site.open < 2, NEW d \in Clusters \ moved PROVE Promise(d)'
    <3>1. Promise(d)
      BY <2>10 DEF CountInv
    <3>2. d = c => Addable(c, wanted)
      BY <2>10
    <3>3. ASSUME NEW m \in Listed(d)' PROVE Backed(machines'[m], world[d])
      <4>1. CASE m \in Listed(d) /\ machines'[m] = machines[m]
        BY <3>1, <4>1 DEF Promise
      <4>2. CASE /\ d = c /\ place(m) \in DOMAIN wanted
                 /\ machines'[m].selector = wanted[place(m)].selector
                 /\ machines'[m].gpu_count = wanted[place(m)].cards
        <5>1. PICK i \in DOMAIN wanted : i = place(m)
          BY <4>2
        <5>2. PICK b : b = [selector |-> wanted[i].selector, gpu_count |-> wanted[i].cards]
          OBVIOUS
        <5>3. Backed(b, world[d])
          BY <3>2, <4>2, <5>2 DEF Addable
        <5>4. b.selector = machines'[m].selector /\ b.gpu_count = machines'[m].gpu_count
          BY <4>2, <5>1, <5>2
        <5>5. PICK y : y = machines'[m]
          OBVIOUS
        <5>6. Backed(y, world[d])
          BY <5>3, <5>4, <5>5 DEF Backed
        <5> QED BY <5>5, <5>6
      <4> QED BY <2>9, <2>10, <4>1, <4>2
    <3>4. ASSUME NEW m \in Listed(d)', NEW n \in Listed(d)', m # n
          PROVE  Apart(machines'[m], machines'[n], world[d])
      <4>1. CASE m \in Rows /\ n \in Rows
        <5>1. /\ m \in Listed(d) /\ n \in Listed(d)
              /\ machines'[m] = machines[m] /\ machines'[n] = machines[n]
          BY <2>9, <2>10, <4>1
        <5> QED BY <3>1, <3>4, <5>1 DEF Promise
      <4>2. CASE m \in Rows /\ n \notin Rows
        <5>1. /\ m \in Listed(d) /\ machines'[m] = machines[m] /\ d = c
              /\ place(n) \in DOMAIN wanted /\ machines'[n].selector = wanted[place(n)].selector
          BY <2>9, <2>10, <4>2
        <5>2. Apart(machines[m], wanted[place(n)], world[d])
          BY <3>2, <5>1 DEF Addable
        <5> QED BY <5>1, <5>2 DEF Apart
      <4>3. CASE m \notin Rows /\ n \in Rows
        <5>1. /\ n \in Listed(d) /\ machines'[n] = machines[n] /\ d = c
              /\ place(m) \in DOMAIN wanted /\ machines'[m].selector = wanted[place(m)].selector
          BY <2>9, <2>10, <4>3
        <5>2. Apart(wanted[place(m)], machines[n], world[d])
          BY <3>2, <5>1 DEF Addable
        <5> QED BY <5>1, <5>2 DEF Apart
      <4>4. CASE m \notin Rows /\ n \notin Rows
        <5>1. /\ d = c /\ m \in Free /\ n \in Free
              /\ place(m) \in DOMAIN wanted /\ machines'[m].selector = wanted[place(m)].selector
              /\ place(n) \in DOMAIN wanted /\ machines'[n].selector = wanted[place(n)].selector
          BY <2>9, <2>10, <4>4
        <5>2. place(m) # place(n)
          <6>1. PICK F \in SUBSET Nat : F = Free
            BY <2>2
          <6> QED BY <3>4, <5>1, <6>1, FreePlaces DEF place
        <5>3. Apart(wanted[place(m)], wanted[place(n)], world[d])
          BY <3>2, <5>1, <5>2 DEF Addable
        <5> QED BY <5>1, <5>3 DEF Apart
      <4> QED BY <4>1, <4>2, <4>3, <4>4
    <3>5. world' = world
      BY <1>1
    <3> QED BY <3>3, <3>4, <3>5 DEF Promise
  <2>11. site' = site /\ moved' = moved
    BY <1>1
  <2> QED BY <2>6, <2>7, <2>8, <2>10, <2>11, Zenon DEF CountInv
<1> QED BY <1>2, <1>3, Zenon DEF Added

\* Nothing is claimed where registrations overlap.
LEMMA AddedMany ==
  ASSUME CountInv, RegInv, NEW q \in requests, NEW wanted, Added(q, wanted), ~(site.open < 2)
  PROVE  CountInv'
<1>1. /\ UNCHANGED <<site, world, moved>> /\ requests' \subseteq requests
  BY DEF Added, Close
<1>2. CASE UNCHANGED <<machines, page>>
  BY <1>1, <1>2, CountElsewhere, SMT
<1>3. ASSUME NEW f, machines' = AddRows(q.on, wanted, f),
             page' = page \union {m \in Free : machines'[m] # NoRow}
      PROVE  CountInv'
  <2>1. \A m \in Rows : machines'[m] = machines[m]
    BY <1>3, Zenon DEF AddRows, Rows
  <2>2. page' \subseteq Rows'
    BY <1>3, <2>1 DEF CountInv, Rows, Free
  <2>3. WorldOK'
    BY <1>1, Zenon DEF CountInv, WorldOK
  <2>4. OneAtATime'
    BY <1>1, FS_Subset, SMT DEF CountInv, OneAtATime
  <2> QED BY <1>1, <2>2, <2>3, <2>4, Zenon DEF CountInv
<1> QED BY <1>2, <1>3, Zenon DEF Added

\* What an open registration read of its cluster.
LEMMA PageRead ==
  ASSUME CountInv, RegInv, site.open < 2, NEW q \in requests, q.op # "edit", q.on \notin moved
  PROVE  /\ q.on \in Clusters /\ NodesOK(world[q.on].nodes)
         /\ q.seen.readable <=> world[q.on].access = "readable"
         /\ q.seen.quota = world[q.on].quota
         /\ Alike(q.seen.nodes, world[q.on].nodes)
         /\ \A m \in Listed(q.on) : /\ machines[m].selector \in q.seen.selectors
                                    /\ Backed(machines[m], world[q.on])
<1>1. q.on \in Clusters /\ Seen(q)
  BY Zenon DEF CountInv, RegInv, RequestsOK
<1>2. Promise(q.on) /\ NodesOK(world[q.on].nodes)
  BY <1>1 DEF CountInv, WorldOK
<1> QED BY <1>1, <1>2 DEF Seen, Promise

\* A selector is a host's, a product's, or everyone's.
LEMMA SelectorIs ==
  ASSUME NEW s \in Selectors
  PROVE  s = [by |-> s.by, of |-> s.of] /\ (s.by = "all" => s = [by |-> "all", of |-> None])
<1>1. CASE s \in [by : {"host"}, of : Hosts]
  BY <1>1
<1>2. CASE s \in [by : {"product"}, of : Products]
  BY <1>2
<1>3. CASE s = [by |-> "all", of |-> None]
  BY <1>3
<1> QED BY <1>1, <1>2, <1>3 DEF Selectors

\* The nodes a host's and a product's selector match.
LEMMA MatchedIs ==
  ASSUME NEW ns, NEW s
  PROVE  /\ s.by = "host" => Matched(ns, s) = {h \in DOMAIN ns : h = s.of}
         /\ s.by = "product" => Matched(ns, s) = {h \in DOMAIN ns : ns[h].product = s.of}
BY DEF Matched

\* A machine per node is backed by its node.
LEMMA NodeBacked ==
  ASSUME NEW w, NodesOK(w.nodes), w.access = "readable", NEW h \in DOMAIN w.nodes
  PROVE  Backed([selector |-> [by |-> "host", of |-> h], gpu_count |-> w.nodes[h].cards], w)
<1> DEFINE s == [by |-> "host", of |-> h]
           n == w.nodes[h].cards
           y == [selector |-> s, gpu_count |-> n]
           ns == w.nodes
<1>1. h \in Hosts /\ n \in Nat
  BY DEF NodesOK, NodeRows
<1>2. s \in Selectors /\ s.by = "host" /\ s.of = h
  BY <1>1 DEF Selectors
<1>3. Matched(ns, s) = {h}
  <2> HIDE DEF s
  <2>1. Matched(ns, s) = {k \in DOMAIN ns : k = s.of}
    BY <1>2, MatchedIs, SMTT(30)
  <2> QED BY <1>2, <2>1
<1>4. CardsOf(ns, {h}) = n
  <2>1. PICK count : count = [k \in {h} |-> ns[k].cards]
    OBVIOUS
  <2>2. count \in [{h} -> Nat] /\ count[h] = n
    BY <1>1, <2>1
  <2>3. SumOf(count) = count[h]
    BY <2>2, SumOfOne
  <2> QED BY <2>1, <2>2, <2>3 DEF CardsOf
<1> HIDE DEF s, n
<1>5. y.selector = s /\ y.gpu_count = n
  OBVIOUS
<1> HIDE DEF y
<1>6. n <= CardsOf(ns, Matched(ns, s))
  BY <1>1, <1>3, <1>4
<1>7. Backed(y, w)
  BY <1>1, <1>2, <1>5, <1>6 DEF Backed
<1> QED BY <1>7, Zenon DEF y, s, n

LEMMA CountNodes ==
  ASSUME CountInv, RegInv, NEW q \in requests, register_nodes(q)
  PROVE  CountInv'
<1> DEFINE v == q.seen
           c == q.on
           what == q.what
           ok == /\ v.readable /\ what \subseteq gpu_nodes(v.nodes)
                 /\ {h \in what \intersect gpu_nodes(v.nodes) :
                       v.nodes[h].product \in Pooled(v) /\ h \notin Singles(v)} = {}
           fresh == what \ Singles(v)
           new == SetToSeq(fresh)
           row(h) == [names |-> <<<<h>>, <<c, h>>>>, selector |-> [by |-> "host", of |-> h],
                      cards |-> v.nodes[h].cards, type |-> TypeOfNode(v.nodes[h])]
           wanted == [i \in DOMAIN new |-> row(new[i])]
<1>1. q.op = "nodes" /\ (Refused(q) \/ (ok /\ Added(q, wanted)))
  BY Zenon DEF register_nodes
<1>2. CASE Refused(q)
  <2>1. UNCHANGED <<site, machines, world, page, moved>>
    BY <1>2, Zenon DEF Refused, registry, ghosts
  <2>2. requests' \subseteq requests
    BY <1>2 DEF Refused, Close
  <2> QED BY <2>1, <2>2, CountElsewhere
<1>3. CASE ok /\ Added(q, wanted) /\ site.open < 2
  <2>1. what \in SUBSET Hosts
    BY <1>1, <1>3 DEF CountInv, Seen
  <2>2. IsFiniteSet(fresh)
    BY <2>1, FiniteAssumption, FS_Subset
  <2> DEFINE n == Cardinality(fresh)
  <2>3. /\ n \in Nat /\ new \in [1..n -> fresh]
        /\ \A i, j \in 1..n : new[i] = new[j] => i = j
    <3> HIDE DEF fresh
    <3> QED BY <2>2, SeqOfSet
  <2> HIDE DEF n, new, fresh, row
  <2>4. DOMAIN wanted = 1..n /\ Len(wanted) = n /\ Len(wanted) \in Nat
    BY <2>3
  <2>5. ASSUME c \notin moved PROVE Addable(c, wanted)
    <3>1. /\ c \in Clusters /\ NodesOK(world[c].nodes) /\ (v.readable <=> world[c].access = "readable")
          /\ Alike(v.nodes, world[c].nodes)
          /\ \A m \in Listed(c) : machines[m].selector \in v.selectors /\ Backed(machines[m], world[c])
      <4> QED BY <1>1, <1>3, <2>5, PageRead
    <3> DEFINE ns == world[c].nodes
    <3>2. world[c].access = "readable"
      BY <1>3, <3>1
    <3>3. ASSUME NEW i \in DOMAIN wanted
          PROVE  /\ new[i] \in fresh /\ new[i] \in DOMAIN ns
                 /\ wanted[i].selector = [by |-> "host", of |-> new[i]]
                 /\ wanted[i].cards = ns[new[i]].cards
      <4>1. new[i] \in fresh /\ wanted[i] = row(new[i])
        BY <2>3, <2>4
      <4>2. new[i] \in DOMAIN v.nodes
        BY <1>3, <4>1 DEF fresh, gpu_nodes
      <4>3. new[i] \in DOMAIN ns /\ ns[new[i]].cards = v.nodes[new[i]].cards
        BY <3>1, <4>2 DEF Alike
      <4>4. row(new[i]).selector = [by |-> "host", of |-> new[i]] /\ row(new[i]).cards = v.nodes[new[i]].cards
        BY DEF row
      <4> QED BY <4>1, <4>3, <4>4
    <3> HIDE DEF wanted
    <3>4. ASSUME NEW i \in DOMAIN wanted
          PROVE  Backed([selector |-> wanted[i].selector, gpu_count |-> wanted[i].cards], world[c])
      <4>1. PICK w : w = world[c]
        OBVIOUS
      <4>2. PICK h \in DOMAIN w.nodes : h = new[i]
        BY <3>3, <4>1
      <4>3. Backed([selector |-> [by |-> "host", of |-> h], gpu_count |-> w.nodes[h].cards], w)
        BY <3>1, <3>2, <4>1, NodeBacked
      <4>4. wanted[i].selector = [by |-> "host", of |-> h] /\ wanted[i].cards = w.nodes[h].cards
        BY <3>3, <4>1, <4>2
      <4> QED BY <4>1, <4>3, <4>4, Zenon
    <3>5. ASSUME NEW i \in DOMAIN wanted PROVE Matched(ns, wanted[i].selector) = {new[i]}
      <4>0. PICK h : h = new[i]
        OBVIOUS
      <4>1. PICK s : s = [by |-> "host", of |-> h]
        OBVIOUS
      <4>2. s.by = "host" /\ s.of = h
        BY <4>1
      <4>3. Matched(ns, s) = {k \in DOMAIN ns : k = s.of}
        BY <4>2, MatchedIs, SMTT(30)
      <4>4. wanted[i].selector = s /\ h \in DOMAIN ns
        BY <3>3, <4>0, <4>1, Zenon
      <4>5. Matched(ns, s) = {h}
        BY <4>2, <4>3, <4>4
      <4> QED BY <4>0, <4>4, <4>5, Zenon
    <3>6. ASSUME NEW i \in DOMAIN wanted, NEW j \in DOMAIN wanted, i # j
          PROVE  Apart(wanted[i], wanted[j], world[c])
      <4>1. new[i] # new[j]
        BY <2>3, <2>4, <3>6 DEF wanted
      <4>2. Matched(ns, wanted[i].selector) = {new[i]} /\ Matched(ns, wanted[j].selector) = {new[j]}
        BY <3>5
      <4>3. Matched(ns, wanted[i].selector) \intersect Matched(ns, wanted[j].selector) = {}
        BY <4>1, <4>2
      <4> QED BY <3>2, <4>3, Zenon DEF Apart
    <3>7. ASSUME NEW i \in DOMAIN wanted, NEW m \in Listed(c)
          PROVE  new[i] \notin Matched(ns, machines[m].selector)
      <4>1. PICK s : s = machines[m].selector
        OBVIOUS
      <4>2. PICK h : h = new[i]
        OBVIOUS
      <4>3. /\ s \in Selectors /\ s \in v.selectors
            /\ s.by = "host" \/ (s.by = "product" /\ s.of # "")
        BY <3>1, <3>2, <4>1 DEF Backed
      <4>4. /\ h \in what /\ h \in gpu_nodes(v.nodes) /\ h \notin Singles(v) /\ h \in DOMAIN v.nodes
            /\ ns[h].product = v.nodes[h].product
        <5>1. h \in fresh
          BY <3>3, <4>2
        <5>2. h \in what /\ h \in gpu_nodes(v.nodes) /\ h \notin Singles(v)
          BY <1>3, <5>1 DEF fresh
        <5>3. h \in DOMAIN v.nodes
          BY <5>2 DEF gpu_nodes
        <5> QED BY <3>1, <5>2, <5>3 DEF Alike
      <4>5. s = [by |-> s.by, of |-> s.of]
        BY <4>3, SelectorIs
      <4>6. CASE s.by = "host"
        <5>1. s.of # h
          BY <4>3, <4>4, <4>5, <4>6 DEF Singles
        <5>2. Matched(ns, s) = {k \in DOMAIN ns : k = s.of}
          BY <4>6, MatchedIs, SMTT(30)
        <5> QED BY <4>1, <4>2, <5>1, <5>2
      <4>7. CASE s.by = "product" /\ s.of # ""
        <5>1. v.nodes[h].product \notin Pooled(v)
          BY <1>3, <4>4
        <5>2. v.nodes[h].product # s.of
          BY <4>3, <4>4, <4>5, <4>7, <5>1 DEF Pooled, Pools
        <5>3. Matched(ns, s) = {k \in DOMAIN ns : ns[k].product = s.of}
          BY <4>7, MatchedIs, ZenonT(40)
        <5> QED BY <4>1, <4>2, <4>4, <5>2, <5>3
      <4> QED BY <4>3, <4>6, <4>7
    <3>8. ASSUME NEW i \in DOMAIN wanted, NEW m \in Listed(c)
          PROVE  Apart(wanted[i], machines[m], world[c]) /\ Apart(machines[m], wanted[i], world[c])
      <4>1. /\ Matched(ns, wanted[i].selector) \intersect Matched(ns, machines[m].selector) = {}
            /\ Matched(ns, machines[m].selector) \intersect Matched(ns, wanted[i].selector) = {}
        BY <3>5, <3>7
      <4> QED BY <3>2, <4>1, Zenon DEF Apart
    <3> QED BY <3>4, <3>6, <3>8, Zenon DEF Addable
  <2> HIDE DEF wanted, ok
  <2> QED BY <1>1, <1>3, <2>4, <2>5, CountAdded
<1>4. CASE ok /\ Added(q, wanted) /\ ~(site.open < 2)
  <2> HIDE DEF wanted, ok
  <2> QED BY <1>4, AddedMany
<1> QED BY <1>1, <1>2, <1>3, <1>4

\* A machine per product is backed by the product's nodes.
LEMMA PoolBacked ==
  ASSUME NEW w, NodesOK(w.nodes), w.access = "readable", NEW p \in Products, p # "",
         NEW ns, Alike(ns, w.nodes), NEW hs \in SUBSET DOMAIN ns,
         \A h \in hs : ns[h].product = p
  PROVE  Backed([selector |-> [by |-> "product", of |-> p], gpu_count |-> CardsOf(ns, hs)], w)
<1> DEFINE s == [by |-> "product", of |-> p]
           n == CardsOf(ns, hs)
           y == [selector |-> s, gpu_count |-> n]
<1>1. s \in Selectors /\ s.by = "product" /\ s.of = p
  <2>1. s \in [by : {"product"}, of : Products]
    OBVIOUS
  <2>2. s \in Selectors
    BY <2>1, Zenon DEF Selectors
  <2> QED BY <2>2
<1> HIDE DEF s
<1>2. Matched(w.nodes, s) = {h \in DOMAIN w.nodes : w.nodes[h].product = p}
  <2>1. Matched(w.nodes, s) = {h \in DOMAIN w.nodes : w.nodes[h].product = s.of}
    BY <1>1, MatchedIs, ZenonT(40)
  <2> QED BY <1>1, <2>1
<1>3. hs \subseteq Matched(w.nodes, s) /\ Matched(w.nodes, s) \subseteq DOMAIN w.nodes
  BY <1>2 DEF Alike
<1>4. CardsOf(w.nodes, hs) = n
  BY AlikeMatched
<1>5. n \in Nat /\ n <= CardsOf(w.nodes, Matched(w.nodes, s))
  BY <1>3, <1>4, CardsMore
<1> HIDE DEF n
<1>6. y.selector = s /\ y.gpu_count = n
  OBVIOUS
<1> HIDE DEF y
<1>7. Backed(y, w)
  BY <1>1, <1>5, <1>6 DEF Backed
<1> QED BY <1>7, Zenon DEF y, s, n

LEMMA CountPools ==
  ASSUME CountInv, RegInv, NEW q \in requests, register_pools(q)
  PROVE  CountInv'
<1> DEFINE v == q.seen
           c == q.on
           what == q.what
           ok == /\ v.readable /\ what \subseteq Pools(v)
                 /\ {p \in what : PoolNodes(v, p) \intersect Singles(v) # {} /\ p \notin Pooled(v)} = {}
           fresh == what \ Pooled(v)
           new == SetToSeq(fresh)
           usable(p) == {h \in PoolNodes(v, p) : node_takes_pods(v.nodes[h])}
           kind(p) == IF CardType[p] # "" THEN CardType[p] ELSE p
           row(p) == [names |-> <<<<c, kind(p)>>, <<c, p>>>>, selector |-> [by |-> "product", of |-> p],
                      cards |-> CardsOf(v.nodes, usable(p)), type |-> CardType[p]]
           wanted == [i \in DOMAIN new |-> row(new[i])]
<1>1. q.op = "pools" /\ (Refused(q) \/ (ok /\ Added(q, wanted)))
  BY Zenon DEF register_pools
<1>2. CASE Refused(q)
  <2>1. UNCHANGED <<site, machines, world, page, moved>>
    BY <1>2, Zenon DEF Refused, registry, ghosts
  <2>2. requests' \subseteq requests
    BY <1>2 DEF Refused, Close
  <2> QED BY <2>1, <2>2, CountElsewhere
<1>3. CASE ok /\ Added(q, wanted) /\ site.open < 2
  <2>1. what \in SUBSET Products
    BY <1>1, <1>3 DEF CountInv, Seen
  <2>2. IsFiniteSet(fresh)
    BY <2>1, FiniteAssumption, FS_Subset
  <2> DEFINE n == Cardinality(fresh)
  <2>3. /\ n \in Nat /\ new \in [1..n -> fresh]
        /\ \A i, j \in 1..n : new[i] = new[j] => i = j
    <3> HIDE DEF fresh
    <3> QED BY <2>2, SeqOfSet
  <2> HIDE DEF n, new, fresh, row
  <2>4. DOMAIN wanted = 1..n /\ Len(wanted) = n /\ Len(wanted) \in Nat
    BY <2>3
  <2>5. ASSUME c \notin moved PROVE Addable(c, wanted)
    <3>1. /\ c \in Clusters /\ NodesOK(world[c].nodes) /\ (v.readable <=> world[c].access = "readable")
          /\ Alike(v.nodes, world[c].nodes)
          /\ \A m \in Listed(c) : machines[m].selector \in v.selectors /\ Backed(machines[m], world[c])
      <4> QED BY <1>1, <1>3, <2>5, PageRead
    <3> DEFINE ns == world[c].nodes
    <3>2. world[c].access = "readable"
      BY <1>3, <3>1
    <3>3. ASSUME NEW i \in DOMAIN wanted
          PROVE  /\ new[i] \in fresh /\ new[i] \in Products /\ new[i] # "" /\ new[i] \in Pools(v)
                 /\ wanted[i].selector = [by |-> "product", of |-> new[i]]
                 /\ wanted[i].cards = CardsOf(v.nodes, usable(new[i]))
      <4>1. new[i] \in fresh /\ wanted[i] = row(new[i])
        BY <2>3, <2>4
      <4>2. new[i] \in Products /\ new[i] \in Pools(v)
        BY <1>3, <2>1, <4>1 DEF fresh
      <4>3. new[i] # ""
        BY <4>2 DEF Pools
      <4>4. /\ row(new[i]).selector = [by |-> "product", of |-> new[i]]
            /\ row(new[i]).cards = CardsOf(v.nodes, usable(new[i]))
        <5> HIDE DEF usable, kind
        <5> QED BY DEF row
      <4> QED BY <4>1, <4>2, <4>3, <4>4
    <3> HIDE DEF wanted
    <3>4. ASSUME NEW i \in DOMAIN wanted
          PROVE  Backed([selector |-> wanted[i].selector, gpu_count |-> wanted[i].cards], world[c])
      <4>1. PICK w : w = world[c]
        OBVIOUS
      <4>2. PICK p \in Products : p = new[i]
        BY <3>3
      <4>3. PICK hs : hs = usable(p)
        OBVIOUS
      <4>4. hs \in SUBSET DOMAIN v.nodes /\ \A h \in hs : v.nodes[h].product = p
        BY <4>3 DEF PoolNodes, gpu_nodes
      <4> HIDE DEF usable
      <4>5. Backed([selector |-> [by |-> "product", of |-> p], gpu_count |-> CardsOf(v.nodes, hs)], w)
        BY <3>1, <3>2, <3>3, <4>1, <4>2, <4>4, PoolBacked
      <4>6. wanted[i].selector = [by |-> "product", of |-> p] /\ wanted[i].cards = CardsOf(v.nodes, hs)
        BY <3>3, <4>2, <4>3
      <4> QED BY <4>1, <4>5, <4>6, Zenon
    <3>5. ASSUME NEW i \in DOMAIN wanted
          PROVE  Matched(ns, wanted[i].selector) = {h \in DOMAIN ns : ns[h].product = new[i]}
      <4>0. PICK p : p = new[i]
        OBVIOUS
      <4>1. PICK s : s = [by |-> "product", of |-> p]
        OBVIOUS
      <4>2. s.by = "product" /\ s.of = p
        BY <4>1
      <4>3. Matched(ns, s) = {k \in DOMAIN ns : ns[k].product = s.of}
        BY <4>2, MatchedIs, SMTT(30)
      <4>4. wanted[i].selector = s
        BY <3>3, <4>0, <4>1, Zenon
      <4> QED BY <4>0, <4>2, <4>3, <4>4, Zenon
    <3>6. ASSUME NEW i \in DOMAIN wanted, NEW j \in DOMAIN wanted, i # j
          PROVE  Apart(wanted[i], wanted[j], world[c])
      <4>1. new[i] # new[j]
        BY <2>3, <2>4, <3>6 DEF wanted
      <4>2. Matched(ns, wanted[i].selector) \intersect Matched(ns, wanted[j].selector) = {}
        BY <3>5, <4>1
      <4> QED BY <3>2, <4>2, Zenon DEF Apart
    <3>7. ASSUME NEW i \in DOMAIN wanted, NEW m \in Listed(c), NEW h \in DOMAIN ns,
                 ns[h].product = new[i]
          PROVE  h \notin Matched(ns, machines[m].selector)
      <4>1. PICK s : s = machines[m].selector
        OBVIOUS
      <4>2. PICK p : p = new[i]
        OBVIOUS
      <4>3. /\ s \in Selectors /\ s \in v.selectors
            /\ s.by = "host" \/ (s.by = "product" /\ s.of # "")
        BY <3>1, <3>2, <4>1 DEF Backed
      <4>4. p \in what /\ p \notin Pooled(v) /\ p \in Pools(v) /\ p # ""
        BY <3>3, <4>2 DEF fresh
      <4>5. s = [by |-> s.by, of |-> s.of]
        BY <4>3, SelectorIs
      <4>6. h \in DOMAIN v.nodes /\ v.nodes[h].product = p
        BY <3>1, <3>7, <4>2 DEF Alike
      <4>7. CASE s.by = "host"
        <5>1. h \in PoolNodes(v, p) /\ h \in gpu_nodes(v.nodes)
          BY <4>4, <4>6 DEF PoolNodes, gpu_nodes
        <5>2. h \notin Singles(v)
          BY <1>3, <4>4, <5>1
        <5>3. s.of # h
          BY <4>3, <4>5, <4>7, <5>1, <5>2 DEF Singles
        <5>4. Matched(ns, s) = {k \in DOMAIN ns : k = s.of}
          BY <4>7, MatchedIs, SMTT(30)
        <5> QED BY <4>1, <5>3, <5>4
      <4>8. CASE s.by = "product" /\ s.of # ""
        <5>1. s.of # p
          BY <4>3, <4>4, <4>5, <4>8 DEF Pooled
        <5>2. Matched(ns, s) = {k \in DOMAIN ns : ns[k].product = s.of}
          BY <4>8, MatchedIs, ZenonT(40)
        <5> QED BY <3>7, <4>1, <4>2, <5>1, <5>2
      <4> QED BY <4>3, <4>7, <4>8
    <3>8. ASSUME NEW i \in DOMAIN wanted, NEW m \in Listed(c)
          PROVE  Apart(wanted[i], machines[m], world[c]) /\ Apart(machines[m], wanted[i], world[c])
      <4>1. /\ Matched(ns, wanted[i].selector) \intersect Matched(ns, machines[m].selector) = {}
            /\ Matched(ns, machines[m].selector) \intersect Matched(ns, wanted[i].selector) = {}
        BY <3>5, <3>7
      <4> QED BY <3>2, <4>1, Zenon DEF Apart
    <3> QED BY <3>4, <3>6, <3>8, Zenon DEF Addable
  <2> HIDE DEF wanted, ok
  <2> QED BY <1>1, <1>3, <2>4, <2>5, CountAdded
<1>4. CASE ok /\ Added(q, wanted) /\ ~(site.open < 2)
  <2> HIDE DEF wanted, ok
  <2> QED BY <1>4, AddedMany
<1> QED BY <1>1, <1>2, <1>3, <1>4

LEMMA CountNamespace ==
  ASSUME CountInv, RegInv, NEW q \in requests, register_namespace_pool(q)
  PROVE  CountInv'
<1> DEFINE c == q.on
           quota == q.seen.quota
           s == [by |-> "all", of |-> None]
           row == [names |-> <<<<c>>, <<c, "pool">>>>, selector |-> s, cards |-> quota, type |-> ""]
           wanted == <<row>>
<1>1. /\ q.op = "namespace"
      /\ Refused(q) \/ (~q.seen.readable /\ quota # None /\ On(c) = {} /\ Added(q, wanted))
  BY Zenon DEF register_namespace_pool
<1>2. CASE Refused(q)
  <2>1. UNCHANGED <<site, machines, world, page, moved>>
    BY <1>2, Zenon DEF Refused, registry, ghosts
  <2>2. requests' \subseteq requests
    BY <1>2 DEF Refused, Close
  <2> QED BY <2>1, <2>2, CountElsewhere
<1>3. CASE ~q.seen.readable /\ quota # None /\ On(c) = {} /\ Added(q, wanted)
  <2>1. row.selector = s /\ row.cards = quota /\ s \in Selectors /\ s.by = "all"
    BY DEF Selectors
  <2> HIDE DEF row, s
  <2>2. Len(wanted) = 1 /\ DOMAIN wanted = 1..1 /\ wanted[1] = row
    OBVIOUS
  <2> HIDE DEF wanted
  <2>3. ASSUME site.open < 2, c \notin moved PROVE Addable(c, wanted)
    <3>1. c \in Clusters /\ world[c].access # "readable" /\ world[c].quota = quota
      BY <1>1, <1>3, <2>3, PageRead
    <3>2. quota \in Nat
      BY <1>3, <3>1 DEF CountInv, WorldOK
    <3>3. PICK y : y = [selector |-> s, gpu_count |-> quota]
      OBVIOUS
    <3>4. y.selector = s /\ y.gpu_count = quota
      BY <3>3
    <3>5. Backed(y, world[c])
      <4> HIDE DEF quota
      <4>1. y.gpu_count \in Nat /\ y.gpu_count <= world[c].quota
        BY <3>1, <3>2, <3>4
      <4>2. y.selector \in Selectors /\ y.selector.by = "all"
        BY <2>1, <3>4, Zenon
      <4>3. world[c].access # "readable" /\ world[c].quota # None
        BY <1>3, <3>1, Zenon
      <4> QED BY <4>1, <4>2, <4>3, Zenon DEF Backed
    <3>6. Listed(c) = {}
      BY <1>3 DEF Listed
    <3>7. \A i \in DOMAIN wanted : i = 1
      BY <2>2
    <3>8. Backed([selector |-> wanted[1].selector, gpu_count |-> wanted[1].cards], world[c])
      BY <2>1, <2>2, <3>3, <3>5, Zenon
    <3> QED BY <3>6, <3>7, <3>8, Zenon DEF Addable
  <2>4. Len(wanted) \in Nat /\ DOMAIN wanted = 1..Len(wanted)
    BY <2>2
  <2> QED BY <1>1, <1>3, <2>3, <2>4, CountAdded
<1> QED BY <1>1, <1>2, <1>3

-----------------------------------------------------------------------------

LEMMA CountInit == Init => CountInv
<1> SUFFICES ASSUME Init PROVE CountInv
  OBVIOUS
<1>1. /\ site \in Sites /\ requests = {} /\ page = {}
      /\ world = [c \in Clusters |-> [nodes |-> site.nodes[c], access |-> site.access[c],
                                      quota |-> site.quota[c]]]
  BY Zenon DEF Init
<1>2. SiteOK(site)
  BY <1>1, SitesAssumption
<1>3. WorldOK
  <2>1. ASSUME NEW c \in Clusters
        PROVE  /\ DOMAIN world[c] = {"nodes", "access", "quota"} /\ NodesOK(world[c].nodes)
               /\ world[c].quota \in Nat \union {None}
    <3>1. NodesOK(site.nodes[c]) /\ site.quota[c] \in Nat \union {None}
      <4>1. NodesOK(site.nodes[c])
        BY <1>2, Zenon DEF SiteOK, NodesOK
      <4>2. site.quota \in [Clusters -> Nat \union {None}]
        BY <1>2, Zenon DEF SiteOK
      <4> QED BY <4>1, <4>2
    <3>2. /\ DOMAIN world[c] = {"nodes", "access", "quota"} /\ world[c].nodes = site.nodes[c]
          /\ world[c].quota = site.quota[c]
      BY <1>1
    <3> QED BY <3>1, <3>2, Zenon
  <2>2. DOMAIN world = Clusters
    BY <1>1
  <2> QED BY <1>1, <2>1, <2>2 DEF WorldOK
<1>4. OneAtATime
  BY <1>1, FS_EmptySet DEF OneAtATime
<1>5. \A c : Promise(c)
  BY <1>1 DEF Promise, Listed
<1> QED BY <1>1, <1>3, <1>4, <1>5 DEF CountInv

LEMMA CountNext ==
  ASSUME CountInv, RegInv, [Next]_vars
  PROVE  CountInv'
<1>1. CASE UNCHANGED vars
  <2>1. UNCHANGED <<site, machines, world, page, moved, requests>>
    BY <1>1, Zenon DEF vars
  <2> QED BY <2>1, CountElsewhere, SMT
<1>2. CASE ClusterRequests \/ GroupRequests \/ CampaignRequests
  <2>1. UNCHANGED <<site, machines, world, page, moved, requests>>
    BY <1>2, Zenon DEF ClusterRequests, create_cluster, update_cluster, delete_cluster,
       GroupRequests, set_group, delete_group, CampaignRequests, create_campaign,
       set_campaign_status, ghosts
  <2> QED BY <2>1, CountElsewhere, SMT
<1>3. CASE Registrations
  <2>1. ASSUME NEW c \in Clusters, NEW hs \in (SUBSET Hosts) \ {{}}, OpenRegistration(c, "nodes", hs)
        PROVE  CountInv'
    BY <2>1, CountOpenRegistration
  <2>2. ASSUME NEW c \in Clusters, NEW ps \in SUBSET Products, OpenRegistration(c, "pools", ps)
        PROVE  CountInv'
    BY <2>2, CountOpenRegistration
  <2>3. ASSUME NEW c \in Clusters, OpenRegistration(c, "namespace", {}) PROVE CountInv'
    BY <2>3, CountOpenRegistration
  <2> QED BY <1>3, <2>1, <2>2, <2>3, CountNodes, CountPools, CountNamespace, Zenon DEF Registrations
<1>4. CASE MachineRequests
  <2>1. ASSUME NEW m \in Machines, NEW s, set_machine_state(m, s) PROVE CountInv'
    <3>1. /\ machines' = [machines EXCEPT ![m] = [machines[m] EXCEPT !.state = s]]
          /\ UNCHANGED <<site, world, moved, requests, page>>
      BY <2>1, Zenon DEF set_machine_state, ghosts
    <3> QED BY <3>1, CountSetState, Zenon
  <2> QED BY <1>4, <2>1, CountCreateMachine, CountUpdateMachine, CountReread, CountDeleteMachine,
             CountWriteMachine, Zenon DEF MachineRequests
<1>5. CASE Worker
  BY <1>5, CountWorker
<1>6. CASE World
  BY <1>6, CountWorld
<1> QED BY <1>1, <1>2, <1>3, <1>4, <1>5, <1>6, Zenon DEF Next

\* The machines registered from a cluster's page never promise more cards than
\* its nodes have (register_nodes, register_pools, _register_namespace_pool and
\* the refresh of their capacity), for any number of clusters, nodes, machines
\* and requests, as long as registrations do not overlap and the nodes and the
\* permissions stay what they were.
THEOREM CardsCountedOnce == Spec => []CountedOnce
<1>1. CountInv => CountedOnce
  <2> SUFFICES ASSUME CountInv, NEW c \in Clusters \ moved, site.open < 2
               PROVE  SumOf([m \in Listed(c) |-> machines[m].gpu_count])
                        <= IF world[c].access = "readable"
                           THEN CardsOf(world[c].nodes, DOMAIN world[c].nodes)
                           ELSE IF world[c].quota = None THEN 0 ELSE world[c].quota
    BY Zenon DEF CountedOnce, Listed
  <2> QED BY PromiseCounts
<1>2. CountInv /\ RegInv /\ [Next]_vars => CountInv'
  BY CountNext
<1> QED BY <1>1, <1>2, CountInit, RegInvHolds, PTL DEF Spec
=============================================================================

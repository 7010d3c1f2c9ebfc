---------------------------- MODULE FleetProofs ----------------------------
(***************************************************************************)
(* Proofs about Fleet, for every fleet, every set of campaigns, every      *)
(* pattern of ssh faults and requests.                                     *)
(***************************************************************************)
EXTENDS Fleet, TLAPS, FiniteSetTheorems, WellFoundedInduction

(***************************************************************************)
(* What the packer picks is among what it was offered.                     *)
(***************************************************************************)

\* A set of naturals that is not empty has a least element.
LEMMA NatMin ==
  ASSUME NEW T \in SUBSET Nat, T # {}
  PROVE  \E x \in T : \A y \in T : x <= y
<1> DEFINE R == OpToRel(<, Nat)
<1>1. IsWellFoundedOn(R, Nat)
  BY NatLessThanWellFounded
<1> HIDE DEF R
<1>2. PICK x \in T : \A y \in T : ~(<<y, x>> \in R)
  BY <1>1, WFMin
<1>3. \A y \in T : ~(y < x)
  BY <1>2 DEF R, OpToRel
<1>4. \A y \in T : x <= y
  BY <1>3
<1> QED
  BY <1>4

\* choose_next returns one of the fitting placements.
LEMMA WidestIsOffered ==
  ASSUME NEW n \in Nat, NEW pool \in SUBSET Candidates, Fitting(n, pool) # {}
  PROVE  Widest(Fitting(n, pool)) \in Fitting(n, pool)
<1> DEFINE F == Fitting(n, pool)
<1>1. F \subseteq Candidates /\ \A c \in F : c \in Nat /\ Cards[c] \in Nat /\ Cards[c] <= n
  BY CandidateAssumption DEF Fitting
<1> DEFINE slack == {n - Cards[c] : c \in F}
<1>2. slack \in SUBSET Nat /\ slack # {}
  BY <1>1
<1>3. PICK s \in slack : \A t \in slack : s <= t
  BY <1>2, NatMin
<1> DEFINE W == {c \in F : n - Cards[c] = s}
<1>4. W \in SUBSET Nat /\ W # {}
  BY <1>1, <1>3
<1>5. PICK c \in W : \A d \in W : c <= d
  BY <1>4, NatMin
<1>6. ASSUME NEW d \in F
      PROVE  Cards[d] < Cards[c] \/ (Cards[d] = Cards[c] /\ c <= d)
  <2>1. c \in F /\ n - Cards[c] = s
    OBVIOUS
  <2>2. n - Cards[d] \in slack
    OBVIOUS
  <2>3. n - Cards[c] <= n - Cards[d]
    BY <2>1, <2>2, <1>3
  <2>4. Cards[d] <= Cards[c]
    BY <2>1, <2>3, <1>1
  <2>5. CASE Cards[d] = Cards[c]
    BY <2>1, <2>5, <1>5
  <2> QED
    BY <2>1, <2>4, <2>5, <1>1
<1> QED
  BY <1>5, <1>6 DEF Widest

\* The packer's tie-break alone, where there are no cards to compare.
LEMMA LowestIsOffered ==
  ASSUME NEW pool \in SUBSET Candidates, pool # {}
  PROVE  Lowest(pool) \in pool
<1>1. pool \in SUBSET Nat
  BY CandidateAssumption
<1>2. PICK c \in pool : \A d \in pool : c <= d
  BY <1>1, NatMin
<1> QED
  BY <1>2 DEF Lowest

\* A gang's cards per node are a number, in a group of at least two machines.
LEMMA PerNodeType ==
  ASSUME NEW k \in Campaigns, NEW c \in Candidates, Cardinality(Group[k]) >= 2
  PROVE  PerNode(k, c) \in Nat
<1>1. IsFiniteSet(Group[k])
  BY MachinesAssumption, CampaignAssumption, FS_Subset
<1>2. Cardinality(Group[k]) \in Nat
  BY <1>1, FS_CardinalityType
<1>3. Cards[c] \in Nat
  BY CandidateAssumption
<1> HIDE DEF PerNode
<1> DEFINE n == Cardinality(Group[k])
<1>4. Cards[c] \div n \in Nat
  <2> HIDE DEF n
  <2>1. n \in Nat /\ n >= 2
    BY <1>2 DEF n
  <2> QED
    BY <2>1, <1>3
<1> QED
  BY <1>4 DEF PerNode

\* _start_gang picks one of the fitting candidates.
LEMMA WidestGangIsOffered ==
  ASSUME NEW k \in Campaigns, Cardinality(Group[k]) >= 2, GangFitting(k) # {}
  PROVE  WidestGang(k) \in GangFitting(k)
<1> DEFINE F == GangFitting(k)
           top == Gpus[Leader[k]]
<1>1. F \subseteq Candidates
  BY DEF GangFitting, Waiting
<1>2. top \in Nat /\ Leader[k] \in Group[k]
  <2>1. Group[k] # {}
    BY FS_EmptySet
  <2> QED
    BY <2>1, GpusAssumption, CampaignAssumption, GroupAssumption
<1>3. \A c \in F : c \in Nat /\ PerNode(k, c) \in Nat /\ PerNode(k, c) <= top
  BY <1>1, <1>2, PerNodeType, CandidateAssumption DEF GangFitting
<1> HIDE DEF F, top
<1> DEFINE slack == {top - PerNode(k, c) : c \in F}
<1>4. slack \in SUBSET Nat /\ slack # {}
  BY <1>2, <1>3 DEF F
<1>5. PICK s \in slack : \A t \in slack : s <= t
  BY <1>4, NatMin
<1> DEFINE W == {c \in F : top - PerNode(k, c) = s}
<1>6. W \in SUBSET Nat /\ W # {}
  BY <1>3, <1>5
<1>7. PICK c \in W : \A d \in W : c <= d
  BY <1>6, NatMin
<1>8. ASSUME NEW d \in F
      PROVE  PerNode(k, d) < PerNode(k, c) \/ (PerNode(k, d) = PerNode(k, c) /\ c <= d)
  <2>1. c \in F /\ top - PerNode(k, c) = s
    OBVIOUS
  <2>2. top - PerNode(k, d) \in slack
    OBVIOUS
  <2>3. top - PerNode(k, c) <= top - PerNode(k, d)
    BY <2>1, <2>2, <1>5
  <2>4. PerNode(k, d) <= PerNode(k, c)
    BY <2>1, <2>3, <1>2, <1>3
  <2>5. CASE PerNode(k, d) = PerNode(k, c)
    BY <2>1, <2>5, <1>7
  <2> QED
    BY <2>1, <2>4, <2>5, <1>3
<1> QED
  BY <1>7, <1>8 DEF WidestGang, F

(***************************************************************************)
(* What ending a run does, and that it keeps the types.                    *)
(***************************************************************************)

\* _begin_teardown leaves some of the containers standing and says whether the
\* run counts as gone.
LEMMA BeginTeardownType ==
  ASSUME NEW r \in Runs, NEW standing \in SUBSET Machines,
         NEW seen \in attach(r, standing), NEW t \in BeginTeardown(seen, standing)
  PROVE  t.left \in SUBSET Machines /\ t.clean \in BOOLEAN
<1>1. seen \in {"there", "gone", "error"}
  BY DEF attach
<1> QED
  BY <1>1 DEF BeginTeardown

\* _finish: every run keeps a legal row, every machine a legal state.
LEMMA FinishType ==
  ASSUME MachinesTypeOK, RunsTypeOK, NEW r \in Runs, NEW target \in RunStatus,
         NEW why \in Classes, NEW standing \in SUBSET Machines,
         Finish(r, target, why, standing)
  PROVE  RunsTypeOK' /\ state' \in [Machines -> {"AWAY", "AVAILABLE", "RESERVED"}]
<1>1. PICK seen \in attach(r, standing) : \E t \in BeginTeardown(seen, standing) :
        /\ status' = [status EXCEPT ![r] = target]
        /\ class' = [class EXCEPT ![r] = why]
        /\ pending' = [pending EXCEPT ![r] = ~t.clean]
        /\ age' = [age EXCEPT ![r] = 0]
        /\ box' = [box EXCEPT ![r] = t.left]
        /\ state' = IF t.clean THEN ReleaseRunMachines(r) ELSE state
        /\ UNCHANGED <<rowVars, stop>>
  BY DEF Finish
<1>2. PICK t \in BeginTeardown(seen, standing) :
        /\ status' = [status EXCEPT ![r] = target]
        /\ class' = [class EXCEPT ![r] = why]
        /\ pending' = [pending EXCEPT ![r] = ~t.clean]
        /\ age' = [age EXCEPT ![r] = 0]
        /\ box' = [box EXCEPT ![r] = t.left]
        /\ state' = IF t.clean THEN ReleaseRunMachines(r) ELSE state
        /\ UNCHANGED <<rowVars, stop>>
  BY <1>1
<1>3. t.left \in SUBSET Machines /\ t.clean \in BOOLEAN
  BY BeginTeardownType
<1>4. ReleaseRunMachines(r) \in [Machines -> {"AWAY", "AVAILABLE", "RESERVED"}]
  BY DEF ReleaseRunMachines, MachinesTypeOK
<1>5. state' \in [Machines -> {"AWAY", "AVAILABLE", "RESERVED"}]
  BY <1>2, <1>4 DEF MachinesTypeOK
<1>6. RunsTypeOK'
  BY <1>2, <1>3 DEF RunsTypeOK, rowVars
<1> QED
  BY <1>5, <1>6

\* The status a run ends in is one of the three terminal ones.
LEMMA EndingIsStatus == {"SUCCEEDED", "FAILED", "KILLED"} \subseteq RunStatus
  BY DEF RunStatus, TERMINAL_RUN_STATES

\* _fail, and the requeue that may follow it.
LEMMA EndsType ==
  ASSUME TypeOK, NEW r \in Runs, NEW why \in Classes, NEW standing \in SUBSET Machines,
         Ends(r, why, standing)
  PROVE  MachinesTypeOK' /\ RunsTypeOK' /\ CampaignsTypeOK'
<1>1. Finish(r, "FAILED", why, standing)
  BY DEF Ends, Fail
<1>2. RunsTypeOK' /\ state' \in [Machines -> {"AWAY", "AVAILABLE", "RESERVED"}]
  BY <1>1, FinishType, EndingIsStatus DEF TypeOK
<1>3. CampaignsTypeOK'
  BY DEF TypeOK, CampaignsTypeOK, Ends, Fail, Requeue
<1>4. MachinesTypeOK'
  BY <1>2 DEF TypeOK, MachinesTypeOK, Ends, leaseVars
<1> QED
  BY <1>2, <1>3, <1>4

(***************************************************************************)
(* Type correctness: one lemma per part of the next-state relation.        *)
(***************************************************************************)

\* Crossing a row off the worklist keeps the worker's own state legal.
LEMMA HandleType ==
  ASSUME TypeOK, NEW p, NEW x, Handle(p, x)
  PROVE  WorkerTypeOK'
  BY DEF TypeOK, WorkerTypeOK, Handle

\* A new phase starts with rows that exist.
LEMMA EndPhaseType ==
  ASSUME TypeOK, EndPhase
  PROVE  TypeOK'
<1>1. MachinesTypeOK' /\ RunsTypeOK' /\ CampaignsTypeOK'
  BY DEF TypeOK, EndPhase, MachinesTypeOK, RunsTypeOK, CampaignsTypeOK, machineVars,
         runVars, campVars
<1>2. NextPhase[phase] \in Phases
  BY DEF TypeOK, WorkerTypeOK, Phases, NextPhase
<1>3. ASSUME NEW p
      PROVE  Worklist(p) \subseteq Machines \cup Runs \cup Campaigns
  BY DEF Worklist
<1>4. WorkerTypeOK'
  BY <1>2, <1>3 DEF EndPhase, WorkerTypeOK
<1> QED
  BY <1>1, <1>4 DEF TypeOK

\* _advance_leases.
LEMMA LeaseStepType ==
  ASSUME TypeOK, NEW m \in Machines, LeaseStep(m)
  PROVE  TypeOK'
<1>1. DrainMode(m) \in {"", "POLITE", "EAGER"}
  BY DEF DrainMode, TypeOK, MachinesTypeOK
<1>2. CASE KeepLease(m)
  <2>1. WorkerTypeOK'
    BY <1>2, HandleType DEF KeepLease
  <2>2. MachinesTypeOK'
    BY <1>1, <1>2 DEF KeepLease, BeginDrain, TypeOK, MachinesTypeOK
  <2>3. RunsTypeOK' /\ CampaignsTypeOK'
    BY <1>2 DEF KeepLease, TypeOK, RunsTypeOK, CampaignsTypeOK, runVars, campVars
  <2> QED
    BY <2>1, <2>2, <2>3 DEF TypeOK
<1>3. CASE ReleaseLease(m)
  <2>1. WorkerTypeOK'
    BY <1>3, HandleType DEF ReleaseLease
  <2>2. MachinesTypeOK'
    BY <1>1, <1>3 DEF ReleaseLease, TypeOK, MachinesTypeOK
  <2>3. RunsTypeOK' /\ CampaignsTypeOK'
    BY <1>3 DEF ReleaseLease, TypeOK, RunsTypeOK, CampaignsTypeOK, runVars, campVars
  <2> QED
    BY <2>1, <2>2, <2>3 DEF TypeOK
<1>4. ASSUME NEW r \in Runs, KillForLease(m, r)
      PROVE  TypeOK'
  <2>1. class[r] \in Classes /\ box[r] \in SUBSET Machines
    BY DEF TypeOK, RunsTypeOK
  <2>2. RunsTypeOK' /\ state' \in [Machines -> {"AWAY", "AVAILABLE", "RESERVED"}]
    BY <1>4, <2>1, FinishType, EndingIsStatus DEF KillForLease, TypeOK
  <2>3. MachinesTypeOK'
    BY <1>1, <1>4, <2>2 DEF KillForLease, BeginDrain, TypeOK, MachinesTypeOK
  <2>4. CampaignsTypeOK' /\ WorkerTypeOK'
    BY <1>4 DEF KillForLease, TypeOK, CampaignsTypeOK, WorkerTypeOK, campVars
  <2> QED
    BY <2>2, <2>3, <2>4 DEF TypeOK
<1> QED
  BY <1>2, <1>3, <1>4 DEF LeaseStep

\* _create_run, for a candidate that exists on machines that exist.
LEMMA CreateRunType ==
  ASSUME TypeOK, NEW r \in Runs, NEW c \in Candidates, NEW members \in SUBSET Machines,
         NEW lead \in Machines, NEW indices \in SUBSET Nat,
         CreateRun(r, c, members, lead, indices)
  PROVE  MachinesTypeOK' /\ RunsTypeOK' /\ CampaignsTypeOK'
<1>1. Reserve(members, lead) \in [Machines -> {"AWAY", "AVAILABLE", "RESERVED"}]
  BY DEF Reserve, TypeOK, MachinesTypeOK
<1>2. MachinesTypeOK'
  BY <1>1 DEF CreateRun, TypeOK, MachinesTypeOK, leaseVars
<1>3. "PENDING" \in RunStatus
  BY DEF RunStatus, LiveStates
<1>4. RunsTypeOK'
  BY <1>3 DEF CreateRun, TypeOK, RunsTypeOK
<1>5. CampaignsTypeOK'
  BY DEF CreateRun, TypeOK, CampaignsTypeOK
<1> QED
  BY <1>2, <1>4, <1>5

\* _start_one: the run it creates is on one machine that is open to the campaign,
\* for a candidate that waits, on cards nobody holds.
LEMMA StartOnePlan ==
  ASSUME NEW k \in Campaigns, StartOne(k)
  PROVE  \E m \in usable_machines(k), r \in Runs, c \in Waiting(k) :
           \E i \in SUBSET free_indices(m) :
             /\ m \in Machines /\ c \in Candidates /\ CampaignOf[c] = k
             /\ ~Closed(k, m)
             /\ CreateRun(r, c, {m}, m, i)
<1> DEFINE choice(m) == IF Gpus[m] = 0 THEN Lowest(Waiting(k)) ELSE Widest(FittingOn(k, m))
           picked(m) == IF Gpus[m] = 0 THEN {} ELSE FirstOf(free_indices(m), Cards[choice(m)])
<1>1. PICK m \in usable_machines(k), r \in Runs :
        /\ Takes(k, m)
        /\ CreateRun(r, choice(m), {m}, m, picked(m))
  BY DEF StartOne
<1>2. m \in Machines
  BY CampaignAssumption DEF usable_machines
<1>3. Waiting(k) \in SUBSET Candidates /\ Waiting(k) # {}
  BY DEF StartOne, Waiting
<1>4. choice(m) \in Waiting(k)
  <2>1. CASE Gpus[m] = 0
    BY <1>3, <2>1, LowestIsOffered
  <2>2. CASE Gpus[m] # 0
    <3>1. FittingOn(k, m) # {}
      BY <1>1, <2>2 DEF Takes
    <3>2. IsFiniteSet(free_indices(m))
      <4>1. IsFiniteSet(0..(Gpus[m] - 1))
        BY <1>2, GpusAssumption, FS_Interval
      <4> QED
        BY <4>1, FS_Subset DEF free_indices
    <3>3. Cardinality(free_indices(m)) \in Nat
      BY <3>2, FS_CardinalityType
    <3>4. Widest(FittingOn(k, m)) \in FittingOn(k, m)
      BY <1>3, <3>1, <3>3, WidestIsOffered DEF FittingOn
    <3>5. FittingOn(k, m) \subseteq Waiting(k)
      BY DEF FittingOn, Fitting
    <3> QED
      BY <2>2, <3>4, <3>5
  <2> QED
    BY <2>1, <2>2
<1>5. picked(m) \in SUBSET free_indices(m)
  BY DEF FirstOf
<1>6. choice(m) \in Candidates /\ CampaignOf[choice(m)] = k
  BY <1>4 DEF Waiting
<1>7. ~Closed(k, m)
  BY <1>1 DEF Takes
<1> HIDE DEF choice, picked
<1> QED
  BY <1>1, <1>2, <1>4, <1>5, <1>6, <1>7

\* _start_gang: the run it creates takes the whole group, and the group is idle.
LEMMA StartGangPlan ==
  ASSUME NEW k \in Campaigns, StartGang(k)
  PROVE  /\ GroupIsIdle(k)
         /\ Group[k] \in SUBSET Machines /\ Leader[k] \in Machines
         /\ \E r \in Runs, c \in Waiting(k) : \E i \in SUBSET Nat :
              /\ c \in Candidates /\ CampaignOf[c] = k
              /\ CreateRun(r, c, Group[k], Leader[k], i)
<1>1. /\ Cardinality(Group[k]) >= 2 /\ GroupIsIdle(k) /\ GangFitting(k) # {}
  BY DEF StartGang, GroupFree
<1>2. WidestGang(k) \in Waiting(k)
  BY <1>1, WidestGangIsOffered DEF GangFitting
<1>3. WidestGang(k) \in Candidates /\ CampaignOf[WidestGang(k)] = k
  BY <1>2 DEF Waiting
<1>4. PerNode(k, WidestGang(k)) \in Nat
  BY <1>1, <1>3, PerNodeType
<1>5. 0..(PerNode(k, WidestGang(k)) - 1) \in SUBSET Nat
  BY <1>4
<1>6. \E r \in Runs :
        CreateRun(r, WidestGang(k), Group[k], Leader[k], 0..(PerNode(k, WidestGang(k)) - 1))
  BY DEF StartGang
<1>7. Group[k] \in SUBSET Machines /\ Leader[k] \in Machines
  BY CampaignAssumption
<1> QED
  BY <1>1, <1>2, <1>3, <1>5, <1>6, <1>7

\* The machine queue's turns.
LEMMA PlaceStepType ==
  ASSUME TypeOK, NEW k \in Campaigns, PlaceStep(k)
  PROVE  TypeOK'
<1>1. CASE StartOne(k)
  <2>1. PICK m \in usable_machines(k), r \in Runs, c \in Waiting(k) :
          \E i \in SUBSET free_indices(m) :
            /\ m \in Machines /\ c \in Candidates /\ CreateRun(r, c, {m}, m, i)
    BY <1>1, StartOnePlan
  <2>2. PICK i \in SUBSET free_indices(m) : CreateRun(r, c, {m}, m, i)
    BY <2>1
  <2>3. i \in SUBSET Nat /\ {m} \in SUBSET Machines /\ m \in Machines /\ c \in Candidates
    BY <2>1, GpusAssumption DEF free_indices
  <2>4. MachinesTypeOK' /\ RunsTypeOK' /\ CampaignsTypeOK'
    BY <2>2, <2>3, CreateRunType
  <2>5. WorkerTypeOK'
    BY <1>1 DEF StartOne, TypeOK, WorkerTypeOK, workerVars
  <2> QED
    BY <2>4, <2>5 DEF TypeOK
<1>2. CASE StartGang(k)
  <2>1. MachinesTypeOK' /\ RunsTypeOK' /\ CampaignsTypeOK'
    BY <1>2, StartGangPlan, CreateRunType
  <2>2. WorkerTypeOK'
    BY <1>2 DEF StartGang, TypeOK, WorkerTypeOK, workerVars
  <2> QED
    BY <2>1, <2>2 DEF TypeOK
<1>3. CASE NotAdmitted(k)
  <2>1. Held(k) \subseteq Machines
    BY CampaignAssumption DEF Held, Busy, GangBusy, usable_machines
  <2>2. WorkerTypeOK'
    BY <1>3, <2>1 DEF NotAdmitted, TypeOK, WorkerTypeOK
  <2>3. CampaignsTypeOK'
    BY <1>3 DEF NotAdmitted, TypeOK, CampaignsTypeOK
  <2>4. MachinesTypeOK' /\ RunsTypeOK'
    BY <1>3 DEF NotAdmitted, TypeOK, MachinesTypeOK, RunsTypeOK, machineVars, runVars
  <2> QED
    BY <2>2, <2>3, <2>4 DEF TypeOK
<1> QED
  BY <1>1, <1>2, <1>3 DEF PlaceStep

\* A run that ends without failing: killed, or its benchmark passed.
LEMMA ClosesType ==
  ASSUME TypeOK, NEW r \in Runs, NEW target \in RunStatus, NEW why \in Classes,
         NEW c, cstat' = cstat \/ cstat' = Requeue(c),
         Finish(r, target, why, box[r]),
         UNCHANGED <<leaseVars, attention, camp, window>>
  PROVE  MachinesTypeOK' /\ RunsTypeOK' /\ CampaignsTypeOK'
<1>1. box[r] \in SUBSET Machines
  BY DEF TypeOK, RunsTypeOK
<1>2. RunsTypeOK' /\ state' \in [Machines -> {"AWAY", "AVAILABLE", "RESERVED"}]
  BY <1>1, FinishType DEF TypeOK
<1>3. MachinesTypeOK'
  BY <1>2 DEF TypeOK, MachinesTypeOK, leaseVars
<1>4. CampaignsTypeOK'
  BY DEF TypeOK, CampaignsTypeOK, Requeue
<1> QED
  BY <1>2, <1>3, <1>4

\* A handler that leaves the row as it is.
LEMMA SkipType ==
  ASSUME TypeOK, Skip
  PROVE  MachinesTypeOK' /\ RunsTypeOK' /\ CampaignsTypeOK'
  BY DEF TypeOK, Skip, MachinesTypeOK, RunsTypeOK, CampaignsTypeOK, machineVars, runVars,
         campVars

\* _transition forward.
LEMMA StepType ==
  ASSUME TypeOK, NEW r \in Runs, NEW target \in RunStatus, Step(r, target),
         box' \in [Runs -> SUBSET Machines]
  PROVE  MachinesTypeOK' /\ RunsTypeOK' /\ CampaignsTypeOK'
  BY DEF TypeOK, Step, MachinesTypeOK, RunsTypeOK, CampaignsTypeOK, machineVars, rowVars,
         campVars

\* _advance_one.
LEMMA AdvanceStepType ==
  ASSUME TypeOK, NEW r \in Runs, AdvanceStep(r)
  PROVE  TypeOK'
<1> DEFINE Rows == MachinesTypeOK' /\ RunsTypeOK' /\ CampaignsTypeOK'
<1>1. /\ at[r] \in SUBSET Machines /\ box[r] \in SUBSET Machines /\ class[r] \in Classes
      /\ box \in [Runs -> SUBSET Machines]
  BY DEF TypeOK, RunsTypeOK
<1>2. {"infrastructure", "other"} \subseteq Classes
  BY DEF Classes
<1>3. LiveStates \subseteq RunStatus
  BY DEF RunStatus
<1>4. {"LAUNCHING", "WAITING_READY", "HEALTH_CHECK", "BENCHING"} \subseteq RunStatus
  BY <1>3 DEF LiveStates
<1>5. WorkerTypeOK'
  BY HandleType DEF AdvanceStep, Launch, LaunchFails, KeepWaiting, BecomesReady,
     StillStarting, ContainerGone, StartupFails, BeginBench, HealthFails, BenchPasses,
     BenchFails, AdvanceRaises
<1>6. CASE Launch(r)
  <2>1. box' \in [Runs -> SUBSET Machines]
    BY <1>1, <1>6 DEF Launch
  <2> QED
    BY <1>4, <1>5, <1>6, <2>1, StepType DEF Launch, TypeOK
<1>7. CASE LaunchFails(r)
  <2>1. PICK why \in {"infrastructure", "other"}, standing \in SUBSET at[r] :
          Ends(r, why, standing)
    BY <1>7 DEF LaunchFails
  <2>2. why \in Classes /\ standing \in SUBSET Machines
    BY <1>1, <1>2
  <2> QED
    BY <1>5, <2>1, <2>2, EndsType DEF TypeOK
<1>8. CASE KeepWaiting(r)
  BY <1>5, <1>8, SkipType DEF KeepWaiting, TypeOK
<1>9. CASE BecomesReady(r) \/ StillStarting(r) \/ BeginBench(r)
  <2>1. box' \in [Runs -> SUBSET Machines]
    BY <1>1, <1>9 DEF BecomesReady, StillStarting, BeginBench
  <2>2. \E target \in RunStatus : Step(r, target)
    BY <1>4, <1>9 DEF BecomesReady, StillStarting, BeginBench
  <2> QED
    BY <1>5, <2>1, <2>2, StepType DEF TypeOK
<1>10. CASE ContainerGone(r) \/ StartupFails(r) \/ HealthFails(r) \/ BenchFails(r)
            \/ AdvanceRaises(r)
  <2>1. \E why \in Classes : Ends(r, why, box[r])
    BY <1>2, <1>10 DEF ContainerGone, StartupFails, HealthFails, BenchFails, AdvanceRaises
  <2> QED
    BY <1>1, <1>5, <2>1, EndsType DEF TypeOK
<1>11. CASE BenchPasses(r)
  BY <1>1, <1>5, <1>11, ClosesType, EndingIsStatus DEF BenchPasses, TypeOK, campVars
<1> QED
  BY <1>6, <1>7, <1>8, <1>9, <1>10, <1>11 DEF AdvanceStep

\* _reap_teardowns.
LEMMA ReapStepType ==
  ASSUME TypeOK, NEW r \in Runs, ReapStep(r)
  PROVE  TypeOK'
<1>1. WorkerTypeOK'
  BY HandleType DEF ReapStep, ConfirmTeardown, GiveUpTeardown, ForceTeardown, KeepReaping
<1>2. CASE ConfirmTeardown(r)
  <2>1. ReleaseRunMachines(r) \in [Machines -> {"AWAY", "AVAILABLE", "RESERVED"}]
    BY DEF ReleaseRunMachines, TypeOK, MachinesTypeOK
  <2>2. MachinesTypeOK'
    BY <1>2, <2>1 DEF ConfirmTeardown, TypeOK, MachinesTypeOK, leaseVars
  <2>3. RunsTypeOK' /\ CampaignsTypeOK'
    BY <1>2 DEF ConfirmTeardown, TypeOK, RunsTypeOK, CampaignsTypeOK, rowVars, campVars
  <2> QED
    BY <1>1, <2>2, <2>3 DEF TypeOK
<1>3. CASE GiveUpTeardown(r)
  <2>1. attention' \in [Machines -> BOOLEAN]
    BY <1>3 DEF GiveUpTeardown
  <2>2. MachinesTypeOK'
    BY <1>3, <2>1 DEF GiveUpTeardown, TypeOK, MachinesTypeOK, leaseVars
  <2>3. RunsTypeOK' /\ CampaignsTypeOK'
    BY <1>3 DEF GiveUpTeardown, TypeOK, RunsTypeOK, CampaignsTypeOK, rowVars, campVars
  <2> QED
    BY <1>1, <2>2, <2>3 DEF TypeOK
<1>4. CASE ForceTeardown(r)
  <2>1. RunsTypeOK'
    BY <1>4 DEF ForceTeardown, TypeOK, RunsTypeOK, runVars
  <2>2. MachinesTypeOK' /\ CampaignsTypeOK'
    BY <1>4 DEF ForceTeardown, TypeOK, MachinesTypeOK, CampaignsTypeOK, machineVars, campVars
  <2> QED
    BY <1>1, <2>1, <2>2 DEF TypeOK
<1>5. CASE KeepReaping(r)
  BY <1>1, <1>5, SkipType DEF KeepReaping, TypeOK
<1> QED
  BY <1>2, <1>3, <1>4, <1>5 DEF ReapStep

\* Every handler of one run.
LEMMA RunStepType ==
  ASSUME TypeOK, NEW r \in Runs, RunStep(r)
  PROVE  TypeOK'
<1>1. box[r] \in SUBSET Machines /\ class[r] \in Classes
  BY DEF TypeOK, RunsTypeOK
<1>2. {"released", "infrastructure"} \subseteq Classes
  BY DEF Classes
<1>3. CASE ProcessStop(r)
  <2>1. WorkerTypeOK'
    BY <1>3, HandleType DEF ProcessStop
  <2>2. \E why \in Classes : Finish(r, "KILLED", why, box[r])
    BY <1>1, <1>2, <1>3 DEF ProcessStop
  <2>3. /\ cstat' = cstat \/ cstat' = Requeue(cand[r])
        /\ UNCHANGED <<leaseVars, attention, camp, window>>
    BY <1>3 DEF ProcessStop
  <2> QED
    BY <2>1, <2>2, <2>3, ClosesType, EndingIsStatus DEF TypeOK
<1>4. CASE ReleaseQueued(r)
  <2>1. WorkerTypeOK'
    BY <1>4, HandleType DEF ReleaseQueued
  <2> QED
    BY <1>2, <1>4, <2>1, ClosesType, EndingIsStatus DEF ReleaseQueued, TypeOK
<1>5. CASE KeepWhilePaused(r) \/ Reattach(r)
  BY <1>5, HandleType, SkipType DEF KeepWhilePaused, Reattach, TypeOK
<1>6. CASE AdvanceStep(r)
  BY <1>6, AdvanceStepType
<1>7. CASE CutAtWindow(r)
  <2>1. WorkerTypeOK'
    BY <1>7, HandleType DEF CutAtWindow
  <2> QED
    BY <1>1, <1>7, <2>1, ClosesType, EndingIsStatus DEF CutAtWindow, TypeOK, campVars
<1>8. CASE ReapStep(r)
  BY <1>8, ReapStepType
<1>9. CASE Orphaned(r)
  <2>1. WorkerTypeOK'
    BY <1>9, HandleType DEF Orphaned
  <2> QED
    BY <1>1, <1>2, <1>9, <2>1, EndsType DEF Orphaned, TypeOK
<1> QED
  BY <1>3, <1>4, <1>5, <1>6, <1>7, <1>8, <1>9 DEF RunStep

\* The requests.
LEMMA ApiType ==
  ASSUME TypeOK, Api
  PROVE  TypeOK'
<1> USE DEF TypeOK, Request, workerVars
<1>1. ASSUME NEW m \in Machines, NEW by \in WhenAsked, lease_machine(m, by)
      PROVE  TypeOK'
  BY <1>1 DEF lease_machine, WhenAsked, MachinesTypeOK, RunsTypeOK, CampaignsTypeOK,
              WorkerTypeOK, runVars, campVars
<1>2. ASSUME NEW m \in Machines, NEW mode \in {"POLITE", "EAGER"}, NEW by \in WhenAsked,
             end_lease(m, mode, by)
      PROVE  TypeOK'
  BY <1>2 DEF end_lease, WhenAsked, MachinesTypeOK, RunsTypeOK, CampaignsTypeOK,
              WorkerTypeOK, runVars, campVars
<1>3. ASSUME NEW m \in Machines, NEW s \in {"AWAY", "AVAILABLE"}, set_machine_state(m, s)
      PROVE  TypeOK'
  BY <1>3 DEF set_machine_state, MachinesTypeOK, RunsTypeOK, CampaignsTypeOK,
              WorkerTypeOK, leaseVars, runVars, campVars
<1>4. ASSUME NEW r \in Runs, stop_run(r)
      PROVE  TypeOK'
  BY <1>4 DEF stop_run, MachinesTypeOK, RunsTypeOK, CampaignsTypeOK, WorkerTypeOK,
              machineVars, rowVars, campVars
<1>5. ASSUME NEW k \in Campaigns, force_stop(k)
      PROVE  TypeOK'
  BY <1>5 DEF force_stop, MachinesTypeOK, RunsTypeOK, CampaignsTypeOK, WorkerTypeOK,
              machineVars, rowVars
<1>6. ASSUME NEW k \in Campaigns, NEW s \in {"ACTIVE", "PAUSED", "DONE"},
             set_campaign_status(k, s)
      PROVE  TypeOK'
  BY <1>6 DEF set_campaign_status, MachinesTypeOK, RunsTypeOK, CampaignsTypeOK,
              WorkerTypeOK, machineVars, runVars
<1>7. ASSUME NEW k \in Campaigns, retry_failed(k)
      PROVE  TypeOK'
  BY <1>7 DEF retry_failed, MachinesTypeOK, RunsTypeOK, CampaignsTypeOK, WorkerTypeOK,
              machineVars, runVars
<1> QED
  BY <1>1, <1>2, <1>3, <1>4, <1>5, <1>6, <1>7 DEF Api

\* A restart, the clocks, and containers that disappear.
LEMMA WorldType ==
  ASSUME TypeOK, Restart \/ World
  PROVE  TypeOK'
<1>1. CASE Restart
  BY <1>1 DEF Restart, Phases, machineVars, runVars, campVars, TypeOK, MachinesTypeOK,
              RunsTypeOK, CampaignsTypeOK, WorkerTypeOK
<1>2. ASSUME NEW r \in Runs, TeardownClock(r)
      PROVE  TypeOK'
  <2>1. age \in [Runs -> 0..2]
    BY DEF TypeOK, RunsTypeOK
  <2>2. age' \in [Runs -> 0..2]
    BY <1>2, <2>1 DEF TeardownClock
  <2>3. RunsTypeOK'
    BY <1>2, <2>2 DEF TeardownClock, TypeOK, RunsTypeOK, rowVars
  <2>4. MachinesTypeOK' /\ CampaignsTypeOK' /\ WorkerTypeOK'
    BY <1>2 DEF TeardownClock, TypeOK, MachinesTypeOK, CampaignsTypeOK, WorkerTypeOK,
                machineVars, campVars, workerVars
  <2> QED
    BY <2>3, <2>4 DEF TypeOK
<1>3. ASSUME NEW r \in Runs, NEW m \in Machines, ContainerLost(r, m)
      PROVE  TypeOK'
  BY <1>3 DEF ContainerLost, machineVars, runVars, campVars, workerVars, TypeOK,
              MachinesTypeOK, RunsTypeOK, CampaignsTypeOK, WorkerTypeOK
<1>4. ASSUME NEW m \in Machines, DueClock(m)
      PROVE  TypeOK'
  <2> DEFINE Clock == {"none", "later", "passed"}
  <2>1. due \in [Machines -> Clock] /\ deadline \in [Machines -> Clock]
    BY DEF TypeOK, MachinesTypeOK
  <2>2. \/ due' = [due EXCEPT ![m] = "passed"] /\ deadline' = deadline
        \/ deadline' = [deadline EXCEPT ![m] = "passed"] /\ due' = due
    BY <1>4 DEF DueClock
  <2>3. due' \in [Machines -> Clock] /\ deadline' \in [Machines -> Clock]
    BY <2>1, <2>2
  <2>4. MachinesTypeOK'
    BY <1>4, <2>3 DEF DueClock, TypeOK, MachinesTypeOK
  <2>5. RunsTypeOK' /\ CampaignsTypeOK' /\ WorkerTypeOK'
    BY <1>4 DEF DueClock, TypeOK, RunsTypeOK, CampaignsTypeOK, WorkerTypeOK, runVars,
                campVars, workerVars
  <2> QED
    BY <2>4, <2>5 DEF TypeOK
<1>5. ASSUME NEW k \in Campaigns, WindowClock(k)
      PROVE  TypeOK'
  BY <1>5 DEF WindowClock, machineVars, runVars, workerVars, TypeOK, MachinesTypeOK,
              RunsTypeOK, CampaignsTypeOK, WorkerTypeOK
<1> QED
  BY <1>1, <1>2, <1>3, <1>4, <1>5 DEF World

\* The empty tables are well typed.
LEMMA InitType ==
  ASSUME Init
  PROVE  TypeOK
<1>1. MachinesTypeOK
  BY DEF Init, MachinesTypeOK
<1>2. RunsTypeOK
  <2>1. /\ status \in [Runs -> RunStatus \cup {"NONE"}]
        /\ cand \in [Runs -> Candidates \cup {NoCandidate}]
        /\ at \in [Runs -> SUBSET Machines]
        /\ master \in [Runs -> Machines \cup {NoMachine}]
        /\ cards \in [Runs -> SUBSET Nat]
    BY DEF Init
  <2>2. pending \in [Runs -> BOOLEAN]
    BY DEF Init
  <2>4. age \in [Runs -> 0..2]
    <3>1. age = [r \in Runs |-> 0]
      BY DEF Init
    <3> QED
      BY <3>1
  <2>3. /\ class \in [Runs -> Classes]
        /\ stop \in [Runs -> {"none", "run", "campaign"}]
        /\ box \in [Runs -> SUBSET Machines]
    BY DEF Init, Classes
  <2> QED
    BY <2>1, <2>2, <2>3, <2>4 DEF RunsTypeOK
<1>3. CampaignsTypeOK /\ WorkerTypeOK
  BY DEF Init, CampaignsTypeOK, WorkerTypeOK, Phases
<1> QED
  BY <1>1, <1>2, <1>3 DEF TypeOK

\* Every reachable state of every fleet is well typed: whatever fails, is asked
\* for or restarts, each row holds values its columns allow.
THEOREM TypeCorrect == Spec => []TypeOK
<1>1. Init => TypeOK
  BY InitType
<1>2. TypeOK /\ [Next]_vars => TypeOK'
  <2> SUFFICES ASSUME TypeOK, [Next]_vars PROVE TypeOK'
    OBVIOUS
  <2>1. CASE Worker
    BY <2>1, EndPhaseType, LeaseStepType, PlaceStepType, RunStepType DEF Worker
  <2>2. CASE Api
    BY <2>2, ApiType
  <2>3. CASE Restart \/ World
    BY <2>3, WorldType
  <2>4. CASE UNCHANGED vars
    BY <2>4 DEF vars, machineVars, runVars, campVars, workerVars, TypeOK, MachinesTypeOK,
                RunsTypeOK, CampaignsTypeOK, WorkerTypeOK
  <2> QED
    BY <2>1, <2>2, <2>3, <2>4 DEF Next
<1> QED
  BY <1>1, <1>2, PTL DEF Spec

(***************************************************************************)
(* Safety.  The inductive invariant adds two facts to the properties: the  *)
(* rows a phase still has to handle are in the state its query selected    *)
(* them for, and a live run measures a candidate that exists.              *)
(***************************************************************************)
WorklistCurrent ==
  /\ phase \in {"stops", "paused", "advance", "windows", "reconcile"} =>
       todo \subseteq {r \in Runs : Live(r)}
  /\ phase = "reap" => todo \subseteq {r \in Runs : pending[r]}

LiveHasCandidate == \A r \in Runs : Live(r) => cand[r] \in Candidates

Inv ==
  /\ TypeOK
  /\ WorklistCurrent
  /\ LiveHasCandidate
  /\ CardsExclusive
  /\ GangExclusive
  /\ SharingConsent
  /\ OneRunPerCandidate
  /\ OneRunPerCpuBox

\* A step that places nothing: every row stays where it is, no run comes to life
\* or takes hold of cards, and no candidate of a live run is offered again.
Shrinks ==
  /\ UNCHANGED rowVars
  /\ \A r \in Runs : /\ Live(r)' => Live(r)
                     /\ HoldsCards(r)' => HoldsCards(r)
                     /\ Live(r)' => cstat'[cand[r]] = cstat[cand[r]]

\* What a handler of run r leaves of the others.
OthersKept(r) ==
  \A x \in Runs \ {r} : status'[x] = status[x] /\ pending'[x] = pending[x]

\* _finish ends the run it is given and no other.
LEMMA FinishEffect ==
  ASSUME RunsTypeOK, NEW r \in Runs, NEW target \in TERMINAL_RUN_STATES, NEW why,
         NEW standing, Finish(r, target, why, standing)
  PROVE  /\ UNCHANGED rowVars
         /\ status' = [status EXCEPT ![r] = target]
         /\ ~Live(r)'
         /\ OthersKept(r)
<1>1. /\ UNCHANGED rowVars
      /\ status' = [status EXCEPT ![r] = target]
      /\ \E b : pending' = [pending EXCEPT ![r] = b]
  BY DEF Finish
<1>2. status'[r] = target
  BY <1>1 DEF RunsTypeOK
<1>3. ~Live(r)'
  BY <1>2 DEF Live, LiveStates, TERMINAL_RUN_STATES
<1>4. OthersKept(r)
  BY <1>1 DEF OthersKept, RunsTypeOK
<1> QED
  BY <1>1, <1>3, <1>4

\* Ending a live run, with its candidate given back or not, places nothing.
LEMMA EndingShrinks ==
  ASSUME Inv, NEW r \in Runs, Live(r), NEW target \in TERMINAL_RUN_STATES, NEW why,
         NEW standing, Finish(r, target, why, standing),
         cstat' = cstat \/ cstat' = Requeue(cand[r])
  PROVE  Shrinks /\ OthersKept(r)
<1>1. UNCHANGED rowVars /\ ~Live(r)' /\ OthersKept(r)
  BY FinishEffect DEF Inv, TypeOK
<1>2. ASSUME NEW x \in Runs, x # r
      PROVE  (Live(x)' <=> Live(x)) /\ (HoldsCards(x)' <=> HoldsCards(x))
  <2>1. status'[x] = status[x] /\ pending'[x] = pending[x]
    BY <1>1, <1>2 DEF OthersKept
  <2> QED
    BY <2>1 DEF Live, HoldsCards
<1>3. ASSUME NEW x \in Runs, Live(x)'
      PROVE  cstat'[cand[x]] = cstat[cand[x]]
  <2>1. x # r /\ Live(x)
    BY <1>1, <1>2, <1>3
  <2>2. cand[x] # cand[r] /\ cand[x] \in Candidates
    BY <2>1 DEF Inv, OneRunPerCandidate, LiveHasCandidate
  <2> QED
    BY <2>2 DEF Requeue, Inv, TypeOK, CampaignsTypeOK
<1>4. \A x \in Runs : (Live(x)' => Live(x)) /\ (HoldsCards(x)' => HoldsCards(x))
  BY <1>1, <1>2 DEF HoldsCards
<1> QED
  BY <1>1, <1>3, <1>4 DEF Shrinks

\* A step that leaves the runs' status and teardown alone.
LEMMA QuietShrinks ==
  ASSUME UNCHANGED <<rowVars, status, cstat>>,
         \A r \in Runs : pending'[r] => pending[r]
  PROVE  Shrinks
  BY DEF Shrinks, Live, HoldsCards

\* A live run that moves on stays live.
LEMMA StepShrinks ==
  ASSUME Inv, NEW r \in Runs, Live(r), NEW target, Step(r, target)
  PROVE  Shrinks /\ OthersKept(r)
<1>1. \A x \in Runs \ {r} : status'[x] = status[x]
  BY DEF Step, Inv, TypeOK, RunsTypeOK
<1>2. UNCHANGED <<rowVars, pending, cstat>>
  BY DEF Step, campVars
<1> QED
  BY <1>1, <1>2 DEF Shrinks, OthersKept, Live, HoldsCards

\* A run a handler gets from its worklist is live in the phases that select live
\* runs.
LEMMA HandledIsLive ==
  ASSUME Inv, NEW r \in Runs,
         NEW p \in {"stops", "paused", "advance", "windows", "reconcile"}, Handle(p, r)
  PROVE  Live(r)
  BY DEF Inv, WorklistCurrent, Handle

\* _advance_one places nothing.
LEMMA AdvanceShrinks ==
  ASSUME Inv, NEW r \in Runs, AdvanceStep(r)
  PROVE  Shrinks /\ OthersKept(r) /\ Handle("advance", r)
<1>1. Handle("advance", r)
  BY DEF AdvanceStep, Launch, LaunchFails, KeepWaiting, BecomesReady, StillStarting,
     ContainerGone, StartupFails, BeginBench, HealthFails, BenchPasses, BenchFails,
     AdvanceRaises
<1>2. Live(r)
  BY <1>1, HandledIsLive
<1>3. {"SUCCEEDED", "FAILED"} \subseteq TERMINAL_RUN_STATES
  BY DEF TERMINAL_RUN_STATES
<1>4. CASE KeepWaiting(r)
  BY <1>1, <1>4, QuietShrinks DEF KeepWaiting, Skip, OthersKept, runVars, rowVars, campVars
<1>5. CASE \E target : Step(r, target)
  BY <1>1, <1>2, <1>5, StepShrinks
<1>6. CASE \E why, standing : Ends(r, why, standing)
  BY <1>1, <1>2, <1>3, <1>6, EndingShrinks DEF Ends, Fail
<1>7. CASE BenchPasses(r)
  BY <1>1, <1>2, <1>3, <1>7, EndingShrinks DEF BenchPasses, campVars
<1> QED
  BY <1>4, <1>5, <1>6, <1>7 DEF AdvanceStep, Launch, LaunchFails, BecomesReady,
     StillStarting, ContainerGone, StartupFails, BeginBench, HealthFails, BenchFails,
     AdvanceRaises

\* Nor does the janitor.
LEMMA ReapShrinks ==
  ASSUME Inv, NEW r \in Runs, ReapStep(r)
  PROVE  Shrinks /\ OthersKept(r) /\ Handle("reap", r)
<1>1. Handle("reap", r)
  BY DEF ReapStep, ConfirmTeardown, GiveUpTeardown, ForceTeardown, KeepReaping
<1>2. UNCHANGED <<rowVars, status, cstat>>
  BY DEF ReapStep, ConfirmTeardown, GiveUpTeardown, ForceTeardown, KeepReaping, Skip,
     runVars, rowVars, campVars
<1>3. pending' = pending \/ pending' = [pending EXCEPT ![r] = FALSE]
  BY DEF ReapStep, ConfirmTeardown, GiveUpTeardown, ForceTeardown, KeepReaping, Skip,
     runVars
<1>4. \A x \in Runs : pending'[x] => pending[x]
  BY <1>3 DEF Inv, TypeOK, RunsTypeOK
<1>5. OthersKept(r)
  BY <1>2, <1>3 DEF OthersKept, Inv, TypeOK, RunsTypeOK
<1> QED
  BY <1>1, <1>2, <1>4, <1>5, QuietShrinks

\* Nor does any handler of a run.
LEMMA RunStepShrinks ==
  ASSUME Inv, NEW r \in Runs, RunStep(r)
  PROVE  Shrinks /\ OthersKept(r) /\ \E p : Handle(p, r)
<1>1. {"KILLED", "FAILED"} \subseteq TERMINAL_RUN_STATES
  BY DEF TERMINAL_RUN_STATES
<1>2. CASE ProcessStop(r)
  <2>1. Live(r)
    BY <1>2, HandledIsLive DEF ProcessStop
  <2>2. \E why : Finish(r, "KILLED", why, box[r])
    BY <1>2 DEF ProcessStop
  <2>3. cstat' = cstat \/ cstat' = Requeue(cand[r])
    BY <1>2 DEF ProcessStop
  <2> QED
    BY <1>1, <1>2, <2>1, <2>2, <2>3, EndingShrinks DEF ProcessStop
<1>3. CASE ReleaseQueued(r)
  BY <1>1, <1>3, HandledIsLive, EndingShrinks DEF ReleaseQueued
<1>4. CASE KeepWhilePaused(r) \/ Reattach(r)
  BY <1>4, QuietShrinks DEF KeepWhilePaused, Reattach, Skip, OthersKept, runVars, rowVars,
                            campVars
<1>5. CASE AdvanceStep(r)
  BY <1>5, AdvanceShrinks
<1>6. CASE CutAtWindow(r)
  BY <1>1, <1>6, HandledIsLive, EndingShrinks DEF CutAtWindow, campVars
<1>7. CASE ReapStep(r)
  BY <1>7, ReapShrinks
<1>8. CASE Orphaned(r)
  <2>1. Live(r)
    BY <1>8, HandledIsLive DEF Orphaned
  <2> QED
    BY <1>1, <1>8, <2>1, EndingShrinks DEF Orphaned, Ends, Fail
<1> QED
  BY <1>2, <1>3, <1>4, <1>5, <1>6, <1>7, <1>8 DEF RunStep

\* Every step places a run or places nothing.
LEMMA ShrinksOrStarts ==
  ASSUME Inv, [Next]_vars
  PROVE  Shrinks \/ \E k \in Campaigns : StartOne(k) \/ StartGang(k)
<1> USE DEF rowVars, runVars, campVars, workerVars
<1>1. CASE EndPhase
  BY <1>1, QuietShrinks DEF EndPhase
<1>2. ASSUME NEW m \in Machines, LeaseStep(m)
      PROVE  Shrinks
  <2>1. CASE KeepLease(m) \/ ReleaseLease(m)
    BY <2>1, QuietShrinks DEF KeepLease, ReleaseLease
  <2>2. ASSUME NEW r \in Runs, KillForLease(m, r)
        PROVE  Shrinks
    <3>1. Live(r) /\ "KILLED" \in TERMINAL_RUN_STATES
      BY <2>2 DEF KillForLease, live_runs_on, TERMINAL_RUN_STATES
    <3> QED
      BY <2>2, <3>1, EndingShrinks DEF KillForLease
  <2> QED
    BY <1>2, <2>1, <2>2 DEF LeaseStep
<1>3. ASSUME NEW k \in Campaigns, NotAdmitted(k)
      PROVE  Shrinks
  BY <1>3, QuietShrinks DEF NotAdmitted
<1>4. ASSUME NEW r \in Runs, RunStep(r)
      PROVE  Shrinks
  BY <1>4, RunStepShrinks
<1>5. ASSUME NEW k \in Campaigns, retry_failed(k)
      PROVE  Shrinks
  <2>1. UNCHANGED <<rowVars, status, pending>>
    BY <1>5 DEF retry_failed
  <2>2. ASSUME NEW r \in Runs, Live(r)
        PROVE  cstat'[cand[r]] = cstat[cand[r]]
    <3>1. cand[r] \in Candidates
      BY <2>2 DEF Inv, LiveHasCandidate
    <3>2. status[r] \notin {"FAILED", "KILLED"}
      BY <2>2 DEF Live, LiveStates
    <3>3. ~Retryable(cand[r])
      BY <3>2 DEF Retryable
    <3> QED
      BY <1>5, <3>1, <3>3 DEF retry_failed
  <2> QED
    BY <2>1, <2>2 DEF Shrinks, Live, HoldsCards
<1>6. CASE Api
  BY <1>5, <1>6, QuietShrinks DEF Api, lease_machine, end_lease, set_machine_state,
     stop_run, force_stop, set_campaign_status
<1>7. CASE Restart \/ World
  BY <1>7, QuietShrinks DEF Restart, World, TeardownClock, ContainerLost, DueClock,
     WindowClock
<1>8. CASE UNCHANGED vars
  BY <1>8, QuietShrinks DEF vars
<1> QED
  BY <1>1, <1>2, <1>3, <1>4, <1>6, <1>7, <1>8 DEF Next, Worker, PlaceStep

\* The rows of a phase's worklist stay in the state they were selected for: the
\* only handler that changes a run in between is its own.
LEMMA WorklistNext ==
  ASSUME Inv, [Next]_vars
  PROVE  WorklistCurrent'
<1>1. CASE EndPhase
  <2>1. /\ UNCHANGED <<status, pending>>
        /\ phase' = NextPhase[phase]
        /\ todo' = Worklist(phase')
    BY <1>1 DEF EndPhase, runVars
  <2> DEFINE Now == {r \in Runs : Live(r)}
  <2>2. phase' \in {"stops", "paused", "advance", "windows"} => todo' \subseteq Now
    BY <2>1 DEF Worklist
  <2>3. phase' # "reconcile"
    BY <2>1 DEF NextPhase, Inv, TypeOK, WorkerTypeOK, Phases
  <2>4. phase' = "reap" => todo' \subseteq {r \in Runs : pending[r]}
    BY <2>1 DEF Worklist
  <2> QED
    BY <2>1, <2>2, <2>3, <2>4 DEF WorklistCurrent, Live
<1>2. ASSUME NEW m \in Machines, LeaseStep(m)
      PROVE  WorklistCurrent'
  <2>1. phase = "leases" /\ phase' = phase
    BY <1>2 DEF LeaseStep, KeepLease, ReleaseLease, KillForLease, Handle
  <2> QED
    BY <2>1 DEF WorklistCurrent
<1>3. ASSUME NEW k \in Campaigns, PlaceStep(k)
      PROVE  WorklistCurrent'
  <2>1. phase = "schedule" /\ phase' = phase
    BY <1>3 DEF PlaceStep, StartOne, StartGang, NotAdmitted, workerVars
  <2> QED
    BY <2>1 DEF WorklistCurrent
<1>4. ASSUME NEW r \in Runs, RunStep(r)
      PROVE  WorklistCurrent'
  <2>1. OthersKept(r) /\ phase' = phase /\ todo' = todo \ {r}
    BY <1>4, RunStepShrinks DEF Handle
  <2>2. \A x \in Runs : x # r => (Live(x)' <=> Live(x)) /\ pending'[x] = pending[x]
    BY <2>1 DEF OthersKept, Live
  <2>3. WorklistCurrent
    BY DEF Inv
  <2> QED
    BY <2>1, <2>2, <2>3 DEF WorklistCurrent
<1>5. CASE Api
  <2>1. phase' = "idle"
    BY <1>5 DEF Api, Request, workerVars, lease_machine, end_lease, set_machine_state,
       stop_run, force_stop, set_campaign_status, retry_failed
  <2> QED
    BY <2>1 DEF WorklistCurrent
<1>6. CASE Restart
  BY <1>6 DEF Restart, WorklistCurrent, Live, runVars
<1>7. CASE World \/ UNCHANGED vars
  <2>1. UNCHANGED <<phase, todo, status, pending>>
    BY <1>7 DEF World, TeardownClock, ContainerLost, DueClock, WindowClock, workerVars,
       runVars, vars
  <2> QED
    BY <2>1 DEF Inv, WorklistCurrent, Live
<1> QED
  BY <1>1, <1>2, <1>3, <1>4, <1>5, <1>6, <1>7 DEF Next, Worker

\* The part of the invariant that is about who is where.
Placements ==
  /\ LiveHasCandidate
  /\ CardsExclusive
  /\ GangExclusive
  /\ SharingConsent
  /\ OneRunPerCandidate
  /\ OneRunPerCpuBox

\* A step that places nothing cannot break it.
LEMMA ShrinksKeeps ==
  ASSUME Inv, Shrinks
  PROVE  Placements'
<1>1. cand' = cand /\ at' = at /\ cards' = cards
  BY DEF Shrinks, rowVars
<1>2. \A r \in Runs : (Live(r)' => Live(r)) /\ (HoldsCards(r)' => HoldsCards(r))
  BY DEF Shrinks
<1>3. \A r \in Runs : Live(r)' => cstat'[cand[r]] = cstat[cand[r]]
  BY DEF Shrinks
<1>4. LiveHasCandidate'
  BY <1>1, <1>2 DEF Inv, LiveHasCandidate
<1>5. CardsExclusive'
  BY <1>1, <1>2 DEF Inv, CardsExclusive
<1>6. GangExclusive'
  BY <1>1, <1>2 DEF Inv, GangExclusive
<1>7. SharingConsent'
  BY <1>1, <1>2 DEF Inv, SharingConsent
<1>8. OneRunPerCandidate'
  BY <1>1, <1>2, <1>3 DEF Inv, OneRunPerCandidate
<1>9. OneRunPerCpuBox'
  BY <1>1, <1>2 DEF Inv, OneRunPerCpuBox
<1> QED
  BY <1>4, <1>5, <1>6, <1>7, <1>8, <1>9 DEF Placements

\* What a placement owes the runs that are there already.
Respects(c, members, indices) ==
  /\ \A x \in Runs : HoldsCards(x) /\ at[x] \cap members # {} => cards[x] \cap indices = {}
  /\ \A x \in Runs : Live(x) /\ at[x] \cap members # {} =>
       \E m \in Machines : at[x] = {m} /\ members = {m}
  /\ \A x \in Runs : \A m \in (at[x] \cap members) \ Pools :
       Live(x) => Share[CampaignOf[c]] /\ Share[CampaignOf[cand[x]]]
  /\ \A x \in Runs : \A m \in at[x] \cap members : Gpus[m] = 0 => ~HoldsCards(x)

\* _create_run brings one run to life and leaves the others as they are.
LEMMA CreateRunEffect ==
  ASSUME TypeOK, NEW r \in Runs, NEW c \in Candidates, NEW members \in SUBSET Machines,
         NEW lead \in Machines, NEW indices \in SUBSET Nat,
         CreateRun(r, c, members, lead, indices)
  PROVE  /\ at'[r] = members /\ cards'[r] = indices /\ cand'[r] = c
         /\ cstat'[c] = "EXHAUSTED"
         /\ \A d \in Candidates : d # c => cstat'[d] = cstat[d]
         /\ Live(r)' /\ HoldsCards(r)'
         /\ \A x \in Runs : x # r =>
              /\ at'[x] = at[x] /\ cards'[x] = cards[x] /\ cand'[x] = cand[x]
              /\ Live(x)' <=> Live(x)
              /\ HoldsCards(x)' <=> HoldsCards(x)
<1>1. at'[r] = members /\ cards'[r] = indices /\ cand'[r] = c /\ status'[r] = "PENDING"
  BY DEF CreateRun, TypeOK, RunsTypeOK
<1>2. \A x \in Runs : x # r =>
        /\ at'[x] = at[x] /\ cards'[x] = cards[x] /\ cand'[x] = cand[x]
        /\ status'[x] = status[x]
  BY DEF CreateRun, TypeOK, RunsTypeOK
<1>3. cstat'[c] = "EXHAUSTED" /\ \A d \in Candidates : d # c => cstat'[d] = cstat[d]
  BY DEF CreateRun, TypeOK, CampaignsTypeOK
<1>4. pending' = pending
  BY DEF CreateRun
<1>5. Live(r)' /\ HoldsCards(r)'
  BY <1>1 DEF Live, HoldsCards, LiveStates
<1>6. \A x \in Runs : x # r => (Live(x)' <=> Live(x)) /\ (HoldsCards(x)' <=> HoldsCards(x))
  BY <1>2, <1>4 DEF Live, HoldsCards
<1> QED
  BY <1>1, <1>2, <1>3, <1>5, <1>6

\* A placement that respects the others keeps the invariant.
LEMMA PlacingKeeps ==
  ASSUME Inv, NEW r \in Runs, NEW c \in Candidates, NEW members \in SUBSET Machines,
         NEW lead \in Machines, NEW indices \in SUBSET Nat,
         CreateRun(r, c, members, lead, indices), cstat[c] = "VALID",
         Respects(c, members, indices)
  PROVE  Placements'
<1>1. TypeOK
  BY DEF Inv
<1>2. at'[r] = members /\ cards'[r] = indices /\ cand'[r] = c /\ Live(r)' /\ HoldsCards(r)'
  BY <1>1, CreateRunEffect
<1>3. cstat'[c] = "EXHAUSTED" /\ \A d \in Candidates : d # c => cstat'[d] = cstat[d]
  BY <1>1, CreateRunEffect, SMTT(30)
<1>4. \A x \in Runs : x # r =>
        /\ at'[x] = at[x] /\ cards'[x] = cards[x] /\ cand'[x] = cand[x]
        /\ Live(x)' <=> Live(x)
        /\ HoldsCards(x)' <=> HoldsCards(x)
  BY <1>1, CreateRunEffect
<1>5. LiveHasCandidate'
  BY <1>2, <1>4 DEF Inv, LiveHasCandidate
<1>6. CardsExclusive'
  BY <1>2, <1>4 DEF Inv, CardsExclusive, Respects
<1>7. GangExclusive'
  BY <1>2, <1>4 DEF Inv, GangExclusive, Respects
<1>8. SharingConsent'
  BY <1>2, <1>4 DEF Inv, SharingConsent, Respects
<1>9. OneRunPerCandidate'
  <2>1. \A x \in Runs : x # r /\ Live(x) => cand[x] # c /\ cand[x] \in Candidates
    BY DEF Inv, OneRunPerCandidate, LiveHasCandidate
  <2> QED
    BY <1>2, <1>4, <1>3, <2>1 DEF Inv, OneRunPerCandidate
<1>10. OneRunPerCpuBox'
  BY <1>2, <1>4 DEF Inv, OneRunPerCpuBox, Respects
<1> QED
  BY <1>5, <1>6, <1>7, <1>8, <1>9, <1>10 DEF Placements

\* _start_one respects the runs of the machine it picks: its cards are free, no
\* gang is there, whoever is there agreed, and a CPU-only machine is empty.
LEMMA StartOneKeeps ==
  ASSUME Inv, NEW k \in Campaigns, StartOne(k)
  PROVE  Placements'
<1>1. PICK m \in usable_machines(k), r \in Runs, c \in Waiting(k) :
        \E i \in SUBSET free_indices(m) :
          /\ m \in Machines /\ c \in Candidates /\ CampaignOf[c] = k
          /\ ~Closed(k, m)
          /\ CreateRun(r, c, {m}, m, i)
  BY StartOnePlan
<1>2. PICK i \in SUBSET free_indices(m) : CreateRun(r, c, {m}, m, i)
  BY <1>1
<1>3. m \in Machines /\ c \in Candidates /\ CampaignOf[c] = k /\ ~Closed(k, m)
  BY <1>1
<1>4. i \in SUBSET Nat /\ cstat[c] = "VALID"
  BY <1>3, GpusAssumption DEF free_indices, Waiting
<1>5. ASSUME NEW x \in Runs, m \in at[x]
      PROVE  /\ HoldsCards(x) => cards[x] \cap i = {}
             /\ Live(x) => at[x] = {m}
             /\ m \notin Pools /\ Live(x) => Share[k] /\ Share[CampaignOf[cand[x]]]
             /\ Gpus[m] = 0 => ~HoldsCards(x)
  <2>1. HoldsCards(x) => x \in live_runs_on(m) \cup teardown_pending_on(m)
    BY <1>5 DEF HoldsCards, live_runs_on, teardown_pending_on
  <2>2. Live(x) => x \in live_runs_on(m)
    BY <1>5 DEF live_runs_on
  <2>3. HoldsCards(x) => cards[x] \cap i = {}
    BY <2>1, ZenonT(40) DEF free_indices, Taken
  <2>4. Live(x) => at[x] = {m}
    BY <1>3, <2>2 DEF Closed, machine_hosts_live_gang
  <2>5. m \notin Pools /\ Live(x) => Share[k] /\ Share[CampaignOf[cand[x]]]
    BY <1>3, <2>2 DEF Closed, may_share, CampaignOfRun
  <2>6. Gpus[m] = 0 => ~HoldsCards(x)
    BY <1>3, <2>1 DEF Closed
  <2> QED
    BY <2>3, <2>4, <2>5, <2>6
<1>6. Respects(c, {m}, i)
  BY <1>3, <1>5 DEF Respects
<1> QED
  BY <1>2, <1>3, <1>4, <1>6, PlacingKeeps

\* _start_gang finds nobody on any member.
LEMMA StartGangKeeps ==
  ASSUME Inv, NEW k \in Campaigns, StartGang(k)
  PROVE  Placements'
<1>1. GroupIsIdle(k) /\ Group[k] \in SUBSET Machines /\ Leader[k] \in Machines
  BY StartGangPlan
<1>2. PICK r \in Runs, c \in Waiting(k) : \E i \in SUBSET Nat :
        c \in Candidates /\ CreateRun(r, c, Group[k], Leader[k], i)
  BY StartGangPlan
<1>3. PICK i \in SUBSET Nat : c \in Candidates /\ CreateRun(r, c, Group[k], Leader[k], i)
  BY <1>2
<1>4. cstat[c] = "VALID"
  BY DEF Waiting
<1>5. ASSUME NEW x \in Runs, HoldsCards(x)
      PROVE  at[x] \cap Group[k] = {}
  BY <1>1, <1>5 DEF GroupIsIdle, HoldsCards, live_runs_on, teardown_pending_on
<1>6. Respects(c, Group[k], i)
  <2>1. \A x \in Runs : Live(x) => HoldsCards(x)
    BY DEF HoldsCards
  <2> QED
    BY <1>5, <2>1 DEF Respects
<1> QED
  BY <1>1, <1>3, <1>4, <1>6, PlacingKeeps

\* The invariant holds of every reachable state.
THEOREM InvHolds == Spec => []Inv
<1>1. Spec => []TypeOK
  BY TypeCorrect
<1>2. Init => Inv
  <2> SUFFICES ASSUME Init PROVE Inv
    OBVIOUS
  <2>1. TypeOK
    BY InitType
  <2>2. \A r \in Runs : ~Live(r) /\ ~HoldsCards(r)
    BY DEF Init, Live, LiveStates, HoldsCards
  <2>3. WorklistCurrent
    BY DEF Init, WorklistCurrent
  <2> QED
    BY <2>1, <2>2, <2>3 DEF Inv, LiveHasCandidate, CardsExclusive, GangExclusive,
       SharingConsent, OneRunPerCandidate, OneRunPerCpuBox
<1>3. Inv /\ TypeOK' /\ [Next]_vars => Inv'
  <2> SUFFICES ASSUME Inv, TypeOK', [Next]_vars PROVE Inv'
    OBVIOUS
  <2>1. Placements'
    BY ShrinksOrStarts, ShrinksKeeps, StartOneKeeps, StartGangKeeps
  <2>2. WorklistCurrent'
    BY WorklistNext
  <2> QED
    BY <2>1, <2>2 DEF Placements, Inv
<1> QED
  BY <1>1, <1>2, <1>3, PTL DEF Spec

\* For every fleet, every mix of campaigns, every pattern of ssh failures, requests
\* and restarts: no two runs, live or dying, hold the same card (_start_one).
THEOREM CardsAreExclusive == Spec => []CardsExclusive
<1>1. Inv => CardsExclusive
  BY DEF Inv
<1> QED
  BY <1>1, InvHolds, PTL

\* While a gang is live its machines host nothing else live, whatever the size of
\* the group (_group_is_idle, machine_hosts_live_gang).
THEOREM GangsAreExclusive == Spec => []GangExclusive
<1>1. Inv => GangExclusive
  BY DEF Inv
<1> QED
  BY <1>1, InvHolds, PTL

\* Two campaigns meet on a machine only by consent of both (_may_share): asking the
\* arriving side and the live runs at placement is enough for ever after.
THEOREM SharingIsConsensual == Spec => []SharingConsent
<1>1. Inv => SharingConsent
  BY DEF Inv
<1> QED
  BY <1>1, InvHolds, PTL

\* No candidate has two live runs, and none with a live run is offered again,
\* through every path that gives a candidate back (_requeue_if_infrastructure,
\* _release_to_queue, retry_failed).
THEOREM CandidatesRunOnce == Spec => []OneRunPerCandidate
<1>1. Inv => OneRunPerCandidate
  BY DEF Inv
<1> QED
  BY <1>1, InvHolds, PTL

\* A CPU-only machine never hosts two runs, the dying one counted (_start_one).
THEOREM CpuBoxesHostOne == Spec => []OneRunPerCpuBox
<1>1. Inv => OneRunPerCpuBox
  BY DEF Inv
<1> QED
  BY <1>1, InvHolds, PTL

(***************************************************************************)
(* Action properties, from the same invariant.                             *)
(***************************************************************************)

\* A move of one run's status that states.py allows.
Legal(r) ==
  status[r] # status'[r] =>
    \/ status[r] = "NONE" /\ status'[r] = "PENDING"
    \/ status[r] # "NONE" /\ can_transition(status[r], status'[r])

\* The table lets every live run fail or be killed, and the rest of the worker's
\* moves are in it.
LEMMA TableAllows ==
  /\ \A s \in LiveStates : can_transition(s, "FAILED") /\ can_transition(s, "KILLED")
  /\ can_transition("PENDING", "LAUNCHING")
  /\ can_transition("LAUNCHING", "WAITING_READY")
  /\ can_transition("LAUNCHING", "HEALTH_CHECK")
  /\ can_transition("WAITING_READY", "HEALTH_CHECK")
  /\ can_transition("HEALTH_CHECK", "BENCHING")
  /\ can_transition("BENCHING", "SUCCEEDED")
  BY DEF can_transition, ALLOWED_TRANSITIONS, Forward, RunStatus, LiveStates,
     TERMINAL_RUN_STATES

\* Ending a live run is legal, for it and for everyone else.
LEMMA EndingLegal ==
  ASSUME Inv, NEW x \in Runs, Live(x), NEW target \in {"FAILED", "KILLED"}, NEW why,
         NEW standing, Finish(x, target, why, standing)
  PROVE  \A r \in Runs : Legal(r)
<1>1. target \in TERMINAL_RUN_STATES
  BY DEF TERMINAL_RUN_STATES
<1>2. status' = [status EXCEPT ![x] = target]
  BY <1>1, FinishEffect DEF Inv, TypeOK
<1>3. status[x] \in LiveStates /\ status[x] # "NONE"
  BY DEF Live, LiveStates
<1>4. can_transition(status[x], target)
  BY <1>3, TableAllows
<1> QED
  BY <1>2, <1>3, <1>4 DEF Legal, Inv, TypeOK, RunsTypeOK

\* So is every step forward of _advance_one.
LEMMA AdvanceLegal ==
  ASSUME Inv, NEW x \in Runs, AdvanceStep(x)
  PROVE  \A r \in Runs : Legal(r)
<1>1. Handle("advance", x)
  BY AdvanceShrinks
<1>2. Live(x)
  BY <1>1, HandledIsLive
<1>3. ASSUME NEW target, status' = [status EXCEPT ![x] = target],
             status[x] # "NONE", can_transition(status[x], target)
      PROVE  \A r \in Runs : Legal(r)
  BY <1>3 DEF Legal, Inv, TypeOK, RunsTypeOK
<1>4. CASE Launch(x) \/ BecomesReady(x) \/ StillStarting(x) \/ BeginBench(x)
  BY <1>3, <1>4, TableAllows DEF Launch, BecomesReady, StillStarting, BeginBench, Startup,
     Step
<1>5. CASE BenchPasses(x)
  <2>1. "SUCCEEDED" \in TERMINAL_RUN_STATES
    BY DEF TERMINAL_RUN_STATES
  <2>2. status' = [status EXCEPT ![x] = "SUCCEEDED"]
    BY <1>5, <2>1, FinishEffect DEF BenchPasses, Inv, TypeOK
  <2> QED
    BY <1>3, <1>5, <2>2, TableAllows DEF BenchPasses
<1>6. CASE KeepWaiting(x)
  BY <1>6 DEF KeepWaiting, Skip, runVars, Legal
<1>7. CASE \E why, standing : Ends(x, why, standing)
  BY <1>2, <1>7, EndingLegal DEF Ends, Fail
<1> QED
  BY <1>4, <1>5, <1>6, <1>7 DEF AdvanceStep, LaunchFails, ContainerGone, StartupFails,
     HealthFails, BenchFails, AdvanceRaises

\* Every step moves every run legally.
LEMMA StepLegal ==
  ASSUME Inv, [Next]_vars
  PROVE  \A r \in Runs : Legal(r)
<1>1. CASE UNCHANGED status
  BY <1>1 DEF Legal
<1>2. ASSUME NEW m \in Machines, LeaseStep(m)
      PROVE  \A r \in Runs : Legal(r)
  <2>1. ASSUME NEW x \in Runs, KillForLease(m, x)
        PROVE  \A r \in Runs : Legal(r)
    BY <2>1, EndingLegal DEF KillForLease, live_runs_on
  <2>2. CASE KeepLease(m) \/ ReleaseLease(m)
    BY <1>1, <2>2 DEF KeepLease, ReleaseLease, runVars
  <2> QED
    BY <1>2, <2>1, <2>2 DEF LeaseStep
<1>3. ASSUME NEW k \in Campaigns, PlaceStep(k)
      PROVE  \A r \in Runs : Legal(r)
  <2>1. ASSUME NEW x \in Runs, NEW c, NEW members, NEW lead, NEW indices,
               CreateRun(x, c, members, lead, indices)
        PROVE  \A r \in Runs : Legal(r)
    BY <2>1 DEF CreateRun, NextRun, Legal, Inv, TypeOK, RunsTypeOK
  <2>2. CASE StartOne(k)
    BY <2>1, <2>2, StartOnePlan
  <2>3. CASE StartGang(k)
    BY <2>1, <2>3, StartGangPlan
  <2>4. CASE NotAdmitted(k)
    BY <1>1, <2>4 DEF NotAdmitted, runVars
  <2> QED
    BY <1>3, <2>2, <2>3, <2>4 DEF PlaceStep
<1>4. ASSUME NEW x \in Runs, RunStep(x)
      PROVE  \A r \in Runs : Legal(r)
  <2>1. CASE ProcessStop(x)
    <3>1. Live(x)
      BY <2>1, HandledIsLive DEF ProcessStop
    <3>2. \E why : Finish(x, "KILLED", why, box[x])
      BY <2>1 DEF ProcessStop
    <3> QED
      BY <3>1, <3>2, EndingLegal
  <2>2. CASE ReleaseQueued(x)
    BY <2>2, HandledIsLive, EndingLegal DEF ReleaseQueued
  <2>3. CASE CutAtWindow(x)
    BY <2>3, HandledIsLive, EndingLegal DEF CutAtWindow
  <2>4. CASE Orphaned(x)
    BY <2>4, HandledIsLive, EndingLegal DEF Orphaned, Ends, Fail
  <2>5. CASE AdvanceStep(x)
    BY <2>5, AdvanceLegal
  <2>6. CASE KeepWhilePaused(x) \/ Reattach(x) \/ ReapStep(x)
    BY <1>1, <2>6 DEF KeepWhilePaused, Reattach, Skip, ReapStep, ConfirmTeardown,
       GiveUpTeardown, ForceTeardown, KeepReaping, runVars
  <2> QED
    BY <1>4, <2>1, <2>2, <2>3, <2>4, <2>5, <2>6 DEF RunStep
<1>5. CASE EndPhase \/ Api \/ Restart \/ World \/ UNCHANGED vars
  BY <1>1, <1>5 DEF EndPhase, Api, lease_machine, end_lease, set_machine_state, stop_run,
     force_stop, set_campaign_status, retry_failed, Restart, World, TeardownClock,
     ContainerLost, DueClock, WindowClock, vars, runVars
<1> QED
  BY <1>2, <1>3, <1>4, <1>5 DEF Next, Worker

\* No run ever moves against the table of states.py, so _transition never raises in
\* a tick: it takes the invariant, since a handler trusts that the row it was
\* selected for is still live when its turn comes.
THEOREM TransitionsAreLegal == Spec => LegalTransitions
<1>1. Inv /\ [Next]_vars =>
        [\A r \in Runs : status[r] # status'[r] =>
           \/ status[r] = "NONE" /\ status'[r] = "PENDING"
           \/ status[r] # "NONE" /\ can_transition(status[r], status'[r])]_vars
  BY StepLegal DEF Legal
<1> QED
  BY <1>1, InvHolds, PTL DEF Spec, LegalTransitions

\* No step places a run on a machine whose lease is draining.
LEMMA DrainStep ==
  ASSUME Inv, [Next]_vars, NEW m \in Machines, lease[m] = "DRAINING"
  PROVE  live_runs_on(m)' \subseteq live_runs_on(m)
<1>1. CASE Shrinks
  BY <1>1 DEF Shrinks, rowVars, live_runs_on
<1>2. ASSUME NEW r \in Runs, NEW c \in Candidates, NEW members \in SUBSET Machines,
             NEW lead \in Machines, NEW indices \in SUBSET Nat,
             CreateRun(r, c, members, lead, indices), m \notin members
      PROVE  live_runs_on(m)' \subseteq live_runs_on(m)
  <2>1. at'[r] = members
    BY <1>2, CreateRunEffect, SMTT(30) DEF Inv
  <2>2. \A x \in Runs : x # r => at'[x] = at[x] /\ status'[x] = status[x]
    BY <1>2 DEF CreateRun, Inv, TypeOK, RunsTypeOK
  <2> QED
    BY <1>2, <2>1, <2>2 DEF live_runs_on, Live
<1>3. ASSUME NEW k \in Campaigns, StartOne(k)
      PROVE  live_runs_on(m)' \subseteq live_runs_on(m)
  <2>1. PICK o \in usable_machines(k), r \in Runs, c \in Waiting(k) :
          \E i \in SUBSET free_indices(o) :
            o \in Machines /\ c \in Candidates /\ CreateRun(r, c, {o}, o, i)
    BY <1>3, StartOnePlan
  <2>2. PICK i \in SUBSET free_indices(o) : CreateRun(r, c, {o}, o, i)
    BY <2>1
  <2>3. o # m
    BY DEF usable_machines, accepts_new_work
  <2>4. i \in SUBSET Nat /\ {o} \in SUBSET Machines /\ m \notin {o}
    BY <2>1, <2>3, GpusAssumption DEF free_indices
  <2> QED
    BY <1>2, <2>1, <2>2, <2>4
<1>4. ASSUME NEW k \in Campaigns, StartGang(k)
      PROVE  live_runs_on(m)' \subseteq live_runs_on(m)
  <2>1. m \notin Group[k]
    BY <1>4, StartGangPlan DEF GroupIsIdle, GroupAccepts, accepts_new_work
  <2> QED
    BY <1>2, <1>4, <2>1, StartGangPlan
<1> QED
  BY <1>1, <1>3, <1>4, ShrinksOrStarts

\* Once a drain has begun nothing new starts on the machine, whichever way the
\* drain was asked for (accepts_new_work guards both kinds of placement).
THEOREM DrainingMachinesOnlyEmpty == Spec => DrainStartsNothing
<1>1. Inv /\ [Next]_vars =>
        [\A m \in Machines :
           lease[m] = "DRAINING" => live_runs_on(m)' \subseteq live_runs_on(m)]_vars
  BY DrainStep
<1> QED
  BY <1>1, InvHolds, PTL DEF Spec, DrainStartsNothing

(***************************************************************************)
(* Proofs about Fleet, continued: what a run leaves behind when it ends.   *)
(* Its candidate is not lost, its containers are accounted for, and its    *)
(* machines are reserved exactly as long as something of it is on them.    *)
(***************************************************************************)

(***************************************************************************)
(* Where the last three hold: no call to a machine is refused, no campaign *)
(* runs on a group of machines, no lease is taken or ended (the README     *)
(* shows what goes wrong otherwise).                                       *)
(***************************************************************************)
NoGangs == \A k \in Campaigns : ~(Cardinality(Group[k]) >= 2)
NothingRefused == "refused" \notin SshFaults
NoLeaseRequests == "lease" \notin Requests /\ "end" \notin Requests

(***************************************************************************)
(* The inductive invariant.                                                *)
(***************************************************************************)
\* A row that is not used yet says nothing.
UnusedIsBlank ==
  \A r \in Runs : status[r] = "NONE" =>
    cand[r] = NoCandidate /\ at[r] = {} /\ box[r] = {} /\ ~pending[r]

\* The platform withdraws a run only by ending it.
WithdrawnIsOver ==
  \A r \in Runs : Live(r) \/ status[r] = "NONE" => class[r] # "released"

\* Containers stand on the run's nodes only, and rank 0 is one of them.
BoxesWithin ==
  \A r \in Runs : box[r] \subseteq at[r] /\ (status[r] # "NONE" => master[r] \in at[r])

\* A run is dying only once it is over.
DyingIsOver == \A r \in Runs : pending[r] => status[r] \in TERMINAL_RUN_STATES

\* The container of rank 0, the one attach asks about, is accounted for.
MasterAccounted ==
  \A r \in Runs : master[r] \in box[r] => HoldsCards(r) \/ attention[master[r]]

\* Without a group to run on, a run has one node.
Solo(r) == at[r] = {master[r]}
RunsAreSolo == \A r \in Runs : status[r] # "NONE" => Solo(r)

\* A machine is reserved for a cause, or a gang was there.
ReservedOrGang ==
  \A m \in Machines : state[m] = "RESERVED" =>
    \/ attention[m]
    \/ \E r \in Runs : HoldsCards(r) /\ m \in at[r]
    \/ \E r \in Runs : m \in at[r] /\ ~Solo(r)

\* Nothing ever drains.
LeasesStand == \A m \in Machines : lease[m] = "ACTIVE" /\ due[m] = "none"

Kept ==
  /\ UnusedIsBlank
  /\ DyingIsOver
  /\ WithdrawnIsOver
  /\ BoxesWithin
  /\ CandidateNotLost
  /\ NoGangs => RunsAreSolo
  /\ NothingRefused => MasterAccounted
  /\ ReservedOrGang
  /\ NoLeaseRequests => LeasesStand /\ HeldIsReserved

HoldsInv == Inv /\ Kept

(***************************************************************************)
(* The kinds of steps, by what they do to the rows, the containers and the *)
(* machines.                                                               *)
(***************************************************************************)
\* A live run ends; its candidate is given back, or charged.
EndsRun(r, target, why, standing) ==
  /\ Live(r) /\ target \in TERMINAL_RUN_STATES
  /\ standing \subseteq at[r]
  /\ Finish(r, target, why, standing)
  /\ \/ cstat' = cstat /\ why # "released"
     \/ cstat' = Requeue(cand[r])
  /\ UNCHANGED <<attention, due>>
  /\ LeasesStand => UNCHANGED lease

\* A live run goes on, its containers started or as they were.
MovesRun(r, target) ==
  /\ Live(r) /\ target \in LiveStates
  /\ Step(r, target)
  /\ box' = box \/ box' = [box EXCEPT ![r] = at[r]]

\* A row is created for a candidate that waited.
PlacesRun(r, c, members, lead, indices) ==
  /\ c \in Candidates /\ members \in SUBSET Machines /\ lead \in members
  /\ indices \in SUBSET Nat
  /\ NoGangs => members = {lead}
  /\ CreateRun(r, c, members, lead, indices)

\* No run changes; containers may go, a machine may be switched by hand or by
\* its lease, a candidate may be offered again.
LeavesRuns ==
  /\ UNCHANGED <<rowVars, status, pending, class, attention>>
  /\ \A r \in Runs : box'[r] \subseteq box[r]
  /\ \A m \in Machines : state'[m] = "RESERVED" => state[m] = "RESERVED"
  /\ \A c \in Candidates : cstat'[c] = "EXHAUSTED" => cstat[c] = "EXHAUSTED"
  /\ NoLeaseRequests /\ LeasesStand =>
       /\ UNCHANGED lease
       /\ \A m \in Machines : due'[m] = due[m] /\ (state[m] = "RESERVED" => state'[m] = state[m])

StepKind ==
  \/ \E r \in Runs : \E target, why, standing : EndsRun(r, target, why, standing)
  \/ \E r \in Runs : \E target : MovesRun(r, target)
  \/ \E r \in Runs : \E c, members, lead, indices : PlacesRun(r, c, members, lead, indices)
  \/ \E r \in Runs : ReapStep(r)
  \/ LeavesRuns

\* _advance_one ends a run or moves it, or leaves it as it is.
LEMMA AdvanceKind ==
  ASSUME HoldsInv, NEW r \in Runs, AdvanceStep(r)
  PROVE  StepKind
<1>1. Handle("advance", r)
  BY AdvanceShrinks DEF HoldsInv
<1>2. Live(r)
  BY <1>1, HandledIsLive DEF HoldsInv
<1>3. box[r] \subseteq at[r] /\ class[r] # "released"
  BY <1>2 DEF HoldsInv, Kept, BoxesWithin, WithdrawnIsOver
<1>4. {"SUCCEEDED", "FAILED"} \subseteq TERMINAL_RUN_STATES
      /\ {"LAUNCHING", "WAITING_READY", "HEALTH_CHECK", "BENCHING"} \subseteq LiveStates
  BY DEF TERMINAL_RUN_STATES, LiveStates
<1>5. ASSUME NEW why \in {"infrastructure", "other"}, NEW standing \in SUBSET at[r],
             Ends(r, why, standing)
      PROVE  StepKind
  <2>1. cstat' = cstat \/ cstat' = Requeue(cand[r])
    BY <1>5 DEF Ends, Fail
  <2>2. EndsRun(r, "FAILED", why, standing)
    BY <1>2, <1>4, <1>5, <2>1 DEF EndsRun, Ends, Fail, leaseVars
  <2> QED
    BY <2>2 DEF StepKind
<1>6. CASE LaunchFails(r) \/ ContainerGone(r) \/ StartupFails(r) \/ HealthFails(r)
           \/ BenchFails(r) \/ AdvanceRaises(r)
  BY <1>3, <1>5, <1>6 DEF LaunchFails, ContainerGone, StartupFails, HealthFails, BenchFails,
     AdvanceRaises
<1>7. CASE BenchPasses(r)
  <2>1. EndsRun(r, "SUCCEEDED", class[r], box[r])
    BY <1>2, <1>3, <1>4, <1>7 DEF EndsRun, BenchPasses, leaseVars, campVars
  <2> QED
    BY <2>1 DEF StepKind
<1>8. CASE Launch(r) \/ BecomesReady(r) \/ StillStarting(r) \/ BeginBench(r)
  <2>1. \E target : MovesRun(r, target)
    BY <1>2, <1>4, <1>8 DEF MovesRun, Launch, BecomesReady, StillStarting, BeginBench
  <2> QED
    BY <2>1 DEF StepKind
<1>9. CASE KeepWaiting(r)
  BY <1>9 DEF StepKind, LeavesRuns, KeepWaiting, Skip, machineVars, runVars, rowVars, campVars
<1> QED
  BY <1>6, <1>7, <1>8, <1>9 DEF AdvanceStep

\* So does every handler of a run.
LEMMA RunStepKind ==
  ASSUME HoldsInv, NEW r \in Runs, RunStep(r)
  PROVE  StepKind
<1> USE DEF leaseVars, campVars
<1>1. \A p \in {"stops", "paused", "windows", "reconcile"} :
        Handle(p, r) => Live(r) /\ box[r] \subseteq at[r] /\ class[r] # "released"
  BY HandledIsLive DEF HoldsInv, Kept, BoxesWithin, WithdrawnIsOver
<1>2. {"KILLED", "FAILED"} \subseteq TERMINAL_RUN_STATES
  BY DEF TERMINAL_RUN_STATES
<1>3. CASE ProcessStop(r)
  <2> DEFINE why == IF stop[r] = "campaign" THEN "released" ELSE class[r]
  <2>1. /\ Live(r) /\ box[r] \subseteq at[r] /\ class[r] # "released"
        /\ Finish(r, "KILLED", why, box[r])
    BY <1>1, <1>3 DEF ProcessStop
  <2>2. (cstat' = cstat /\ why # "released") \/ cstat' = Requeue(cand[r])
    BY <1>3, <2>1 DEF ProcessStop
  <2>3. EndsRun(r, "KILLED", why, box[r])
    BY <1>2, <1>3, <2>1, <2>2 DEF EndsRun, ProcessStop
  <2> QED
    BY <2>3 DEF StepKind
<1>4. CASE ReleaseQueued(r)
  <2>1. EndsRun(r, "KILLED", "released", box[r])
    BY <1>1, <1>2, <1>4 DEF EndsRun, ReleaseQueued
  <2> QED
    BY <2>1 DEF StepKind
<1>5. CASE CutAtWindow(r)
  <2>1. EndsRun(r, "KILLED", class[r], box[r])
    BY <1>1, <1>2, <1>5 DEF EndsRun, CutAtWindow
  <2> QED
    BY <2>1 DEF StepKind
<1>6. CASE Orphaned(r)
  <2>1. cstat' = cstat \/ cstat' = Requeue(cand[r])
    BY <1>6 DEF Orphaned, Ends, Fail
  <2>2. EndsRun(r, "FAILED", "infrastructure", box[r])
    BY <1>1, <1>2, <1>6, <2>1 DEF EndsRun, Orphaned, Ends, Fail
  <2> QED
    BY <2>2 DEF StepKind
<1>7. CASE KeepWhilePaused(r) \/ Reattach(r)
  BY <1>7 DEF StepKind, LeavesRuns, KeepWhilePaused, Reattach, Skip, machineVars, runVars, rowVars
<1>8. CASE AdvanceStep(r)
  BY <1>8, AdvanceKind
<1>9. CASE ReapStep(r)
  BY <1>9 DEF StepKind
<1> QED
  BY <1>3, <1>4, <1>5, <1>6, <1>7, <1>8, <1>9 DEF RunStep

\* A request changes no run's status; none of them drains a machine when nobody asks
\* for a lease.
LEMMA ApiKind ==
  ASSUME HoldsInv, Api
  PROVE  LeavesRuns
<1> USE DEF leaseVars, campVars, machineVars, runVars, rowVars, Request, HoldsInv, Inv, TypeOK
<1>1. ASSUME NEW m \in Machines, NEW by \in WhenAsked, lease_machine(m, by)
      PROVE  LeavesRuns
  BY <1>1 DEF lease_machine, LeavesRuns, NoLeaseRequests, MachinesTypeOK
<1>2. ASSUME NEW m \in Machines, NEW mode, NEW by, end_lease(m, mode, by)
      PROVE  LeavesRuns
  BY <1>2 DEF end_lease, LeavesRuns, NoLeaseRequests
<1>3. ASSUME NEW m \in Machines, NEW s \in {"AWAY", "AVAILABLE"}, set_machine_state(m, s)
      PROVE  LeavesRuns
  BY <1>3 DEF set_machine_state, LeavesRuns, MachinesTypeOK
<1>4. ASSUME NEW r \in Runs, stop_run(r)
      PROVE  LeavesRuns
  BY <1>4 DEF stop_run, LeavesRuns
<1>5. ASSUME NEW k \in Campaigns, force_stop(k)
      PROVE  LeavesRuns
  BY <1>5 DEF force_stop, LeavesRuns
<1>6. ASSUME NEW k \in Campaigns, NEW s, set_campaign_status(k, s)
      PROVE  LeavesRuns
  BY <1>6 DEF set_campaign_status, LeavesRuns
<1>7. ASSUME NEW k \in Campaigns, retry_failed(k)
      PROVE  LeavesRuns
  BY <1>7 DEF retry_failed, LeavesRuns
<1> QED
  BY <1>1, <1>2, <1>3, <1>4, <1>5, <1>6, <1>7 DEF Api

\* Nor does the outside world, nor a restart.
LEMMA WorldKind ==
  ASSUME HoldsInv, World \/ Restart \/ EndPhase \/ UNCHANGED vars
  PROVE  LeavesRuns
<1> USE DEF campVars, machineVars, runVars, rowVars, HoldsInv, Inv, TypeOK
<1>1. ASSUME NEW r \in Runs, NEW m \in Machines, ContainerLost(r, m)
      PROVE  LeavesRuns
  BY <1>1 DEF ContainerLost, LeavesRuns, RunsTypeOK
<1>2. ASSUME NEW r \in Runs, TeardownClock(r)
      PROVE  LeavesRuns
  BY <1>2 DEF TeardownClock, LeavesRuns
<1>3. ASSUME NEW m \in Machines, DueClock(m)
      PROVE  LeavesRuns
  BY <1>3 DEF DueClock, LeavesRuns, LeasesStand
<1>4. ASSUME NEW k \in Campaigns, WindowClock(k)
      PROVE  LeavesRuns
  BY <1>4 DEF WindowClock, LeavesRuns
<1>5. CASE Restart \/ EndPhase \/ UNCHANGED vars
  BY <1>5 DEF Restart, EndPhase, vars, LeavesRuns
<1> QED
  BY <1>1, <1>2, <1>3, <1>4, <1>5 DEF World

\* _advance_leases ends a run or hands a machine back; nothing drains when no lease
\* was taken or ended.
LEMMA LeaseStepKind ==
  ASSUME HoldsInv, NEW m \in Machines, LeaseStep(m)
  PROVE  StepKind
<1> USE DEF leaseVars, campVars, runVars, rowVars
<1>1. LeasesStand => ~Draining(m)
  BY DEF LeasesStand, Draining, FellDue, lease_expired
<1>2. MachinesTypeOK /\ RunsTypeOK
  BY DEF HoldsInv, Inv, TypeOK
<1>3. CASE KeepLease(m)
  <2>1. LeasesStand => lease' = lease
    BY <1>1, <1>2, <1>3 DEF KeepLease, BeginDrain, MachinesTypeOK
  <2> QED
    BY <1>3, <2>1 DEF KeepLease, BeginDrain, StepKind, LeavesRuns
<1>4. CASE ReleaseLease(m)
  BY <1>1, <1>2, <1>4 DEF ReleaseLease, StepKind, LeavesRuns, MachinesTypeOK
<1>5. ASSUME NEW r \in Runs, KillForLease(m, r)
      PROVE  StepKind
  <2>1. Live(r)
    BY <1>5 DEF KillForLease, live_runs_on
  <2>2. box[r] \subseteq at[r] /\ class[r] # "released"
    BY <2>1 DEF HoldsInv, Kept, BoxesWithin, WithdrawnIsOver
  <2>3. ~LeasesStand
    BY <1>1, <1>5 DEF KillForLease, MustKill
  <2>4. "KILLED" \in TERMINAL_RUN_STATES
    BY DEF TERMINAL_RUN_STATES
  <2>5. EndsRun(r, "KILLED", class[r], box[r])
    BY <1>5, <2>1, <2>2, <2>3, <2>4 DEF KillForLease, BeginDrain, EndsRun
  <2> QED
    BY <2>5 DEF StepKind
<1> QED
  BY <1>3, <1>4, <1>5 DEF LeaseStep

\* A turn of the schedule places one run, on one machine unless the campaign has a
\* group.
LEMMA PlaceStepKind ==
  ASSUME HoldsInv, NEW k \in Campaigns, PlaceStep(k)
  PROVE  StepKind
<1>1. CASE StartOne(k)
  <2>1. PICK m \in usable_machines(k), r \in Runs, c \in Waiting(k) :
          \E i \in SUBSET free_indices(m) :
            /\ m \in Machines /\ c \in Candidates /\ CreateRun(r, c, {m}, m, i)
    BY <1>1, StartOnePlan
  <2>2. PICK i \in SUBSET free_indices(m) : CreateRun(r, c, {m}, m, i)
    BY <2>1
  <2>3. i \in SUBSET Nat
    BY <2>1, GpusAssumption DEF free_indices
  <2>4. PlacesRun(r, c, {m}, m, i)
    BY <2>1, <2>2, <2>3 DEF PlacesRun
  <2> QED
    BY <2>4 DEF StepKind
<1>2. CASE StartGang(k)
  <2>1. /\ Group[k] \in SUBSET Machines
        /\ \E r \in Runs, c \in Waiting(k) : \E i \in SUBSET Nat :
             c \in Candidates /\ CreateRun(r, c, Group[k], Leader[k], i)
    BY <1>2, StartGangPlan
  <2>2. Cardinality(Group[k]) >= 2
    BY <1>2 DEF StartGang
  <2>3. Group[k] # {}
    BY <2>2, FS_EmptySet
  <2>4. Leader[k] \in Group[k] /\ ~NoGangs
    BY <2>2, <2>3, GroupAssumption DEF NoGangs
  <2>5. PICK r \in Runs, c \in Candidates, i \in SUBSET Nat :
          CreateRun(r, c, Group[k], Leader[k], i)
    BY <2>1
  <2>6. PlacesRun(r, c, Group[k], Leader[k], i)
    BY <2>1, <2>4, <2>5 DEF PlacesRun
  <2> QED
    BY <2>6 DEF StepKind
<1>3. CASE NotAdmitted(k)
  BY <1>3 DEF NotAdmitted, StepKind, LeavesRuns, machineVars, runVars, rowVars
<1> QED
  BY <1>1, <1>2, <1>3 DEF PlaceStep

\* Every step of the system is of one of the five kinds.
LEMMA NextKind ==
  ASSUME HoldsInv, [Next]_vars
  PROVE  StepKind
<1>1. CASE Api \/ World \/ Restart \/ EndPhase \/ UNCHANGED vars
  BY <1>1, ApiKind, WorldKind DEF StepKind
<1> QED
  BY <1>1, LeaseStepKind, PlaceStepKind, RunStepKind DEF Next, Worker

(***************************************************************************)
(* Each kind of step keeps what is Kept.                                   *)
(***************************************************************************)

\* _release_run_machines takes a machine off its reservation only when nobody else
\* holds it, and leaves every other machine alone.
LEMMA ReleaseEffect ==
  ASSUME HoldsInv, NEW r \in Runs, NEW m \in Machines
  PROVE  /\ ReleaseRunMachines(r)[m] = "RESERVED" => state[m] = "RESERVED"
         /\ (\E x \in Runs : x # r /\ HoldsCards(x) /\ m \in at[x]) =>
              ReleaseRunMachines(r)[m] = state[m]
         /\ ReleaseRunMachines(r)[m] = "RESERVED" /\ m \in at[r] =>
              \E x \in Runs : x # r /\ HoldsCards(x) /\ m \in at[x]
<1>1. \A x \in Runs : HoldsCards(x) /\ m \in at[x] =>
        x \in live_runs_on(m) \/ x \in teardown_pending_on(m)
  BY DEF HoldsCards, live_runs_on, teardown_pending_on
<1>2. \A x \in live_runs_on(m) \cup teardown_pending_on(m) :
        x \in Runs /\ HoldsCards(x) /\ m \in at[x]
  BY DEF HoldsCards, live_runs_on, teardown_pending_on
<1> QED
  BY <1>1, <1>2 DEF ReleaseRunMachines

\* _finish, seen from the containers and the machines: what is left stands where it
\* stood, and a run that counts as gone left nothing, unless a call was refused.
LEMMA EndsEffect ==
  ASSUME HoldsInv, NEW r \in Runs, NEW target, NEW why, NEW standing,
         EndsRun(r, target, why, standing)
  PROVE  /\ box'[r] \subseteq at[r]
         /\ \A x \in Runs \ {r} : box'[x] = box[x] /\ class'[x] = class[x]
         /\ class'[r] = why
         /\ NothingRefused /\ master[r] \in box'[r] => pending'[r]
         /\ \/ pending'[r] /\ state' = state
            \/ ~pending'[r] /\ state' = ReleaseRunMachines(r)
<1>1. RunsTypeOK
  BY DEF HoldsInv, Inv, TypeOK
<1>2. PICK seen \in attach(r, standing) : \E t \in BeginTeardown(seen, standing) :
        /\ class' = [class EXCEPT ![r] = why]
        /\ pending' = [pending EXCEPT ![r] = ~t.clean]
        /\ box' = [box EXCEPT ![r] = t.left]
        /\ state' = IF t.clean THEN ReleaseRunMachines(r) ELSE state
  BY DEF EndsRun, Finish
<1>3. PICK t \in BeginTeardown(seen, standing) :
        /\ class' = [class EXCEPT ![r] = why]
        /\ pending' = [pending EXCEPT ![r] = ~t.clean]
        /\ box' = [box EXCEPT ![r] = t.left]
        /\ state' = IF t.clean THEN ReleaseRunMachines(r) ELSE state
  BY <1>2
<1>4. standing \subseteq at[r]
  BY DEF EndsRun
<1>5. /\ t.left \subseteq standing /\ t.clean \in BOOLEAN
      /\ seen # "there" => t.left = standing
      /\ seen = "error" => ~t.clean
      /\ seen = "there" => (t.clean => is_gone(t.left))
  BY DEF BeginTeardown
<1>6. NothingRefused /\ master[r] \in t.left => ~t.clean
  <2>1. NothingRefused /\ master[r] \in standing => seen \in {"there", "error"}
    BY DEF attach, NothingRefused
  <2> QED
    BY <1>5, <2>1 DEF is_gone, NothingRefused
<1>7. box'[r] = t.left /\ pending'[r] = ~t.clean /\ class'[r] = why
  BY <1>1, <1>3 DEF RunsTypeOK
<1>8. \A x \in Runs \ {r} : box'[x] = box[x] /\ class'[x] = class[x]
  BY <1>1, <1>3 DEF RunsTypeOK
<1> QED
  BY <1>3, <1>4, <1>5, <1>6, <1>7, <1>8

\* Ending a run.
LEMMA EndingKeeps ==
  ASSUME HoldsInv, NEW r \in Runs, NEW target, NEW why, NEW standing,
         EndsRun(r, target, why, standing)
  PROVE  Kept'
<1>1. Live(r) /\ target \in TERMINAL_RUN_STATES /\ Finish(r, target, why, standing)
  BY DEF EndsRun
<1>2. TypeOK
  BY DEF HoldsInv, Inv
<1>3. /\ UNCHANGED rowVars /\ ~Live(r)' /\ OthersKept(r)
      /\ status' = [status EXCEPT ![r] = target]
  BY <1>1, <1>2, FinishEffect DEF TypeOK
<1>4. status[r] # "NONE" /\ status'[r] # "NONE"
  BY <1>1, <1>2, <1>3 DEF Live, LiveStates, TERMINAL_RUN_STATES, TypeOK, RunsTypeOK
<1>5. \A x \in Runs : x # r =>
        /\ status'[x] = status[x] /\ pending'[x] = pending[x]
        /\ (Live(x)' <=> Live(x)) /\ (HoldsCards(x)' <=> HoldsCards(x))
  BY <1>3 DEF OthersKept, Live, HoldsCards
<1>6. /\ box'[r] \subseteq at[r]
      /\ \A x \in Runs \ {r} : box'[x] = box[x] /\ class'[x] = class[x]
      /\ class'[r] = why
      /\ NothingRefused /\ master[r] \in box'[r] => pending'[r]
      /\ \/ pending'[r] /\ state' = state
         \/ ~pending'[r] /\ state' = ReleaseRunMachines(r)
  BY EndsEffect
<1>7. cand' = cand /\ at' = at /\ master' = master
  BY <1>3 DEF rowVars
<1>8. HoldsCards(r)' <=> pending'[r]
  BY <1>3 DEF HoldsCards
<1>9. attention' = attention /\ due' = due /\ (LeasesStand => lease' = lease)
  BY DEF EndsRun
<1>10. Kept
  BY DEF HoldsInv
<1>11. UnusedIsBlank'
  BY <1>4, <1>5, <1>6, <1>7, <1>10 DEF Kept, UnusedIsBlank
<1>12. WithdrawnIsOver' /\ DyingIsOver'
  <2>1. status'[r] = target
    BY <1>2, <1>3 DEF TypeOK, RunsTypeOK
  <2> QED
    BY <1>1, <1>3, <1>4, <1>5, <1>6, <1>10, <2>1 DEF Kept, WithdrawnIsOver, DyingIsOver
<1>13. BoxesWithin'
  BY <1>4, <1>5, <1>6, <1>7, <1>10 DEF Kept, BoxesWithin
<1>14. CandidateNotLost'
  <2>1. cand[r] \in Candidates
    BY <1>1 DEF HoldsInv, Inv, LiveHasCandidate
  <2>2. \/ cstat' = cstat /\ why # "released"
        \/ cstat' = [cstat EXCEPT ![cand[r]] = "VALID"]
    BY DEF EndsRun, Requeue
  <2>3. CASE cstat' = cstat /\ why # "released"
    BY <1>6, <1>7, <1>10, <2>3 DEF Kept, CandidateNotLost
  <2>4. CASE cstat' = [cstat EXCEPT ![cand[r]] = "VALID"]
    BY <1>2, <1>6, <1>7, <1>10, <2>1, <2>4 DEF Kept, CandidateNotLost, TypeOK,
       CampaignsTypeOK
  <2> QED
    BY <2>2, <2>3, <2>4
<1>15. NoGangs => RunsAreSolo'
  BY <1>4, <1>5, <1>7, <1>10 DEF Kept, RunsAreSolo, Solo
<1>16. NothingRefused => MasterAccounted'
  BY <1>5, <1>6, <1>7, <1>8, <1>9, <1>10 DEF Kept, MasterAccounted
<1>17. ReservedOrGang'
  <2>1. ASSUME NEW m \in Machines, state'[m] = "RESERVED"
        PROVE  \/ attention[m]
               \/ \E x \in Runs : HoldsCards(x)' /\ m \in at[x]
               \/ \E x \in Runs : m \in at[x] /\ ~Solo(x)
    <3>1. state[m] = "RESERVED"
      BY <1>6, <2>1, ReleaseEffect
    <3>2. CASE m \in at[r]
      <4>1. CASE pending'[r]
        BY <1>8, <3>2, <4>1
      <4>2. CASE ~pending'[r]
        BY <1>5, <1>6, <2>1, <3>2, <4>2, ReleaseEffect
      <4> QED
        BY <4>1, <4>2
    <3>3. CASE m \notin at[r]
      BY <1>5, <1>10, <3>1, <3>3 DEF Kept, ReservedOrGang
    <3> QED
      BY <3>2, <3>3
  <2> QED
    BY <1>7, <1>9, <2>1 DEF ReservedOrGang, Solo
<1>18. NoLeaseRequests => (LeasesStand /\ HeldIsReserved)'
  <2> SUFFICES ASSUME NoLeaseRequests PROVE LeasesStand' /\ HeldIsReserved'
    BY DEF NoLeaseRequests
  <2>1. LeasesStand /\ HeldIsReserved
    BY <1>10 DEF Kept
  <2>2. LeasesStand'
    BY <1>9, <2>1 DEF LeasesStand
  <2>3. ASSUME NEW x \in Runs, HoldsCards(x)', NEW m \in at[x]
        PROVE  state'[m] = "RESERVED"
    <3>1. m \in Machines
      BY <1>2 DEF TypeOK, RunsTypeOK
    <3>2. HoldsCards(x)
      BY <1>1, <1>5, <2>3 DEF HoldsCards
    <3>3. state[m] = "RESERVED"
      BY <2>1, <3>2 DEF HeldIsReserved
    <3>4. CASE x = r
      BY <1>6, <1>8, <2>3, <3>3, <3>4
    <3>5. CASE x # r
      BY <1>6, <3>1, <3>2, <3>3, <3>5, ReleaseEffect
    <3> QED
      BY <3>4, <3>5
  <2>4. HeldIsReserved'
    BY <1>7, <2>3 DEF HeldIsReserved
  <2> QED
    BY <2>2, <2>4
<1> QED
  BY <1>11, <1>12, <1>13, <1>14, <1>15, <1>16, <1>17, <1>18 DEF Kept, NoGangs, NothingRefused,
     NoLeaseRequests

\* A live run that goes on.
LEMMA MovingKeeps ==
  ASSUME HoldsInv, NEW r \in Runs, NEW target, MovesRun(r, target)
  PROVE  Kept'
<1>1. /\ Live(r) /\ target \in LiveStates
      /\ status' = [status EXCEPT ![r] = target]
      /\ UNCHANGED <<rowVars, pending, class, machineVars, cstat>>
      /\ box' = box \/ box' = [box EXCEPT ![r] = at[r]]
  BY DEF MovesRun, Step, campVars
<1>2. TypeOK /\ Kept
  BY DEF HoldsInv, Inv
<1>3. /\ cand' = cand /\ at' = at /\ master' = master /\ pending' = pending /\ class' = class
      /\ state' = state /\ attention' = attention /\ lease' = lease /\ due' = due
      /\ cstat' = cstat
  BY <1>1 DEF rowVars, machineVars
<1>4. Live(r)' /\ status[r] # "NONE" /\ status'[r] # "NONE"
  BY <1>1, <1>2 DEF Live, LiveStates, TypeOK, RunsTypeOK
<1>5. \A x \in Runs : x # r => status'[x] = status[x] /\ box'[x] = box[x]
  BY <1>1, <1>2 DEF TypeOK, RunsTypeOK
<1>6. box'[r] = box[r] \/ box'[r] = at[r]
  BY <1>1, <1>2 DEF TypeOK, RunsTypeOK
<1>7. \A x \in Runs : (Live(x)' <=> Live(x)) /\ (HoldsCards(x)' <=> HoldsCards(x))
  BY <1>1, <1>3, <1>4, <1>5 DEF Live, HoldsCards
<1>8. UnusedIsBlank' /\ WithdrawnIsOver'
  BY <1>1, <1>2, <1>3, <1>4, <1>5, <1>7 DEF Kept, UnusedIsBlank, WithdrawnIsOver
<1>15. DyingIsOver'
  <2>1. ~pending[r]
    BY <1>1, <1>2 DEF Kept, DyingIsOver, Live, LiveStates, TERMINAL_RUN_STATES
  <2> QED
    BY <1>2, <1>3, <1>5, <2>1 DEF Kept, DyingIsOver
<1>9. BoxesWithin'
  BY <1>2, <1>3, <1>4, <1>5, <1>6 DEF Kept, BoxesWithin
<1>10. CandidateNotLost'
  BY <1>2, <1>3 DEF Kept, CandidateNotLost
<1>11. NoGangs => RunsAreSolo'
  BY <1>2, <1>3, <1>4, <1>5 DEF Kept, RunsAreSolo, Solo
<1>12. NothingRefused => MasterAccounted'
  <2>1. HoldsCards(r)'
    BY <1>4 DEF HoldsCards
  <2> QED
    BY <1>2, <1>3, <1>5, <1>7, <2>1 DEF Kept, MasterAccounted
<1>13. ReservedOrGang'
  BY <1>2, <1>3, <1>7 DEF Kept, ReservedOrGang, Solo
<1>14. NoLeaseRequests => LeasesStand' /\ HeldIsReserved'
  BY <1>2, <1>3, <1>7 DEF Kept, LeasesStand, HeldIsReserved
<1> QED
  BY <1>8, <1>9, <1>10, <1>11, <1>12, <1>13, <1>14, <1>15 DEF Kept, NoGangs, NothingRefused,
     NoLeaseRequests

\* Placing a run.
LEMMA PlacingKept ==
  ASSUME HoldsInv, NEW r \in Runs, NEW c, NEW members, NEW lead, NEW indices,
         PlacesRun(r, c, members, lead, indices)
  PROVE  Kept'
<1>1. /\ c \in Candidates /\ members \in SUBSET Machines /\ lead \in members
      /\ indices \in SUBSET Nat /\ lead \in Machines
      /\ CreateRun(r, c, members, lead, indices)
      /\ NoGangs => members = {lead}
  BY DEF PlacesRun
<1>2. TypeOK /\ Kept
  BY DEF HoldsInv, Inv
<1>3. /\ at'[r] = members /\ cand'[r] = c
      /\ \A d \in Candidates : d # c => cstat'[d] = cstat[d]
      /\ Live(r)' /\ HoldsCards(r)'
      /\ \A x \in Runs : x # r =>
           /\ at'[x] = at[x] /\ cand'[x] = cand[x]
           /\ Live(x)' <=> Live(x)
           /\ HoldsCards(x)' <=> HoldsCards(x)
  <2>1. ASSUME NEW d \in Candidates, NEW ms \in SUBSET Machines, NEW l \in Machines,
               NEW is \in SUBSET Nat, CreateRun(r, d, ms, l, is)
        PROVE  /\ at'[r] = ms /\ cand'[r] = d /\ Live(r)' /\ HoldsCards(r)'
               /\ \A e \in Candidates : e # d => cstat'[e] = cstat[e]
               /\ \A x \in Runs : x # r =>
                    /\ at'[x] = at[x] /\ cand'[x] = cand[x]
                    /\ Live(x)' <=> Live(x)
                    /\ HoldsCards(x)' <=> HoldsCards(x)
    BY <1>2, <2>1, CreateRunEffect
  <2> QED
    BY <1>1, <2>1
<1>4. status[r] = "NONE" /\ status'[r] = "PENDING" /\ master'[r] = lead
  BY <1>1, <1>2 DEF CreateRun, NextRun, TypeOK, RunsTypeOK
<1>5. \A x \in Runs : x # r => status'[x] = status[x] /\ master'[x] = master[x]
  BY <1>1, <1>2 DEF CreateRun, TypeOK, RunsTypeOK
<1>6. /\ attention' = attention /\ pending' = pending /\ class' = class /\ box' = box
      /\ lease' = lease /\ due' = due
      /\ state' = [m \in Machines |-> IF m \in members THEN "RESERVED" ELSE state[m]]
  BY <1>1 DEF CreateRun, leaseVars, Reserve
<1>7. box[r] = {} /\ cand[r] = NoCandidate /\ class[r] # "released" /\ at[r] = {}
  BY <1>2, <1>4 DEF Kept, UnusedIsBlank, WithdrawnIsOver
<1>8. UnusedIsBlank'
  BY <1>2, <1>3, <1>4, <1>5, <1>6 DEF Kept, UnusedIsBlank
<1>9. WithdrawnIsOver' /\ DyingIsOver'
  <2>1. ~pending[r]
    BY <1>2, <1>4 DEF Kept, UnusedIsBlank
  <2> QED
    BY <1>2, <1>3, <1>4, <1>5, <1>6, <1>7, <2>1 DEF Kept, WithdrawnIsOver, DyingIsOver
<1>10. BoxesWithin'
  BY <1>1, <1>2, <1>3, <1>4, <1>5, <1>6, <1>7 DEF Kept, BoxesWithin
<1>11. CandidateNotLost'
  <2>1. ASSUME NEW d \in Candidates, cstat'[d] = "EXHAUSTED"
        PROVE  \E x \in Runs : cand'[x] = d /\ class'[x] # "released"
    <3>1. CASE d = c
      BY <1>3, <1>6, <1>7, <3>1
    <3>2. CASE d # c
      <4>1. PICK x \in Runs : cand[x] = d /\ class[x] # "released"
        BY <1>2, <1>3, <2>1, <3>2 DEF Kept, CandidateNotLost
      <4>2. d # NoCandidate
        BY CandidateAssumption DEF NoCandidate
      <4> QED
        BY <1>3, <1>6, <1>7, <4>1, <4>2
    <3> QED
      BY <3>1, <3>2
  <2> QED
    BY <2>1 DEF CandidateNotLost
<1>12. NoGangs => RunsAreSolo'
  BY <1>1, <1>2, <1>3, <1>4, <1>5 DEF Kept, RunsAreSolo, Solo
<1>13. NothingRefused => MasterAccounted'
  BY <1>2, <1>3, <1>5, <1>6, <1>7 DEF Kept, MasterAccounted
<1>14. ReservedOrGang'
  <2>1. ASSUME NEW m \in Machines, state'[m] = "RESERVED"
        PROVE  \/ attention'[m]
               \/ \E x \in Runs : HoldsCards(x)' /\ m \in at'[x]
               \/ \E x \in Runs : m \in at'[x] /\ at'[x] # {master'[x]}
    <3>1. CASE m \in members
      BY <1>3, <3>1
    <3>2. CASE m \notin members
      <4>1. state[m] = "RESERVED"
        BY <1>6, <2>1, <3>2
      <4>2. \/ attention[m]
            \/ \E x \in Runs : HoldsCards(x) /\ m \in at[x]
            \/ \E x \in Runs : m \in at[x] /\ at[x] # {master[x]}
        BY <1>2, <4>1 DEF Kept, ReservedOrGang, Solo
      <4> QED
        BY <1>3, <1>5, <1>6, <1>7, <4>2
    <3> QED
      BY <3>1, <3>2
  <2> QED
    BY <2>1 DEF ReservedOrGang, Solo
<1>15. NoLeaseRequests => LeasesStand' /\ HeldIsReserved'
  <2> SUFFICES ASSUME NoLeaseRequests PROVE LeasesStand' /\ HeldIsReserved'
    OBVIOUS
  <2>1. LeasesStand /\ HeldIsReserved
    BY <1>2 DEF Kept
  <2>2. LeasesStand'
    BY <1>6, <2>1 DEF LeasesStand
  <2>3. ASSUME NEW x \in Runs, HoldsCards(x)', NEW m \in at'[x]
        PROVE  state'[m] = "RESERVED"
    <3>1. CASE x = r
      BY <1>1, <1>3, <1>6, <3>1
    <3>2. CASE x # r
      BY <1>2, <1>3, <1>6, <2>1, <2>3, <3>2 DEF HeldIsReserved, TypeOK, RunsTypeOK
    <3> QED
      BY <3>1, <3>2
  <2> QED
    BY <2>2, <2>3 DEF HeldIsReserved
<1> QED
  BY <1>8, <1>9, <1>10, <1>11, <1>12, <1>13, <1>14, <1>15 DEF Kept, NoGangs, NothingRefused,
     NoLeaseRequests

\* A step that changes no run.
LEMMA LeavingKeeps ==
  ASSUME HoldsInv, LeavesRuns
  PROVE  Kept'
<1>1. /\ cand' = cand /\ at' = at /\ master' = master /\ status' = status
      /\ pending' = pending /\ class' = class /\ attention' = attention
      /\ \A r \in Runs : box'[r] \subseteq box[r]
  BY DEF LeavesRuns, rowVars
<1>2. Kept
  BY DEF HoldsInv
<1>3. \A r \in Runs : (Live(r)' <=> Live(r)) /\ (HoldsCards(r)' <=> HoldsCards(r))
  BY <1>1 DEF Live, HoldsCards
<1>4. UnusedIsBlank' /\ WithdrawnIsOver' /\ BoxesWithin' /\ DyingIsOver'
  BY <1>1, <1>2, <1>3 DEF Kept, UnusedIsBlank, WithdrawnIsOver, BoxesWithin, DyingIsOver
<1>5. CandidateNotLost'
  BY <1>1, <1>2 DEF Kept, CandidateNotLost, LeavesRuns
<1>6. NoGangs => RunsAreSolo'
  BY <1>1, <1>2 DEF Kept, RunsAreSolo, Solo
<1>7. NothingRefused => MasterAccounted'
  BY <1>1, <1>2, <1>3 DEF Kept, MasterAccounted
<1>8. ReservedOrGang'
  BY <1>1, <1>2, <1>3 DEF Kept, ReservedOrGang, Solo, LeavesRuns
<1>9. NoLeaseRequests => LeasesStand' /\ HeldIsReserved'
  <2> SUFFICES ASSUME NoLeaseRequests PROVE LeasesStand' /\ HeldIsReserved'
    OBVIOUS
  <2>1. LeasesStand /\ HeldIsReserved
    BY <1>2 DEF Kept
  <2>2. /\ lease' = lease
        /\ \A m \in Machines : due'[m] = due[m] /\ (state[m] = "RESERVED" => state'[m] = state[m])
    BY <2>1 DEF LeavesRuns
  <2>3. at \in [Runs -> SUBSET Machines]
    BY DEF HoldsInv, Inv, TypeOK, RunsTypeOK
  <2>4. HeldIsReserved'
    BY <1>1, <1>3, <2>1, <2>2, <2>3 DEF HeldIsReserved
  <2>5. LeasesStand'
    BY <2>1, <2>2 DEF LeasesStand
  <2> QED
    BY <2>4, <2>5
<1> QED
  BY <1>4, <1>5, <1>6, <1>7, <1>8, <1>9 DEF Kept, NoGangs, NothingRefused, NoLeaseRequests

\* Where a run's containers may be stuck: on the machine of rank 0 if anything is
\* there, when no call is refused; a run with one node has no other.
LEMMA StuckWhere ==
  ASSUME HoldsInv, NEW r \in Runs, NEW stuck \in StuckMachines(r)
  PROVE  /\ NothingRefused /\ master[r] \in box[r] => master[r] \in stuck
         /\ Solo(r) => master[r] \in stuck
<1>1. PICK names \in {box[r]}
                       \cup (IF "refused" \in SshFaults THEN SUBSET box[r] ELSE {})
                       \cup (IF "timeout" \in SshFaults THEN {{}} ELSE {}) :
        stuck = IF names = {} THEN {master[r]} ELSE names
  BY DEF StuckMachines
<1>2. names \subseteq box[r] /\ (NothingRefused => names \in {box[r], {}})
  BY <1>1 DEF NothingRefused
<1>3. box[r] \subseteq at[r]
  BY DEF HoldsInv, Kept, BoxesWithin
<1> QED
  BY <1>1, <1>2, <1>3 DEF Solo

\* The janitor.
LEMMA ReapingKeeps ==
  ASSUME HoldsInv, NEW r \in Runs, ReapStep(r)
  PROVE  Kept'
<1> USE DEF rowVars, runVars, machineVars, leaseVars, campVars
<1>1. TypeOK /\ Kept
  BY DEF HoldsInv, Inv
<1>2. CASE ForceTeardown(r) \/ KeepReaping(r)
  <2>1. LeavesRuns
    BY <1>1, <1>2 DEF ForceTeardown, KeepReaping, Skip, LeavesRuns, TypeOK, RunsTypeOK
  <2> QED
    BY <2>1, LeavingKeeps
<1>3. CASE ConfirmTeardown(r) \/ GiveUpTeardown(r)
  <2>1. pending[r]
    BY <1>3 DEF ConfirmTeardown, GiveUpTeardown, Handle, HoldsInv, Inv, WorklistCurrent
  <2>2. status[r] # "NONE"
    BY <1>1, <2>1 DEF Kept, UnusedIsBlank
  <2>3. /\ cand' = cand /\ at' = at /\ master' = master /\ status' = status
        /\ class' = class /\ box' = box /\ cstat' = cstat /\ lease' = lease /\ due' = due
        /\ pending' = [pending EXCEPT ![r] = FALSE]
    BY <1>3 DEF ConfirmTeardown, GiveUpTeardown
  <2>4. ~pending'[r] /\ \A x \in Runs : x # r => pending'[x] = pending[x]
    BY <1>1, <2>3 DEF TypeOK, RunsTypeOK
  <2>5. /\ \A x \in Runs : Live(x)' <=> Live(x)
        /\ \A x \in Runs : x # r => (HoldsCards(x)' <=> HoldsCards(x))
    BY <2>3, <2>4 DEF Live, HoldsCards
  <2>6. /\ \A m \in Machines : attention[m] => attention'[m]
        /\ \A m \in Machines : state'[m] = "RESERVED" => state[m] = "RESERVED"
        /\ \A m \in Machines : (\E x \in Runs : x # r /\ HoldsCards(x) /\ m \in at[x]) =>
             state'[m] = state[m]
    <3>1. CASE ConfirmTeardown(r)
      BY <3>1, ReleaseEffect DEF ConfirmTeardown
    <3>2. CASE GiveUpTeardown(r)
      BY <3>2 DEF GiveUpTeardown
    <3> QED
      BY <1>3, <3>1, <3>2
  <2>7. UnusedIsBlank' /\ WithdrawnIsOver' /\ DyingIsOver'
    BY <1>1, <2>2, <2>3, <2>4, <2>5 DEF Kept, UnusedIsBlank, WithdrawnIsOver, DyingIsOver
  <2>8. BoxesWithin' /\ CandidateNotLost' /\ (NoGangs => RunsAreSolo')
    BY <1>1, <2>3 DEF Kept, BoxesWithin, CandidateNotLost, RunsAreSolo, Solo
  <2>9. NothingRefused => MasterAccounted'
    <3> SUFFICES ASSUME NothingRefused, NEW x \in Runs, master[x] \in box[x]
                 PROVE  HoldsCards(x)' \/ attention'[master[x]]
      BY <2>3 DEF MasterAccounted
    <3>1. master[x] \in Machines
      BY <1>1 DEF TypeOK, RunsTypeOK
    <3>2. HoldsCards(x) \/ attention[master[x]]
      BY <1>1 DEF Kept, MasterAccounted
    <3>3. CASE x # r
      BY <2>5, <2>6, <3>1, <3>2, <3>3
    <3>4. CASE x = r /\ ConfirmTeardown(r)
      BY <3>4 DEF ConfirmTeardown, attach, NothingRefused
    <3>5. CASE x = r /\ GiveUpTeardown(r)
      BY <3>1, <3>5, StuckWhere DEF GiveUpTeardown
    <3> QED
      BY <1>3, <3>3, <3>4, <3>5
  <2>10. ReservedOrGang'
    <3> SUFFICES ASSUME NEW m \in Machines, state'[m] = "RESERVED"
                 PROVE  \/ attention'[m]
                        \/ \E x \in Runs : HoldsCards(x)' /\ m \in at[x]
                        \/ \E x \in Runs : m \in at[x] /\ ~Solo(x)
      BY <2>3 DEF ReservedOrGang, Solo
    <3>1. \/ attention[m]
          \/ \E x \in Runs : HoldsCards(x) /\ m \in at[x]
          \/ \E x \in Runs : m \in at[x] /\ ~Solo(x)
      BY <1>1, <2>6 DEF Kept, ReservedOrGang
    <3>2. CASE m \notin at[r]
      BY <2>5, <2>6, <3>1, <3>2
    <3>3. CASE m \in at[r] /\ ConfirmTeardown(r)
      BY <2>5, <3>3, ReleaseEffect DEF ConfirmTeardown
    <3>4. CASE m \in at[r] /\ GiveUpTeardown(r)
      <4>1. CASE Solo(r)
        <5>1. m = master[r]
          BY <3>4, <4>1 DEF Solo
        <5> QED
          BY <3>4, <4>1, <5>1, StuckWhere DEF GiveUpTeardown
      <4> QED
        BY <3>4, <4>1
    <3> QED
      BY <1>3, <3>2, <3>3, <3>4
  <2>11. NoLeaseRequests => LeasesStand' /\ HeldIsReserved'
    <3> SUFFICES ASSUME NoLeaseRequests PROVE LeasesStand' /\ HeldIsReserved'
      OBVIOUS
    <3>1. LeasesStand /\ HeldIsReserved
      BY <1>1 DEF Kept
    <3>2. LeasesStand'
      BY <2>3, <3>1 DEF LeasesStand
    <3>3. ~Live(r)
      BY <1>1, <2>1 DEF Kept, DyingIsOver, Live, LiveStates, TERMINAL_RUN_STATES
    <3>4. ASSUME NEW x \in Runs, HoldsCards(x)', NEW m \in at[x]
          PROVE  state'[m] = "RESERVED"
      <4>1. x # r
        BY <2>4, <2>5, <3>3, <3>4 DEF HoldsCards
      <4>2. m \in Machines
        BY <1>1 DEF TypeOK, RunsTypeOK
      <4> QED
        BY <2>5, <2>6, <3>1, <3>4, <4>1, <4>2 DEF HeldIsReserved
    <3> QED
      BY <2>3, <3>2, <3>4 DEF HeldIsReserved
  <2> QED
    BY <2>7, <2>8, <2>9, <2>10, <2>11 DEF Kept, NoGangs, NothingRefused, NoLeaseRequests
<1> QED
  BY <1>2, <1>3 DEF ReapStep

\* The invariant holds of every reachable state.
THEOREM HoldsInvHolds == Spec => []HoldsInv
<1>1. Spec => []Inv
  BY InvHolds
<1>2. Init => Kept
  <2> SUFFICES ASSUME Init PROVE Kept
    OBVIOUS
  <2> USE DEF Init
  <2>1. \A r \in Runs : ~Live(r) /\ ~HoldsCards(r)
    BY DEF Live, LiveStates, HoldsCards
  <2>2. UnusedIsBlank /\ DyingIsOver /\ WithdrawnIsOver /\ BoxesWithin /\ RunsAreSolo
        /\ MasterAccounted
    BY DEF UnusedIsBlank, DyingIsOver, WithdrawnIsOver, BoxesWithin, RunsAreSolo,
       MasterAccounted
  <2>3. CandidateNotLost /\ ReservedOrGang
    BY DEF CandidateNotLost, ReservedOrGang
  <2>4. NoLeaseRequests => LeasesStand /\ HeldIsReserved
    BY <2>1 DEF NoLeaseRequests, LeasesStand, HeldIsReserved
  <2> QED
    BY <2>2, <2>3, <2>4 DEF Kept
<1>3. Inv /\ Kept /\ [Next]_vars => Kept'
  <2> SUFFICES ASSUME Inv, Kept, [Next]_vars PROVE Kept'
    OBVIOUS
  <2>1. HoldsInv
    BY DEF HoldsInv
  <2>2. StepKind
    BY <2>1, NextKind
  <2>3. CASE \E r \in Runs : \E target, why, standing : EndsRun(r, target, why, standing)
    BY <2>1, <2>3, EndingKeeps
  <2>4. CASE \E r \in Runs : \E target : MovesRun(r, target)
    BY <2>1, <2>4, MovingKeeps
  <2>5. CASE \E r \in Runs : \E c, members, lead, indices : PlacesRun(r, c, members, lead, indices)
    BY <2>1, <2>5, PlacingKept
  <2>6. CASE \E r \in Runs : ReapStep(r)
    BY <2>1, <2>6, ReapingKeeps
  <2>7. CASE LeavesRuns
    BY <2>1, <2>7, LeavingKeeps
  <2> QED
    BY <2>2, <2>3, <2>4, <2>5, <2>6, <2>7 DEF StepKind
<1>4. Inv /\ Kept <=> HoldsInv
  BY DEF HoldsInv
<1> QED
  BY <1>1, <1>2, <1>3, <1>4, PTL DEF Spec

\* No candidate is ever spent by a run the platform withdrew, whatever the order of
\* stops, pauses, retries, failures and restarts (_process_stop_requests,
\* _release_to_queue, _requeue_if_infrastructure).
THEOREM CandidatesAreKept == Spec => []CandidateNotLost
<1>1. HoldsInv => CandidateNotLost
  BY DEF HoldsInv, Kept
<1> QED
  BY <1>1, HoldsInvHolds, PTL

\* When no call is refused, the container of rank 0 is never forgotten, on a gang
\* either: its run holds its cards or its machine is quarantined (_begin_teardown,
\* _reap_teardowns).  Timeouts are allowed.
THEOREM MastersAreAccounted ==
  ASSUME NothingRefused
  PROVE  Spec => []MasterAccounted
<1>1. HoldsInv => MasterAccounted
  BY DEF HoldsInv, Kept
<1> QED
  BY <1>1, HoldsInvHolds, PTL

\* When no call is refused and no campaign runs on a group, no container is ever
\* forgotten (_begin_teardown, _confirm_teardown, _give_up_teardown).
THEOREM HardwareIsAccounted ==
  ASSUME NothingRefused, NoGangs
  PROVE  Spec => []HardwareAccounted
<1>1. HoldsInv => HardwareAccounted
  <2> SUFFICES ASSUME HoldsInv, NEW r \in Runs, NEW m \in box[r]
               PROVE  HoldsCards(r) \/ attention[m]
    BY DEF HardwareAccounted
  <2>1. box[r] # {} /\ box[r] \subseteq at[r]
    BY DEF HoldsInv, Kept, BoxesWithin
  <2>2. at[r] = {master[r]}
    BY <2>1 DEF HoldsInv, Kept, UnusedIsBlank, RunsAreSolo, Solo
  <2>3. master[r] = m
    BY <2>1, <2>2
  <2> QED
    BY <2>3 DEF HoldsInv, Kept, MasterAccounted
<1> QED
  BY <1>1, HoldsInvHolds, PTL

\* Where no lease is taken or ended, the machines of a live or dying run read RESERVED
\* until the last of them lets go, on a shared machine too
\* (_release_machine_if_idle).
THEOREM HeldMachinesReserved ==
  ASSUME NoLeaseRequests
  PROVE  Spec => []HeldIsReserved
<1>1. HoldsInv => HeldIsReserved
  BY DEF HoldsInv, Kept
<1> QED
  BY <1>1, HoldsInvHolds, PTL

\* Where no campaign runs on a group, no machine stays RESERVED without a cause: every
\* way a run ends offers its machine back or quarantines it, whatever the faults and
\* the leases do.
THEOREM ReservedMachinesHaveCause ==
  ASSUME NoGangs
  PROVE  Spec => []ReservedHasCause
<1>1. HoldsInv => ReservedHasCause
  <2> SUFFICES ASSUME HoldsInv, NEW m \in Machines, state[m] = "RESERVED"
               PROVE  attention[m] \/ \E r \in Runs : HoldsCards(r) /\ m \in at[r]
    BY DEF ReservedHasCause
  <2>1. \A r \in Runs : m \in at[r] => Solo(r)
    BY DEF HoldsInv, Kept, UnusedIsBlank, RunsAreSolo
  <2> QED
    BY <2>1 DEF HoldsInv, Kept, ReservedOrGang
<1> QED
  BY <1>1, HoldsInvHolds, PTL
=============================================================================

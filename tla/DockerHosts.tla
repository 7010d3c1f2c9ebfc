----------------------------- MODULE DockerHosts -----------------------------
(***************************************************************************)
(* Runs on docker hosts: the ports the scheduler gives them                 *)
(* (supervisor.py), the launch of one node or of a gang in rank order       *)
(* (launch/base.py launch_nodes), and the driver that does it over ssh      *)
(* (launch/ssh_docker.py), one remote command per step.                     *)
(*                                                                         *)
(* A remote command answers truly, or its ssh fails with a return code (the *)
(* driver reads that as an answer), or it times out and raises, done or not *)
(* done.  Between two commands the containers go on: an engine loads and    *)
(* binds its ports, or dies; a removed one keeps its cards' memory a while. *)
(* The worker is one thread; it may die, and its tick is then as if it had  *)
(* not been.  Cards are placed by Fleet; here a run has its cards.          *)
(***************************************************************************)
EXTENDS Integers, Sequences, FiniteSets, FiniteSetsExt, SequencesExt

CONSTANTS
  Hosts, Ports,
  Runs,           \* the runs that may be made
  Asked,          \* the sets of runs a behaviour may ask for
  Plan,           \* [run -> [hosts: sequence by rank, cards, port, share]]
  DIST_PORT_BASE, \* where the rendezvous ports start
  NodePorts,      \* ports 30000-32767: kube-proxy's
  Tries,          \* ports tried before giving up, 256
  MaxFaults,      \* bound: commands that fail, lost ticks, ports others take
  MaxReaps        \* forced removals before the janitor gives up

ASSUME PortsAssumption ==
  /\ Ports \subseteq Nat /\ NodePorts \subseteq Ports
  /\ Asked \subseteq SUBSET Runs /\ DIST_PORT_BASE \in Ports /\ Tries \in Nat \ {0}
  /\ MaxFaults \in Nat /\ MaxReaps \in Nat
ASSUME PlanAssumption ==
  \A r \in Runs : /\ Plan[r].hosts \in Seq(Hosts) /\ Plan[r].hosts # <<>>
                  /\ Plan[r].port \in Ports /\ Plan[r].share \in BOOLEAN

VARIABLES
  run,      \* the run rows: st, port, dist, reap (teardown_pending), reaps
  ctr,      \* the containers, by name <<run, rank>>
  linger,   \* cards of a host whose memory a removed container still holds
  foreign,  \* ports other processes of a host listen on
  pull,     \* the image on each host
  turn,     \* the launch under way: at, run, rank, done (the handles)
  sick,     \* hosts put aside with needs_attention
  slips,    \* what went wrong in the commands of each run
  faults    \* faults left

vars == <<run, ctr, linger, foreign, pull, turn, sick, slips, faults>>

-----------------------------------------------------------------------------
Ranks(r) == 0..(Len(Plan[r].hosts) - 1)
HostOf(n) == Plan[n[1]].hosts[n[2] + 1]
NamesOf(r) == {<<r, k>> : k \in Ranks(r)}
Names == UNION {NamesOf(r) : r \in Runs}
Gang(r) == Len(Plan[r].hosts) > 1
multi_node(r) == Gang(r)

NoContainer == [at |-> "gone", bound |-> FALSE, term |-> FALSE]
Started == [at |-> "running", bound |-> FALSE, term |-> FALSE]
Exited == [at |-> "exited", bound |-> FALSE, term |-> FALSE]
NoRun == [st |-> "none", port |-> 0, dist |-> 0, reap |-> FALSE, reaps |-> 0]
NotAsked == [NoRun EXCEPT !.st = "unasked"]
NoTurn == [at |-> "idle", run |-> 0, rank |-> 0, done |-> {}]

\* sglang binds the service port on every rank, the master its rendezvous too.
PortsOf(n) == {run[n[1]].port} \cup (IF n[2] = 0 /\ Gang(n[1]) THEN {run[n[1]].dist} ELSE {})
On(h) == {n \in Names : HostOf(n) = h}
Running(n) == ctr[n].at = "running"
listening(h) == foreign[h] \cup UNION {PortsOf(n) : n \in {m \in On(h) : Running(m) /\ ctr[m].bound}}
Memory(h) == linger[h] \cup UNION {Plan[n[1]].cards : n \in {m \in On(h) : Running(m) /\ ctr[m].bound}}

Live(r) == run[r].st \in {"pending", "launching", "serving"}
live_runs_on(h) == {r \in Runs : Live(r) /\ h \in ToSet(Plan[r].hosts)}
teardown_pending_on(h) == {r \in Runs : run[r].reap /\ h \in ToSet(Plan[r].hosts)}
Blockers(h) == live_runs_on(h) \cup teardown_pending_on(h)

-----------------------------------------------------------------------------
(* The ports of a new run.                                                  *)

\* The first of Tries ports from `port` on that is neither used nor kube-proxy's.
Walk(port, used) ==
  LET free == {p \in port..(port + Tries - 1) : p \notin used /\ p \notin NodePorts}
  IN  IF free = {} THEN port ELSE Min(free)
UsedOn(h) == {run[r].port : r \in Blockers(h)}
\* Mutant: a container that is still being torn down holds no port.
FreePortLive(r) == Walk(Plan[r].port, {run[q].port : q \in live_runs_on(Head(Plan[r].hosts))})
free_port(r) == Walk(Plan[r].port, UsedOn(Head(Plan[r].hosts)))
free_port_across(r) == Walk(Plan[r].port, UNION {UsedOn(h) : h \in ToSet(Plan[r].hosts)})
free_dist_port(r, port) ==
  LET master == Head(Plan[r].hosts)
  IN  Walk(DIST_PORT_BASE, {port} \cup UsedOn(master) \cup {run[q].dist : q \in Blockers(master)})

may_share(r, h) == live_runs_on(h) = {} \/ (Plan[r].share /\ \A q \in live_runs_on(h) : Plan[q].share)
CardsHeld(h) == UNION {Plan[q].cards : q \in Blockers(h)}
Idle == turn.at = "idle"

\* _start_one and _start_gang, as far as they choose ports: a gang takes whole
\* idle hosts, a single run free cards beside runs that share.
create_run(r) ==
  LET hosts == ToSet(Plan[r].hosts)
      port == IF Gang(r) THEN free_port_across(r) ELSE free_port(r)
  IN  /\ Idle /\ run[r].st = "none"
      /\ hosts \cap sick = {}
      /\ \A h \in hosts : \A q \in live_runs_on(h) : ~Gang(q)
      /\ IF Gang(r) THEN \A h \in hosts : Blockers(h) = {}
         ELSE \A h \in hosts : may_share(r, h) /\ CardsHeld(h) \cap Plan[r].cards = {}
      /\ run' = [run EXCEPT ![r] = [NoRun EXCEPT !.st = "pending", !.port = port,
                   !.dist = IF Gang(r) THEN free_dist_port(r, port) ELSE 0]]
      /\ UNCHANGED <<ctr, linger, foreign, pull, turn, sick, slips, faults>>

-----------------------------------------------------------------------------
(* Remote commands.                                                         *)

\* What a failed command costs, and whose it was.
Slip(r, kind) ==
  /\ faults > 0 /\ faults' = faults - 1
  /\ slips' = [slips EXCEPT ![r] = @ \cup {kind}]
Fine == UNCHANGED <<slips, faults>>

\* Removing a container ends it; the memory of a bound one goes later.
Removed(names) ==
  /\ ctr' = [n \in Names |-> IF n \in names THEN NoContainer ELSE ctr[n]]
  /\ linger' = [h \in Hosts |-> linger[h] \cup
       UNION {Plan[n[1]].cards : n \in {m \in names : HostOf(m) = h /\ Running(m) /\ ctr[m].bound}}]

R == turn.run
Name == <<R, turn.rank>>
Host == HostOf(Name)
GoTo(at) == turn' = [turn EXCEPT !.at = at]
At(at) == turn.at = at
Raise == GoTo("raised")
Host_UNCHANGED == UNCHANGED <<ctr, linger>>
Else == UNCHANGED <<run, foreign, pull, sick>>

-----------------------------------------------------------------------------
(* launch_nodes: every rank in order, each one launch.                      *)

launch_nodes(r) ==
  /\ Idle /\ run[r].st = "pending"
  /\ turn' = [at |-> "port", run |-> r, rank |-> 0, done |-> {}]
  /\ Host_UNCHANGED /\ Else /\ Fine

\* A command that failed with a return code found no listener.
check_port_free ==
  /\ At("port")
  /\ \/ /\ Fine
        /\ IF run[R].port \in listening(Host) \cup NodePorts THEN Raise ELSE GoTo("cards")
     \/ Slip(R, "code") /\ GoTo("cards")
     \/ Slip(R, "timeout") /\ Raise
  /\ Host_UNCHANGED /\ Else

\* attach, then gpus_in_use when this run has no container here yet.
gpus_in_use ==
  /\ At("cards")
  /\ \/ /\ Fine
        /\ IF ctr[Name].at = "gone" /\ Memory(Host) \cap Plan[R].cards # {}
           THEN Raise ELSE GoTo("remove")
     \/ Slip(R, "code") /\ GoTo("remove")
     \/ Slip(R, "timeout") /\ Raise
  /\ Host_UNCHANGED /\ Else

\* docker rm -f of what a previous attempt left; its failure is not looked at.
remove_stale ==
  /\ At("remove")
  /\ \/ Fine /\ Removed({Name}) /\ GoTo("image")
     \/ Slip(R, "code") /\ Host_UNCHANGED /\ GoTo("image")
     \/ Slip(R, "timeout") /\ (Removed({Name}) \/ Host_UNCHANGED) /\ Raise
  /\ Else

\* Mutant: the record of a failed pull stays, and reads as one under way.
EnsureImageWaits ==
  /\ At("image")
  /\ Fine
  /\ IF pull[Host] = "present" THEN GoTo("start") ELSE GoTo("deferred")
  /\ pull' = [pull EXCEPT ![Host] = IF @ = "absent" THEN "pulling" ELSE @]
  /\ Host_UNCHANGED /\ UNCHANGED <<run, foreign, sick>>
\* present; a pull under way or started by this look; one that is late or has
\* failed.  LaunchDeferred leaves the run pending.
ensure_image ==
  /\ At("image")
  /\ \/ /\ Fine
        /\ CASE pull[Host] = "present" -> GoTo("start") /\ UNCHANGED pull
             [] pull[Host] = "absent" -> GoTo("deferred") /\ pull' = [pull EXCEPT ![Host] = "pulling"]
             [] pull[Host] = "pulling" -> GoTo("deferred") /\ UNCHANGED pull
             [] OTHER -> Raise /\ pull' = [pull EXCEPT ![Host] = "absent"]
     \/ Slip(R, "code") /\ GoTo("start") /\ UNCHANGED pull
     \/ Slip(R, "timeout") /\ Raise /\ UNCHANGED pull
  /\ Host_UNCHANGED /\ UNCHANGED <<run, foreign, sick>>

\* docker run: refused while a container has the name or there is no image.
StartIt == ctr' = [ctr EXCEPT ![Name] = Started] /\ UNCHANGED linger
docker_run ==
  /\ At("start")
  /\ LET able == ctr[Name].at = "gone" /\ pull[Host] = "present"
     IN  \/ /\ Fine
            /\ IF able
               THEN /\ StartIt
                    /\ turn' = [turn EXCEPT !.done = @ \cup {turn.rank},
                          !.at = IF turn.rank = 0 /\ multi_node(R) THEN "rendezvous" ELSE "next"]
               ELSE Host_UNCHANGED /\ Raise
         \/ Slip(R, "code") /\ Host_UNCHANGED /\ Raise
         \/ Slip(R, "timeout") /\ Raise /\ IF able THEN StartIt \/ Host_UNCHANGED ELSE Host_UNCHANGED
  /\ Else

\* The workers are not started before the master listens for them.
wait_rendezvous ==
  /\ At("rendezvous")
  /\ \/ Fine /\ run[R].dist \in listening(Host) /\ GoTo("next")
     \/ Fine /\ run[R].dist \notin listening(Host) /\ Raise  \* the deadline
     \/ Slip(R, "timeout") /\ Raise
  /\ Host_UNCHANGED /\ Else

NextRank ==
  /\ At("next")
  /\ turn' = IF turn.rank + 1 \in Ranks(R) THEN [turn EXCEPT !.at = "port", !.rank = @ + 1]
             ELSE [turn EXCEPT !.at = "commit"]
  /\ Host_UNCHANGED /\ Else /\ Fine

\* A launch that raises takes down the handles it has, the last first; a
\* removal that fails is logged.
cleanup ==
  /\ turn.at \in {"raised", "deferred"}
  /\ LET mine == {<<R, k>> : k \in turn.done}
     IN  \/ Fine /\ Removed(mine)
         \/ \E n \in mine : Slip(R, "cleanup") /\ Removed(mine \ {n})
  /\ turn' = IF At("deferred") THEN NoTurn ELSE [turn EXCEPT !.at = "fail"]
  /\ Else

Commit ==
  /\ At("commit")
  /\ run' = [run EXCEPT ![R].st = "launching"]
  /\ turn' = NoTurn
  /\ UNCHANGED <<foreign, pull, sick>> /\ Host_UNCHANGED /\ Fine

\* The worker dies, or the tick does not commit: the rows are as before it.
LoseTick ==
  /\ ~Idle
  /\ Slip(R, "tick")
  /\ turn' = NoTurn
  /\ Host_UNCHANGED /\ Else

-----------------------------------------------------------------------------
(* The end of a run: _begin_teardown at once, _reap_teardowns after it.     *)

\* attach by the master's container, the only one it asks about: what the
\* command answers, GONE also when it fails with a return code.
Attached(r) == ctr[<<r, 0>>].at # "gone"
Ended(r, reap) == [run EXCEPT ![r].st = "over", ![r].reap = reap]
\* request_stop: SIGTERM to the running ones, the last rank first.
Signalled(names) ==
  ctr' = [n \in Names |-> IF n \in names /\ Running(n) THEN [ctr[n] EXCEPT !.term = TRUE] ELSE ctr[n]]
\* Mutant: a container that has exited counts as gone.
ExitedIsGone(r) == \A n \in NamesOf(r) : ~Running(n)
is_gone(r) == \A n \in NamesOf(r) : ctr[n].at = "gone"

begin_teardown(r) ==
  /\ UNCHANGED linger
  /\ \/ Fine /\ ~Attached(r) /\ run' = Ended(r, FALSE) /\ UNCHANGED ctr
     \/ Fine /\ Attached(r) /\ Signalled(NamesOf(r)) /\ run' = Ended(r, ~is_gone(r))
     \/ Slip(r, "code") /\ run' = Ended(r, FALSE) /\ UNCHANGED ctr
     \/ Slip(r, "timeout") /\ run' = Ended(r, TRUE)
        /\ (UNCHANGED ctr \/ (Attached(r) /\ \E some \in SUBSET NamesOf(r) : Signalled(some)))

fail ==
  /\ At("fail")
  /\ begin_teardown(R)
  /\ turn' = NoTurn
  /\ UNCHANGED <<foreign, pull, sick>>

\* Stopped, cut off or measured: any run may end.
Finish(r) ==
  /\ Idle /\ Live(r)
  /\ begin_teardown(r)
  /\ UNCHANGED <<foreign, pull, turn, sick>>

\* One pass of the janitor over a run: nothing left, the grace, a forced
\* removal (one that raises leaves the lower ranks), or giving up.
Waited(r) == [run EXCEPT ![r].reaps = @ + 1]
Reaped(r, st) == [run EXCEPT ![r].reap = FALSE, ![r].st = st]
Patient(r) == Attached(r) /\ run[r].reaps < MaxReaps
reap(r) ==
  /\ Idle /\ run[r].reap
  /\ \/ Fine /\ ~Attached(r) /\ run' = Reaped(r, "over") /\ UNCHANGED <<ctr, linger, sick>>
     \/ Fine /\ Patient(r) /\ run[r].reaps = 0 /\ run' = Waited(r) /\ UNCHANGED <<ctr, linger, sick>>
     \/ /\ Patient(r) /\ run[r].reaps > 0 /\ run' = Waited(r) /\ UNCHANGED sick
        /\ \/ Fine /\ Removed(NamesOf(r))
           \/ Slip(r, "timeout") /\ \E k \in Ranks(r) : Removed({n \in NamesOf(r) : n[2] > k})
           \/ Slip(r, "code") /\ \E n \in NamesOf(r) : Removed(NamesOf(r) \ {n})
     \/ /\ Fine /\ Attached(r) /\ run[r].reaps >= MaxReaps /\ run' = Reaped(r, "stuck")
        /\ sick' = sick \cup {HostOf(n) : n \in {m \in NamesOf(r) : ctr[m].at # "gone"}}
        /\ UNCHANGED <<ctr, linger>>
     \/ Slip(r, "code") /\ run' = Reaped(r, "over") /\ UNCHANGED <<ctr, linger, sick>>
  /\ UNCHANGED <<foreign, pull, turn>>

-----------------------------------------------------------------------------
(* A launched run is looked at every tick.                                  *)

\* The endpoint is asked over the network: whatever engine answers there.
endpoint_ready(r) == \E n \in On(HostOf(<<r, 0>>)) : Running(n) /\ ctr[n].bound /\ run[n[1]].port = run[r].port
state(r) ==
  IF \E n \in NamesOf(r) : ctr[n].at # "running" THEN "crashed"
  ELSE IF endpoint_ready(r) THEN "ready" ELSE "starting"
advance(r) ==
  /\ Idle /\ run[r].st = "launching"
  /\ \/ /\ state(r) = "ready" /\ Fine /\ UNCHANGED <<ctr, linger>>
        /\ run' = [run EXCEPT ![r].st = "serving"]
     \/ state(r) = "crashed" /\ begin_teardown(r)
     \/ state(r) = "starting" /\ begin_teardown(r)  \* the load limit
  /\ UNCHANGED <<foreign, pull, turn, sick>>

-----------------------------------------------------------------------------
(* What goes on on the hosts.                                               *)

\* The engine comes up and binds its ports, or finds one taken and exits.
Load(n) ==
  /\ Running(n) /\ ~ctr[n].bound /\ ~ctr[n].term
  /\ ctr' = [ctr EXCEPT ![n] = IF PortsOf(n) \cap listening(HostOf(n)) # {} THEN Exited
                               ELSE [@ EXCEPT !.bound = TRUE]]
  /\ UNCHANGED <<run, linger, foreign, pull, turn, sick>> /\ Fine
\* It dies, or heeds the signal.
Die(n) ==
  /\ Running(n)
  /\ ctr' = [ctr EXCEPT ![n] = Exited]
  /\ linger' = [linger EXCEPT ![HostOf(n)] = @ \cup (IF ctr[n].bound THEN Plan[n[1]].cards ELSE {})]
  /\ UNCHANGED <<run, foreign, pull, turn, sick>> /\ Fine
MemoryFreed(h) ==
  /\ linger[h] # {}
  /\ linger' = [linger EXCEPT ![h] = {}]
  /\ UNCHANGED <<run, ctr, foreign, pull, turn, sick>> /\ Fine
\* The pull is through, has failed, or is past its limit.
PullEnds(h) ==
  /\ pull[h] = "pulling"
  /\ \E s \in {"present", "failed"} : pull' = [pull EXCEPT ![h] = s]
  /\ UNCHANGED <<run, ctr, linger, foreign, turn, sick>> /\ Fine
\* Somebody else's process takes a port.
Intrude(h, p) ==
  /\ p \notin listening(h)
  /\ faults > 0 /\ faults' = faults - 1 /\ UNCHANGED slips
  /\ foreign' = [foreign EXCEPT ![h] = @ \cup {p}]
  /\ UNCHANGED <<run, ctr, linger, pull, turn, sick>>

-----------------------------------------------------------------------------
Init ==
  /\ \E some \in Asked : run = [r \in Runs |-> IF r \in some THEN NoRun ELSE NotAsked]
  /\ ctr = [n \in Names |-> NoContainer]
  /\ linger = [h \in Hosts |-> {}] /\ foreign = [h \in Hosts |-> {}]
  /\ pull \in [Hosts -> {"absent", "present"}]
  /\ turn = NoTurn /\ sick = {} /\ slips = [r \in Runs |-> {}]
  /\ faults = MaxFaults

LaunchStep ==
  \/ check_port_free \/ gpus_in_use \/ remove_stale \/ ensure_image \/ docker_run
  \/ wait_rendezvous \/ NextRank \/ cleanup \/ Commit \/ fail
Next ==
  \/ \E r \in Runs : create_run(r) \/ launch_nodes(r) \/ advance(r) \/ Finish(r) \/ reap(r)
  \/ check_port_free \/ gpus_in_use \/ remove_stale \/ ensure_image \/ docker_run
  \/ wait_rendezvous \/ NextRank \/ cleanup \/ Commit \/ fail \/ LoseTick
  \/ \E n \in Names : Load(n) \/ Die(n)
  \/ \E h \in Hosts : MemoryFreed(h) \/ PullEnds(h) \/ \E p \in Ports : Intrude(h, p)
\* Every command returns, every tick tries every pending run, and a pull ends
\* by its limit.  A run is tried only between two launches, hence strong
\* fairness.
Fairness ==
  /\ WF_vars(LaunchStep)
  /\ \A r \in Runs : SF_vars(launch_nodes(r))
  /\ \A h \in Hosts : WF_vars(PullEnds(h))
Spec == Init /\ [][Next]_vars /\ Fairness

-----------------------------------------------------------------------------
(* Properties.                                                              *)

\* No command of the run failed with a return code the driver took for an
\* answer; of a gang none failed at all and no tick was lost, for attach asks
\* about the master only.
Sound(r) == "code" \notin slips[r] /\ (Gang(r) => slips[r] = {})
Phase(r) ==
  IF run[r].st \in {"none", "unasked"} THEN "new"
  ELSE IF run[r].st = "over" /\ ~run[r].reap /\ Sound(r) THEN "released" ELSE "held"
Contract == INSTANCE DriverContract
  WITH phase <- [r \in Runs |-> Phase(r)],
       there <- {r \in Runs : Sound(r) /\ \E n \in NamesOf(r) : ctr[n].at # "gone"}
\* The docker driver keeps the driver's contract through timeouts, crashes,
\* failed launches and relaunches: a run is let go when no container of it is
\* left, and none comes back.
KeepsContract == Contract!Spec

\* What answers for a run that is taken to be serving is the run's own engine,
\* also beside an older run's that is still being removed (free_port, the
\* check of the port, the look at the endpoint).
ServesItself ==
  [][\A r \in Runs : run[r].st = "launching" /\ run'[r].st = "serving" /\ (\A q \in Runs : Sound(q))
       => ctr[<<r, 0>>].bound]_vars
\* A run waits for its launch a while only: the image comes or fails to, the
\* master is met or given up.
LaunchEnds == \A r \in Runs : run[r].st = "pending" ~> run[r].st # "pending"
===============================================================================

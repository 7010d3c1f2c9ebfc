-------------------------- MODULE DockerHostsProofs --------------------------
(***************************************************************************)
(* The docker driver keeps the driver's contract (KeepsContract), for every *)
(* set of hosts, runs, gangs and ports and every number of faults: a run's  *)
(* hardware is let go only once none of its containers is left, and none    *)
(* ever comes back.                                                         *)
(***************************************************************************)
EXTENDS DockerHosts, TLAPS, WellFoundedInduction

(***************************************************************************)
(* The inductive invariant.                                                *)
(***************************************************************************)
Statuses == {"unasked", "none", "pending", "launching", "serving", "over", "stuck"}
Before == {"unasked", "none", "pending"}
Starting == {"port", "cards", "remove", "image", "start"}
Up == {"rendezvous", "next", "commit"}
Down == {"raised", "deferred", "fail"}

Kinds == {"code", "timeout", "cleanup", "tick"}
\* Only a run that is over is being reaped.
Rows ==
  {row \in [st : Statuses, port : Nat, dist : Nat, reap : BOOLEAN, reaps : Nat] :
     row.reap => row.st = "over"}
Containers == [at : {"gone", "running", "exited"}, bound : BOOLEAN, term : BOOLEAN]
Turns == [at : Starting \cup Up \cup Down \cup {"idle"}, run : Runs \cup {0},
          rank : Nat, done : SUBSET Nat]

TypeOK ==
  /\ run \in [Runs -> Rows]
  /\ ctr \in [Names -> Containers]
  /\ turn \in Turns
  /\ slips \in [Runs -> SUBSET Kinds]

Present(r, k) == ctr[<<r, k>>].at # "gone"
There(r) == \E k \in Ranks(r) : Present(r, k)
Launching(r) == turn.at # "idle" /\ turn.run = r

\* A launch under way is that of a pending run; the ranks come up in order.
TurnOK ==
  turn.at # "idle" =>
    /\ turn.run \in Runs /\ run[turn.run].st = "pending"
    /\ turn.rank \in Ranks(turn.run) /\ turn.done \subseteq Ranks(turn.run)
    /\ turn.at \in Starting =>
         turn.rank \notin turn.done /\ (\A k \in turn.done : k < turn.rank)
           /\ (turn.rank # 0 => 0 \in turn.done)
    /\ turn.at \in Up => (\A k \in turn.done : k <= turn.rank) /\ 0 \in turn.done

\* The containers of a gang none of whose commands failed: during its launch those it
\* has handles for; otherwise none while it waits, and none unless the master's.
GangOK(r) ==
  Gang(r) /\ slips[r] = {} =>
    /\ Launching(r) =>
         \A k \in Ranks(r) : Present(r, k) <=> k \in turn.done /\ turn.at # "fail"
    /\ ~Launching(r) /\ (run[r].st \in Before \/ ~Present(r, 0)) => ~There(r)
GangWhole == \A r \in Runs : GangOK(r)

DInv == TypeOK /\ TurnOK /\ GangWhole

(***************************************************************************)
(* The operators the model is built from.                                  *)
(***************************************************************************)

\* Every run has a rank 0, and a run that is no gang has no other.
LEMMA RanksFacts ==
  ASSUME NEW r \in Runs
  PROVE  /\ 0 \in Ranks(r) /\ Ranks(r) \subseteq Nat
         /\ ~Gang(r) => Ranks(r) = {0}
         /\ \A k \in Ranks(r) : <<r, k>> \in Names /\ <<r, k>> \in NamesOf(r)
<1>1. Len(Plan[r].hosts) \in Nat /\ Len(Plan[r].hosts) # 0
  <2>1. Plan[r].hosts \in Seq(Hosts) /\ Plan[r].hosts # <<>>
    BY PlanAssumption
  <2> QED
    BY <2>1
<1> QED
  BY <1>1 DEF Ranks, Gang, Names, NamesOf

\* A name is a run's, and only one run's.
LEMMA NamesFacts ==
  /\ \A n \in Names : \E r \in Runs : \E k \in Ranks(r) : n = <<r, k>>
  /\ \A r \in Runs : \A n \in NamesOf(r) : \E k \in Ranks(r) : n = <<r, k>>
  BY DEF Names, NamesOf

\* The port walk ends on a port.
LEMMA WalkType ==
  ASSUME NEW port \in Nat, NEW used
  PROVE  Walk(port, used) \in Nat
<1> DEFINE free == {p \in port..(port + Tries - 1) : p \notin used /\ p \notin NodePorts}
<1>1. free \in SUBSET Nat
  BY PortsAssumption
<1>2. CASE free # {}
  <2> DEFINE Rel == OpToRel(<, Nat)
  <2>1. IsWellFoundedOn(Rel, Nat)
    BY NatLessThanWellFounded
  <2> HIDE DEF Rel, free
  <2>2. PICK x \in free : \A y \in free : ~(<<y, x>> \in Rel)
    BY <1>1, <1>2, <2>1, WFMin
  <2>3. \A y \in free : ~(y < x)
    BY <1>1, <2>2 DEF Rel, OpToRel
  <2>5. \A y \in free : x <= y
    BY <1>1, <2>3
  <2>4. Min(free) \in free
    BY <2>5 DEF Min
  <2> QED
    BY <1>1, <1>2, <2>4 DEF Walk, free
<1>3. CASE free = {}
  BY <1>3 DEF Walk
<1> QED
  BY <1>2, <1>3

(***************************************************************************)
(* Every step is about one run.                                            *)
(***************************************************************************)
Same(q) ==
  /\ run'[q] = run[q] /\ slips'[q] = slips[q]
  /\ \A k \in Ranks(q) : Present(q, k)' <=> Present(q, k)
OthersSame(r) == \A q \in Runs \ {r} : Same(q)

\* A command of r that went wrong, or not, is booked on r.
LEMMA SlipEffect ==
  ASSUME TypeOK, NEW r \in Runs, NEW kind \in Kinds,
         Fine \/ Slip(r, kind)
  PROVE  /\ slips' \in [Runs -> SUBSET Kinds]
         /\ \A q \in Runs \ {r} : slips'[q] = slips[q]
         /\ slips[r] \subseteq slips'[r]
         /\ Slip(r, kind) => kind \in slips'[r]
         /\ Fine => slips' = slips
  BY DEF TypeOK, Fine, Slip

\* docker rm takes down the containers it names and no other.
LEMMA RemovedEffect ==
  ASSUME TypeOK, NEW names \in SUBSET Names, Removed(names)
  PROVE  /\ ctr' \in [Names -> Containers]
         /\ \A q \in Runs : \A k \in Ranks(q) :
              Present(q, k)' <=> Present(q, k) /\ <<q, k>> \notin names
<1>1. ctr' = [n \in Names |-> IF n \in names THEN NoContainer ELSE ctr[n]]
  BY DEF Removed
<1>2. \A q \in Runs : \A k \in Ranks(q) : <<q, k>> \in Names
  BY RanksFacts
<1>3. NoContainer \in Containers /\ NoContainer.at = "gone"
  BY DEF NoContainer, Containers
<1> QED
  BY <1>1, <1>2, <1>3 DEF TypeOK, Present

\* What the contract sees of a run.
Visible(r) == Sound(r) /\ There(r)
Allowed(r) ==
  \/ Phase(r)' = Phase(r) /\ (Visible(r)' => Visible(r))
  \/ Phase(r) = "held" /\ Phase(r)' = "held"
  \/ Phase(r) = "new" /\ Phase(r)' = "held" /\ (Visible(r)' <=> Visible(r))
  \/ Phase(r) = "held" /\ Phase(r)' = "released" /\ ~Visible(r) /\ ~Visible(r)'

\* A run a step is not about looks the same.
LEMMA SameLooks ==
  ASSUME NEW q \in Runs, Same(q)
  PROVE  /\ Phase(q)' = Phase(q) /\ (Visible(q)' <=> Visible(q))
         /\ There(q)' <=> There(q)
  BY DEF Same, Phase, Visible, Sound, There

\* So a launch's step, which leaves its run pending, or a look at nothing.
LEMMA PendingIsHeld ==
  ASSUME NEW r \in Runs, run[r].st \in {"pending", "launching", "serving"}
  PROVE  Phase(r) = "held"
  BY DEF Phase

\* What a step owes: it is about one run, and is one the contract allows of it.
Faithful == (\A q \in Runs : Same(q)) \/ (\E r \in Runs : OthersSame(r) /\ Allowed(r))

\* The invariant of a gang is not disturbed where nothing of the gang changes.
LEMMA GangSame ==
  ASSUME DInv, NEW q \in Runs, Same(q), turn' = turn \/ (~Launching(q) /\ ~Launching(q)')
  PROVE  GangOK(q)'
<1>1. GangOK(q)
  BY DEF DInv, GangWhole, GangOK
<1>2. There(q)' <=> There(q)
  BY SameLooks
<1>3. 0 \in Ranks(q)
  BY RanksFacts
<1> QED
  BY <1>1, <1>2, <1>3 DEF GangOK, Same, Launching

(***************************************************************************)
(* The steps of a launch.                                                  *)
(***************************************************************************)

\* A step about one run: what is left to show of it is the order of the launch, the
\* run's own gang, and that the contract allows it.
LEMMA StepFrame ==
  ASSUME DInv, NEW r \in Runs, run' \in [Runs -> Rows], ctr' \in [Names -> Containers],
         turn' \in Turns, slips' \in [Runs -> SUBSET Kinds], OthersSame(r),
         \/ turn' = turn
         \/ (turn.at = "idle" \/ turn.run = r) /\ (turn'.at = "idle" \/ turn'.run = r),
         TurnOK', GangOK(r)', Allowed(r)
  PROVE  DInv' /\ Faithful
<1>1. TypeOK'
  BY DEF TypeOK
<1>2. GangWhole'
  <2> SUFFICES ASSUME NEW q \in Runs, q # r PROVE GangOK(q)'
    BY DEF GangWhole
  <2>1. Same(q) /\ (turn' = turn \/ (~Launching(q) /\ ~Launching(q)'))
    BY DEF OthersSame, Launching
  <2> QED
    BY <2>1, GangSame
<1> QED
  BY <1>1, <1>2 DEF DInv, Faithful

\* A step of the launch under way that leaves the rows alone.
LEMMA LaunchFrame ==
  ASSUME DInv, NEW r \in Runs, turn.at # "idle", turn.run = r, run' = run,
         ctr' \in [Names -> Containers], turn' \in Turns,
         slips' \in [Runs -> SUBSET Kinds], OthersSame(r),
         turn'.at = "idle" \/ turn'.run = r, TurnOK', GangOK(r)'
  PROVE  DInv' /\ Faithful
<1>1. run[r].st = "pending" /\ TypeOK
  BY DEF DInv, TurnOK
<1>2. Phase(r) = "held" /\ Phase(r)' = "held"
  BY <1>1, PendingIsHeld DEF Phase
<1>3. Allowed(r)
  BY <1>2 DEF Allowed
<1> QED
  BY <1>1, <1>3, StepFrame DEF TypeOK

\* A command that only looks: the launch goes on to the next one or gives up.
LEMMA LookKeeps ==
  ASSUME DInv, turn.at # "idle", run' = run, ctr' = ctr, NEW to \in Starting \cup Up \cup Down,
         turn' = [turn EXCEPT !.at = to], turn.at # "fail", to # "fail",
         to \in Starting => turn.at \in Starting, to \in Up => turn.at \in Up,
         Fine \/ \E kind \in Kinds : Slip(turn.run, kind)
  PROVE  DInv' /\ Faithful
<1>1. TypeOK /\ TurnOK /\ turn.run \in Runs
  BY DEF DInv, TurnOK
<1>7. PICK r \in Runs : turn.run = r
  BY <1>1
<1>2. /\ slips' \in [Runs -> SUBSET Kinds]
      /\ \A q \in Runs \ {r} : slips'[q] = slips[q]
      /\ slips[r] \subseteq slips'[r]
  BY <1>1, <1>7, SlipEffect DEF Kinds
<1>3. /\ turn' \in Turns /\ turn'.at = to /\ turn'.run = turn.run
      /\ turn'.rank = turn.rank /\ turn'.done = turn.done
  BY <1>1 DEF TypeOK, Turns
<1>4. OthersSame(r)
  BY <1>2 DEF OthersSame, Same, Present
<1>5. TurnOK'
  BY <1>1, <1>3 DEF TurnOK, Starting, Up, Down, Ranks
<1>6. GangOK(r)'
  <2>1. GangOK(r)
    BY <1>1 DEF DInv, GangWhole
  <2>2. Launching(r) /\ Launching(r)'
    BY <1>3, <1>7 DEF Launching, Starting, Up, Down
  <2> QED
    BY <1>2, <1>3, <2>1, <2>2 DEF GangOK, Present, Gang, Ranks
<1> QED
  BY <1>1, <1>2, <1>3, <1>4, <1>5, <1>6, <1>7, LaunchFrame DEF TypeOK

\* The port check, the look at the cards, the image and the wait for the master.
LEMMA LooksKeep ==
  ASSUME DInv, check_port_free \/ gpus_in_use \/ ensure_image \/ wait_rendezvous
  PROVE  DInv' /\ Faithful
<1> USE DEF Starting, Up, Down, At, GoTo, Raise, R, Else, Host_UNCHANGED, Kinds
<1>1. CASE check_port_free
  BY <1>1, LookKeeps DEF check_port_free
<1>2. CASE gpus_in_use
  BY <1>2, LookKeeps DEF gpus_in_use
<1>3. CASE ensure_image
  BY <1>3, LookKeeps DEF ensure_image
<1>4. CASE wait_rendezvous
  BY <1>4, LookKeeps DEF wait_rendezvous
<1> QED
  BY <1>1, <1>2, <1>3, <1>4

\* The launch under way, its run named.
LEMMA TurnNamed ==
  ASSUME DInv, turn.at # "idle"
  PROVE  \E r \in Runs :
           /\ turn.run = r /\ r = R /\ run[r].st = "pending" /\ Launching(r) /\ GangOK(r)
           /\ turn.rank \in Ranks(r) /\ turn.done \subseteq Ranks(r)
           /\ Name = <<r, turn.rank>> /\ Name \in Names
<1>1. turn.run \in Runs /\ run[turn.run].st = "pending" /\ turn.rank \in Ranks(turn.run)
      /\ turn.done \subseteq Ranks(turn.run)
  BY DEF DInv, TurnOK
<1>2. <<turn.run, turn.rank>> \in Names
  BY <1>1, RanksFacts
<1> QED
  BY <1>1, <1>2 DEF DInv, GangWhole, Launching, R, Name

\* docker rm of a leftover: there is none in a gang without faults.
LEMMA RemoveStaleKeeps ==
  ASSUME DInv, remove_stale
  PROVE  DInv' /\ Faithful
<1> USE DEF At, GoTo, Raise, Else, Host_UNCHANGED
<1>1. turn.at = "remove" /\ run' = run
  BY DEF remove_stale
<1>2. TypeOK /\ TurnOK
  BY DEF DInv
<1>3. PICK r \in Runs : /\ turn.run = r /\ r = R /\ Launching(r) /\ GangOK(r)
                        /\ turn.rank \in Ranks(r) /\ Name = <<r, turn.rank>> /\ Name \in Names
  BY <1>1, TurnNamed
<1>4. PICK to \in {"image", "raised"} : turn' = [turn EXCEPT !.at = to]
  BY DEF remove_stale
<1>5. /\ turn' \in Turns /\ turn'.at = to /\ turn'.run = r
      /\ turn'.rank = turn.rank /\ turn'.done = turn.done
  BY <1>2, <1>3, <1>4 DEF TypeOK, Turns, Starting, Down
<1>6. /\ slips' \in [Runs -> SUBSET Kinds]
      /\ \A q \in Runs \ {r} : slips'[q] = slips[q]
      /\ slips[r] \subseteq slips'[r]
  BY <1>2, <1>3, SlipEffect DEF remove_stale, Kinds
<1>7. \/ Removed({Name})
      \/ ctr' = ctr
  BY DEF remove_stale
<1>8. /\ ctr' \in [Names -> Containers]
      /\ \A q \in Runs : \A k \in Ranks(q) :
           \/ Present(q, k)' <=> Present(q, k)
           \/ q = r /\ k = turn.rank /\ ~Present(q, k)'
  <2>1. CASE ctr' = ctr
    BY <1>2, <2>1 DEF TypeOK, Present
  <2>2. CASE Removed({Name})
    <3>1. {Name} \in SUBSET Names
      BY <1>3
    <3>2. /\ ctr' \in [Names -> Containers]
          /\ \A q \in Runs : \A k \in Ranks(q) :
               Present(q, k)' <=> Present(q, k) /\ <<q, k>> \notin {Name}
      BY <1>2, <2>2, <3>1, RemovedEffect
    <3> QED
      BY <1>3, <3>2
  <2> QED
    BY <1>7, <2>1, <2>2
<1>9. OthersSame(r)
  BY <1>1, <1>6, <1>8 DEF OthersSame, Same
<1>10. TurnOK'
  BY <1>1, <1>2, <1>4, <1>5 DEF TurnOK, Starting, Up, Down, Ranks
<1>11. GangOK(r)'
  <2>1. Launching(r)' /\ turn.rank \notin turn.done
    BY <1>1, <1>2, <1>5 DEF Launching, TurnOK, Starting
  <2> QED
    BY <1>1, <1>3, <1>5, <1>6, <1>8, <2>1 DEF GangOK
<1> QED
  BY <1>1, <1>3, <1>5, <1>6, <1>8, <1>9, <1>10, <1>11, LaunchFrame

\* docker run: the rank's container starts, and the launch has its handle; when the
\* command timed out the gang has a fault.
LEMMA DockerRunKeeps ==
  ASSUME DInv, docker_run
  PROVE  DInv' /\ Faithful
<1> USE DEF At, GoTo, Raise, Else, Host_UNCHANGED
<1>1. turn.at = "start" /\ run' = run
  BY DEF docker_run
<1>2. TypeOK /\ TurnOK
  BY DEF DInv
<1>3. PICK r \in Runs : /\ turn.run = r /\ r = R /\ Launching(r) /\ GangOK(r)
                        /\ turn.rank \in Ranks(r) /\ turn.done \subseteq Ranks(r)
                        /\ Name = <<r, turn.rank>> /\ Name \in Names
  BY <1>1, TurnNamed
<1>9. PICK rank \in Ranks(r) : turn.rank = rank
  BY <1>3
<1>4. /\ slips' \in [Runs -> SUBSET Kinds]
      /\ \A q \in Runs \ {r} : slips'[q] = slips[q]
      /\ slips[r] \subseteq slips'[r]
  BY <1>2, <1>3, SlipEffect DEF docker_run, Kinds
<1>5. Started \in Containers /\ Started.at = "running"
  BY DEF Started, Containers
<1>6. ASSUME StartIt
      PROVE  /\ ctr' \in [Names -> Containers] /\ Present(r, rank)'
             /\ \A q \in Runs : \A k \in Ranks(q) :
                  q # r \/ k # rank => (Present(q, k)' <=> Present(q, k))
  BY <1>2, <1>3, <1>5, <1>6, <1>9, RanksFacts DEF StartIt, TypeOK, Present
<1>7. CASE turn' = [turn EXCEPT !.at = "raised"]
  <2>1. /\ turn' \in Turns /\ turn'.at = "raised" /\ turn'.run = r
        /\ turn'.rank = turn.rank /\ turn'.done = turn.done
    BY <1>2, <1>3, <1>7 DEF TypeOK, Turns, Down
  <2>2. ctr' = ctr \/ (StartIt /\ slips'[r] # {})
    <3>1. \A kind \in Kinds : Slip(R, kind) => slips'[r] # {}
      BY <1>2, <1>3, SlipEffect
    <3>2. turn' # [turn EXCEPT !.done = turn.done \cup {turn.rank},
                     !.at = IF turn.rank = 0 /\ multi_node(R) THEN "rendezvous" ELSE "next"]
      BY <1>2, <2>1 DEF TypeOK, Turns
    <3> QED
      BY <3>1, <3>2 DEF docker_run, Kinds
  <2>3. ctr' \in [Names -> Containers]
    BY <1>2, <1>6, <2>2 DEF TypeOK
  <2>4. OthersSame(r)
    BY <1>1, <1>4, <1>6, <2>2 DEF OthersSame, Same, Present
  <2>5. TurnOK'
    BY <1>1, <1>2, <1>3, <2>1 DEF TurnOK, Starting, Up, Down, Ranks
  <2>6. GangOK(r)'
    <3>1. Launching(r)'
      BY <2>1 DEF Launching
    <3>2. slips'[r] = {} => ctr' = ctr /\ slips[r] = {}
      BY <1>4, <2>2
    <3> QED
      BY <1>1, <1>3, <2>1, <3>1, <3>2 DEF GangOK, Present
  <2> QED
    BY <1>1, <1>3, <1>4, <2>1, <2>3, <2>4, <2>5, <2>6, LaunchFrame
<1>8. CASE /\ StartIt
           /\ turn' = [turn EXCEPT !.done = turn.done \cup {turn.rank},
                         !.at = IF turn.rank = 0 /\ multi_node(R) THEN "rendezvous" ELSE "next"]
  <2>1. /\ turn' \in Turns /\ turn'.at \in Up /\ turn'.run = r
        /\ turn'.rank = turn.rank /\ turn'.done = turn.done \cup {turn.rank}
    BY <1>2, <1>3, <1>8 DEF TypeOK, Turns, Up
  <2>2. ctr' \in [Names -> Containers] /\ OthersSame(r)
    BY <1>1, <1>4, <1>6, <1>8 DEF OthersSame, Same
  <2>3. TurnOK'
    <3>1. Ranks(r) \subseteq Nat /\ run[r].st = "pending"
      BY <1>1, <1>2, <1>3, RanksFacts DEF TurnOK
    <3>2. (\A k \in turn.done : k < turn.rank) /\ (turn.rank # 0 => 0 \in turn.done)
      BY <1>1, <1>2 DEF TurnOK, Starting
    <3>3. \A k \in turn'.done : k <= turn'.rank
      BY <1>3, <2>1, <3>1, <3>2
    <3>4. 0 \in turn'.done /\ turn'.done \subseteq Ranks(r)
      BY <1>3, <2>1, <3>2
    <3> QED
      BY <1>1, <1>3, <2>1, <3>1, <3>3, <3>4 DEF TurnOK, Starting, Up, Ranks
  <2>4. GangOK(r)'
    <3>1. Launching(r)' /\ turn'.at # "fail"
      BY <2>1 DEF Launching, Up
    <3>2. slips'[r] = {} => slips[r] = {}
      BY <1>4
    <3> QED
      BY <1>1, <1>3, <1>6, <1>8, <1>9, <2>1, <3>1, <3>2 DEF GangOK
  <2> QED
    BY <1>1, <1>3, <1>4, <2>1, <2>2, <2>3, <2>4, LaunchFrame
<1> QED
  BY <1>7, <1>8 DEF docker_run

\* The launch goes on to the next rank, or is through.
LEMMA NextRankKeeps ==
  ASSUME DInv, NextRank
  PROVE  DInv' /\ Faithful
<1>1. turn.at = "next" /\ run' = run /\ ctr' = ctr /\ slips' = slips
  BY DEF NextRank, At, Host_UNCHANGED, Else, Fine
<1>2. TypeOK /\ TurnOK
  BY DEF DInv
<1>3. PICK r \in Runs : /\ turn.run = r /\ r = R /\ Launching(r) /\ GangOK(r)
                        /\ run[r].st = "pending"
                        /\ turn.rank \in Ranks(r) /\ turn.done \subseteq Ranks(r)
  BY <1>1, TurnNamed
<1>4. /\ turn' \in Turns /\ turn'.run = r /\ turn'.done = turn.done
      /\ \/ turn'.at = "port" /\ turn'.rank = turn.rank + 1 /\ turn.rank + 1 \in Ranks(r)
         \/ turn'.at = "commit" /\ turn'.rank = turn.rank
  <2>1. CASE turn.rank + 1 \in Ranks(r)
    <3>1. turn' = [turn EXCEPT !.at = "port", !.rank = turn.rank + 1]
      BY <1>3, <2>1 DEF NextRank
    <3>2. turn.rank \in Nat /\ turn.rank + 1 \in Nat
      BY <1>2 DEF TypeOK, Turns
    <3>3. turn' = [at |-> "port", run |-> r, rank |-> turn.rank + 1, done |-> turn.done]
      BY <1>2, <1>3, <3>1 DEF TypeOK, Turns
    <3>4. turn' \in Turns
      BY <1>2, <3>2, <3>3 DEF TypeOK, Turns, Starting
    <3> QED
      BY <2>1, <3>3, <3>4
  <2>2. CASE turn.rank + 1 \notin Ranks(r)
    <3>1. turn' = [turn EXCEPT !.at = "commit"]
      BY <1>3, <2>2 DEF NextRank
    <3> QED
      BY <1>2, <1>3, <3>1 DEF TypeOK, Turns, Up
  <2> QED
    BY <2>1, <2>2
<1>5. OthersSame(r)
  BY <1>1 DEF OthersSame, Same, Present
<1>6. TurnOK'
  <2>1. /\ \A k \in turn.done : k \in Nat /\ k <= turn.rank
        /\ 0 \in turn.done /\ turn.rank \in Nat
    BY <1>1, <1>2, <1>3, RanksFacts DEF TurnOK, Up, TypeOK, Turns
  <2> QED
    BY <1>1, <1>3, <1>4, <2>1 DEF TurnOK, Starting, Up, Ranks
<1>7. GangOK(r)'
  BY <1>1, <1>3, <1>4 DEF GangOK, Launching, Present
<1> QED
  BY <1>1, <1>2, <1>3, <1>4, <1>5, <1>6, <1>7, LaunchFrame DEF TypeOK

\* Going idle keeps the launch's order.
LEMMA NoTurnOK == NoTurn \in Turns /\ NoTurn.at = "idle" /\ (turn' = NoTurn => TurnOK')
  BY DEF NoTurn, Turns, TurnOK

\* A launch that raises, or is deferred, takes down what it has handles for.
LEMMA CleanupKeeps ==
  ASSUME DInv, cleanup
  PROVE  DInv' /\ Faithful
<1>1. turn.at \in {"raised", "deferred"} /\ run' = run
  BY DEF cleanup, Else
<1>2. TypeOK /\ TurnOK
  BY DEF DInv
<1>3. PICK r \in Runs : /\ turn.run = r /\ r = R /\ Launching(r) /\ GangOK(r)
                        /\ run[r].st = "pending"
                        /\ turn.rank \in Ranks(r) /\ turn.done \subseteq Ranks(r)
  BY <1>1, TurnNamed
<1> DEFINE mine == {<<r, k>> : k \in turn.done}
<1>4. /\ slips' \in [Runs -> SUBSET Kinds]
      /\ \A q \in Runs \ {r} : slips'[q] = slips[q]
      /\ slips[r] \subseteq slips'[r]
  BY <1>2, <1>3, SlipEffect DEF cleanup, Kinds
<1>5. PICK names \in SUBSET mine : Removed(names) /\ (slips'[r] = {} => names = mine)
  <2>1. \A n : Slip(r, "cleanup") => slips'[r] # {}
    BY <1>2, SlipEffect DEF Kinds
  <2> QED
    BY <1>3, <2>1 DEF cleanup
<1>6. names \in SUBSET Names
  BY <1>3, RanksFacts
<1>7. /\ ctr' \in [Names -> Containers]
      /\ \A q \in Runs : \A k \in Ranks(q) :
           Present(q, k)' <=> Present(q, k) /\ <<q, k>> \notin names
  BY <1>2, <1>5, <1>6, RemovedEffect
<1>8. OthersSame(r)
  BY <1>1, <1>4, <1>7 DEF OthersSame, Same
<1>9. slips'[r] = {} /\ Gang(r) => \A k \in Ranks(r) : ~Present(r, k)'
  <2>1. slips'[r] = {} /\ Gang(r) => \A k \in Ranks(r) : Present(r, k) => k \in turn.done
    BY <1>3, <1>4 DEF GangOK
  <2> QED
    BY <1>5, <1>7, <2>1
<1>10. CASE turn' = NoTurn
  <2>1. turn' \in Turns /\ turn'.at = "idle" /\ TurnOK'
    BY <1>10, NoTurnOK
  <2>2. GangOK(r)'
    BY <1>9, <2>1 DEF GangOK, Launching, There
  <2> QED
    BY <1>1, <1>3, <1>4, <1>7, <1>8, <2>1, <2>2, LaunchFrame
<1>11. CASE turn' = [turn EXCEPT !.at = "fail"]
  <2>1. /\ turn' \in Turns /\ turn'.at = "fail" /\ turn'.run = r
        /\ turn'.rank = turn.rank /\ turn'.done = turn.done
    BY <1>2, <1>3, <1>11 DEF TypeOK, Turns, Down
  <2>2. TurnOK'
    BY <1>1, <1>3, <2>1 DEF TurnOK, Starting, Up, Ranks
  <2>3. GangOK(r)'
    BY <1>9, <2>1 DEF GangOK, Launching
  <2> QED
    BY <1>1, <1>3, <1>4, <1>7, <1>8, <2>1, <2>2, <2>3, LaunchFrame
<1> QED
  BY <1>10, <1>11 DEF cleanup

\* The tick is lost: the run waits as before, whatever stands of it.
LEMMA LoseTickKeeps ==
  ASSUME DInv, LoseTick
  PROVE  DInv' /\ Faithful
<1>1. turn.at # "idle" /\ run' = run /\ ctr' = ctr /\ turn' = NoTurn /\ Slip(R, "tick")
  BY DEF LoseTick, Idle, Host_UNCHANGED, Else
<1>2. TypeOK
  BY DEF DInv
<1>3. PICK r \in Runs : turn.run = r /\ r = R
  BY <1>1, TurnNamed
<1>4. /\ slips' \in [Runs -> SUBSET Kinds]
      /\ \A q \in Runs \ {r} : slips'[q] = slips[q]
      /\ slips'[r] # {}
  BY <1>1, <1>2, <1>3, SlipEffect DEF Kinds
<1>5. OthersSame(r)
  BY <1>1, <1>4 DEF OthersSame, Same, Present
<1>6. GangOK(r)'
  BY <1>4 DEF GangOK
<1> QED
  BY <1>1, <1>2, <1>3, <1>4, <1>5, <1>6, NoTurnOK, LaunchFrame DEF TypeOK

\* Every rank is up: the row says launching.
LEMMA CommitKeeps ==
  ASSUME DInv, Commit
  PROVE  DInv' /\ Faithful
<1>1. turn.at = "commit" /\ ctr' = ctr /\ slips' = slips /\ turn' = NoTurn
      /\ run' = [run EXCEPT ![R].st = "launching"]
  BY DEF Commit, At, Host_UNCHANGED, Fine
<1>2. TypeOK /\ TurnOK
  BY DEF DInv
<1>3. PICK r \in Runs : turn.run = r /\ r = R /\ Launching(r) /\ GangOK(r)
                        /\ run[r].st = "pending"
  BY <1>1, TurnNamed
<1>4. /\ run' \in [Runs -> Rows] /\ run'[r].st = "launching"
      /\ \A q \in Runs \ {r} : run'[q] = run[q]
  BY <1>1, <1>2, <1>3 DEF TypeOK, Rows, Statuses
<1>5. OthersSame(r)
  BY <1>1, <1>4 DEF OthersSame, Same, Present
<1>6. GangOK(r)'
  <2>1. 0 \in turn.done /\ 0 \in Ranks(r)
    BY <1>1, <1>2, RanksFacts DEF TurnOK, Up
  <2>2. Gang(r) /\ slips'[r] = {} => Present(r, 0)'
    BY <1>1, <1>3, <2>1 DEF GangOK, Present
  <2> QED
    BY <1>1, <1>4, <2>2, NoTurnOK DEF GangOK, Launching, Before
<1>7. Allowed(r)
  BY <1>3, <1>4 DEF Allowed, Phase
<1> QED
  BY <1>1, <1>2, <1>3, <1>4, <1>5, <1>6, <1>7, NoTurnOK, StepFrame DEF TypeOK

\* A pending run is taken up; of a gang without faults nothing stands.
LEMMA LaunchNodesKeeps ==
  ASSUME DInv, NEW r \in Runs, launch_nodes(r)
  PROVE  DInv' /\ Faithful
<1>1. /\ turn.at = "idle" /\ run[r].st = "pending" /\ run' = run /\ ctr' = ctr /\ slips' = slips
      /\ turn' = [at |-> "port", run |-> r, rank |-> 0, done |-> {}]
  BY DEF launch_nodes, Idle, Host_UNCHANGED, Else, Fine
<1>2. TypeOK /\ GangOK(r) /\ 0 \in Ranks(r)
  BY RanksFacts DEF DInv, GangWhole
<1>3. turn' \in Turns /\ TurnOK'
  BY <1>1, <1>2 DEF Turns, TurnOK, Starting, Up, Ranks
<1>4. GangOK(r)'
  BY <1>1, <1>2 DEF GangOK, Launching, There, Present, Before
<1>5. OthersSame(r) /\ Allowed(r)
  BY <1>1 DEF OthersSame, Same, Present, Allowed, Phase
<1> QED
  BY <1>1, <1>2, <1>3, <1>4, <1>5, StepFrame DEF TypeOK

(***************************************************************************)
(* The steps outside a launch.                                             *)
(***************************************************************************)

\* A new row is a row.
LEMMA NewRowType ==
  ASSUME NEW port \in Nat, NEW dist \in Nat
  PROVE  /\ [NoRun EXCEPT !.st = "pending", !.port = port, !.dist = dist] \in Rows
         /\ [NoRun EXCEPT !.st = "pending", !.port = port, !.dist = dist].st = "pending"
<1>1. [NoRun EXCEPT !.st = "pending", !.port = port, !.dist = dist] \in Rows
  BY DEF NoRun, Rows, Statuses
<1>2. [NoRun EXCEPT !.st = "pending", !.port = port, !.dist = dist].st = "pending"
  BY DEF NoRun
<1> QED
  BY <1>1, <1>2

\* The scheduler makes a row; nothing of the run stands yet.
LEMMA CreateKeeps ==
  ASSUME DInv, NEW r \in Runs, create_run(r)
  PROVE  DInv' /\ Faithful
<1> DEFINE port == IF Gang(r) THEN free_port_across(r) ELSE free_port(r)
           dist == IF Gang(r) THEN free_dist_port(r, port) ELSE 0
<1>1. /\ turn.at = "idle" /\ run[r].st = "none"
      /\ run' = [run EXCEPT ![r] = [NoRun EXCEPT !.st = "pending", !.port = port, !.dist = dist]]
      /\ ctr' = ctr /\ turn' = turn /\ slips' = slips
  BY DEF create_run, Idle
<1>2. TypeOK /\ GangOK(r)
  BY DEF DInv, GangWhole
<1>3. Plan[r].port \in Nat /\ DIST_PORT_BASE \in Nat
  BY PortsAssumption, PlanAssumption
<1>4. port \in Nat /\ dist \in Nat
  BY <1>3, WalkType DEF free_port_across, free_port, free_dist_port
<1> HIDE DEF port, dist
<1>5. [NoRun EXCEPT !.st = "pending", !.port = port, !.dist = dist] \in Rows
  BY <1>4, NewRowType
<1>6. [NoRun EXCEPT !.st = "pending", !.port = port, !.dist = dist].st = "pending"
  BY <1>4, NewRowType
<1>7. run' \in [Runs -> Rows] /\ run'[r].st = "pending"
      /\ \A q \in Runs \ {r} : run'[q] = run[q]
  BY <1>1, <1>2, <1>5, <1>6 DEF TypeOK
<1>8. OthersSame(r)
  BY <1>1, <1>7 DEF OthersSame, Same, Present
<1>9. GangOK(r)' /\ TurnOK'
  <2>1. TurnOK'
    BY <1>1 DEF TurnOK
  <2> QED
    BY <1>1, <1>2, <1>7, <2>1 DEF GangOK, Launching, There, Present, Before
<1>10. Allowed(r)
  <2>1. Phase(r) = "new" /\ Phase(r)' = "held"
    BY <1>1, <1>7 DEF Phase
  <2>2. Visible(r)' <=> Visible(r)
    BY <1>1 DEF Visible, Sound, There, Present
  <2> QED
    BY <2>1, <2>2 DEF Allowed
<1> QED
  BY <1>1, <1>2, <1>7, <1>8, <1>9, <1>10, StepFrame DEF TypeOK

\* _begin_teardown: the containers stay; the hardware is let go only when the master's
\* was not there, and then, no command having been misread, none was.
LEMMA TeardownEffect ==
  ASSUME TypeOK, NEW r \in Runs, begin_teardown(r),
         run[r].st \in {"pending", "launching", "serving"},
         Gang(r) /\ slips[r] = {} /\ ~Present(r, 0) => ~There(r)
  PROVE  /\ run' \in [Runs -> Rows] /\ run'[r].st = "over"
         /\ ctr' \in [Names -> Containers] /\ slips' \in [Runs -> SUBSET Kinds]
         /\ \A k \in Ranks(r) : Present(r, k)' <=> Present(r, k)
         /\ slips[r] \subseteq slips'[r]
         /\ OthersSame(r) /\ Allowed(r)
<1>1. PICK b \in BOOLEAN : run' = Ended(r, b)
  BY DEF begin_teardown, is_gone
<1>2. /\ run' \in [Runs -> Rows] /\ run'[r].st = "over" /\ run'[r].reap = b
      /\ \A q \in Runs \ {r} : run'[q] = run[q]
  <2>1. [run[r] EXCEPT !.st = "over", !.reap = b] \in Rows
    BY DEF TypeOK, Rows, Statuses
  <2>2. run' = [run EXCEPT ![r] = [run[r] EXCEPT !.st = "over", !.reap = b]]
    BY <1>1 DEF Ended, TypeOK
  <2> QED
    BY <2>1, <2>2 DEF TypeOK, Rows
<1>3. /\ slips' \in [Runs -> SUBSET Kinds]
      /\ \A q \in Runs \ {r} : slips'[q] = slips[q]
      /\ slips[r] \subseteq slips'[r]
  BY SlipEffect DEF begin_teardown, Kinds
<1>4. /\ ctr' \in [Names -> Containers]
      /\ \A q \in Runs : \A k \in Ranks(q) : Present(q, k)' <=> Present(q, k)
  <2>1. CASE ctr' = ctr
    BY <2>1 DEF TypeOK, Present
  <2>2. ASSUME NEW names, Signalled(names)
        PROVE  /\ ctr' \in [Names -> Containers]
               /\ \A n \in Names : ctr'[n].at = ctr[n].at
    <3>1. \A n \in Names : [ctr[n] EXCEPT !.term = TRUE] \in Containers
                           /\ [ctr[n] EXCEPT !.term = TRUE].at = ctr[n].at
      BY DEF TypeOK, Containers
    <3> QED
      BY <2>2, <3>1 DEF Signalled, TypeOK
  <2>3. ctr' = ctr \/ \E names : Signalled(names)
    BY DEF begin_teardown
  <2> QED
    BY <2>1, <2>2, <2>3, RanksFacts DEF Present
<1>5. OthersSame(r)
  BY <1>2, <1>3, <1>4 DEF OthersSame, Same
<1>6. Allowed(r)
  <2>1. Phase(r) = "held"
    BY PendingIsHeld
  <2>2. CASE b \/ ~Sound(r)'
    <3>1. Phase(r)' = "held"
      BY <1>2, <2>2 DEF Phase
    <3> QED
      BY <2>1, <3>1 DEF Allowed
  <2>3. CASE ~b /\ Sound(r)'
    <3>1. Phase(r)' = "released"
      BY <1>2, <2>3 DEF Phase
    <3>2. <<r, 0>> \in NamesOf(r)
      BY RanksFacts
    <3>3. Ended(r, TRUE) # Ended(r, FALSE)
      BY DEF Ended, TypeOK, Rows
    <3>4. ~Slip(r, "code")
      BY <2>3, SlipEffect DEF Sound, Kinds
    <3>5. Attached(r) => ~is_gone(r)
      BY <3>2 DEF Attached, is_gone
    <3>6. ~Attached(r) /\ Fine
      BY <1>1, <2>3, <3>3, <3>4, <3>5 DEF begin_teardown
    <3>7. slips' = slips /\ ~Present(r, 0)
      BY <3>6 DEF Fine, Attached, Present
    <3>8. ~There(r)
      BY <2>3, <3>7, RanksFacts DEF Sound, There
    <3>9. ~There(r)'
      BY <1>4, <3>8 DEF There
    <3> QED
      BY <2>1, <3>1, <3>8, <3>9 DEF Allowed, Visible
  <2> QED
    BY <2>2, <2>3
<1> QED
  BY <1>2, <1>3, <1>4, <1>5, <1>6

\* A failed launch, a run that ended, one that crashed or never came up.
LEMMA TeardownKeeps ==
  ASSUME DInv, NEW r \in Runs, begin_teardown(r),
         \/ turn.at = "fail" /\ turn.run = r /\ turn' = NoTurn
         \/ turn.at = "idle" /\ turn' = turn /\ run[r].st \in {"pending", "launching", "serving"}
  PROVE  DInv' /\ Faithful
<1>1. TypeOK /\ GangOK(r) /\ run[r].st \in {"pending", "launching", "serving"}
  BY DEF DInv, TurnOK, GangWhole
<1>2. Gang(r) /\ slips[r] = {} /\ ~Present(r, 0) => ~There(r)
  BY <1>1 DEF GangOK, Launching, There
<1>3. /\ run' \in [Runs -> Rows] /\ run'[r].st = "over"
      /\ ctr' \in [Names -> Containers] /\ slips' \in [Runs -> SUBSET Kinds]
      /\ \A k \in Ranks(r) : Present(r, k)' <=> Present(r, k)
      /\ slips[r] \subseteq slips'[r]
      /\ OthersSame(r) /\ Allowed(r)
  BY <1>1, <1>2, TeardownEffect
<1>4. turn'.at = "idle" /\ turn' \in Turns /\ TurnOK'
  BY <1>1, NoTurnOK DEF TypeOK, TurnOK
<1>5. GangOK(r)'
  <2>1. 0 \in Ranks(r)
    BY RanksFacts
  <2> QED
    BY <1>2, <1>3, <1>4, <2>1 DEF GangOK, Launching, Before, There
<1> QED
  BY <1>1, <1>3, <1>4, <1>5, StepFrame

\* The janitor lets go of a run in the same case only; a forced removal that nothing
\* disturbs takes the whole gang.
LEMMA ReapKeeps ==
  ASSUME DInv, NEW r \in Runs, reap(r)
  PROVE  DInv' /\ Faithful
<1>1. turn.at = "idle" /\ turn' = turn /\ run[r].reap
  BY DEF reap, Idle
<1>2. TypeOK /\ GangOK(r)
  BY DEF DInv, GangWhole
<1>3. /\ run[r].st = "over" /\ Phase(r) = "held" /\ 0 \in Ranks(r)
      /\ turn' \in Turns /\ TurnOK'
  BY <1>1, <1>2, RanksFacts DEF TypeOK, Rows, Phase, TurnOK
<1>4. Gang(r) /\ slips[r] = {} /\ ~Present(r, 0) => ~There(r)
  BY <1>1, <1>2 DEF GangOK, Launching
<1>5. /\ slips' \in [Runs -> SUBSET Kinds]
      /\ \A q \in Runs \ {r} : slips'[q] = slips[q]
      /\ slips[r] \subseteq slips'[r]
  BY <1>2, SlipEffect DEF reap, Kinds
<1>6. ASSUME run' = Waited(r) \/ run' = Reaped(r, "over") \/ run' = Reaped(r, "stuck")
      PROVE  /\ run' \in [Runs -> Rows]
             /\ \A q \in Runs \ {r} : run'[q] = run[q]
             /\ run' = Waited(r) => run'[r].st = "over" /\ run'[r].reap
             /\ run' = Reaped(r, "over") => run'[r].st = "over" /\ ~run'[r].reap
             /\ run' = Reaped(r, "stuck") => run'[r].st = "stuck"
  <2>1. Waited(r) \in [Runs -> Rows] /\ \A q \in Runs \ {r} : Waited(r)[q] = run[q]
    <3>1. [run[r] EXCEPT !.reaps = run[r].reaps + 1] \in Rows
      BY <1>2 DEF TypeOK, Rows
    <3> QED
      BY <1>2, <3>1 DEF Waited, TypeOK
  <2>2. \A st \in {"over", "stuck"} :
          Reaped(r, st) \in [Runs -> Rows] /\ \A q \in Runs \ {r} : Reaped(r, st)[q] = run[q]
    <3>1. \A st \in {"over", "stuck"} : [run[r] EXCEPT !.reap = FALSE, !.st = st] \in Rows
      BY <1>2 DEF TypeOK, Rows, Statuses
    <3>2. \A st \in {"over", "stuck"} :
            Reaped(r, st) = [run EXCEPT ![r] = [run[r] EXCEPT !.reap = FALSE, !.st = st]]
      BY <1>2 DEF Reaped, TypeOK
    <3> QED
      BY <1>2, <3>1, <3>2 DEF TypeOK
  <2>3. Waited(r)[r].reap /\ Waited(r)[r].st = "over"
        /\ ~Reaped(r, "over")[r].reap /\ ~Reaped(r, "stuck")[r].reap
        /\ Reaped(r, "over")[r].st = "over" /\ Reaped(r, "stuck")[r].st = "stuck"
    BY <1>1, <1>2, <1>3 DEF Waited, Reaped, TypeOK, Rows
  <2> QED
    BY <1>6, <2>1, <2>2, <2>3
<1>7. CASE ctr' = ctr
  <2>1. \A q \in Runs : \A k \in Ranks(q) : Present(q, k)' <=> Present(q, k)
    BY <1>7 DEF Present
  <2>2. run' = Waited(r) \/ run' = Reaped(r, "over") \/ run' = Reaped(r, "stuck")
    BY DEF reap
  <2>3. OthersSame(r) /\ run' \in [Runs -> Rows] /\ run'[r].st \in {"over", "stuck"}
    BY <1>5, <1>6, <2>1, <2>2 DEF OthersSame, Same
  <2>4. GangOK(r)'
    BY <1>1, <1>3, <1>4, <1>5, <2>1, <2>3 DEF GangOK, Launching, There, Before
  <2>5. Allowed(r)
    <3>1. CASE Phase(r)' = "held"
      BY <1>3, <3>1 DEF Allowed
    <3>2. CASE run' = Reaped(r, "over") /\ Sound(r)'
      <4>1. Phase(r)' = "released"
        BY <1>6, <3>2 DEF Phase
      <4>2. ~Slip(r, "code")
        BY <1>2, <3>2, SlipEffect DEF Sound, Kinds
      <4>3. Reaped(r, "over") # Waited(r) /\ Reaped(r, "over") # Reaped(r, "stuck")
        BY <1>1, <1>2, ZenonT(30) DEF Waited, Reaped, TypeOK, Rows
      <4>4. Fine /\ ~Attached(r)
        BY <3>2, <4>2, <4>3 DEF reap
      <4>5. slips' = slips /\ ~Present(r, 0)
        BY <4>4 DEF Fine, Attached, Present
      <4>6. ~There(r)
        BY <1>4, <3>2, <4>5, RanksFacts DEF Sound, There
      <4>7. ~There(r)'
        BY <2>1, <4>6 DEF There
      <4> QED
        BY <1>3, <4>1, <4>6, <4>7 DEF Allowed, Visible
    <3>3. CASE run' # Reaped(r, "over") \/ ~Sound(r)'
      <4>1. Phase(r)' = "held"
        BY <1>6, <2>2, <3>3 DEF Phase
      <4> QED
        BY <3>1, <4>1
    <3> QED
      BY <3>2, <3>3
  <2> QED
    BY <1>1, <1>2, <1>3, <1>5, <1>7, <2>3, <2>4, <2>5, StepFrame DEF TypeOK
<1>8. CASE \E names \in SUBSET NamesOf(r) :
             Removed(names) /\ run' = Waited(r) /\ (slips'[r] = {} => names = NamesOf(r))
  <2>1. PICK names \in SUBSET NamesOf(r) :
          Removed(names) /\ run' = Waited(r) /\ (slips'[r] = {} => names = NamesOf(r))
    BY <1>8
  <2>2. names \in SUBSET Names
    BY DEF Names
  <2>3. /\ ctr' \in [Names -> Containers]
        /\ \A q \in Runs : \A k \in Ranks(q) :
             Present(q, k)' <=> Present(q, k) /\ <<q, k>> \notin names
    BY <1>2, <2>1, <2>2, RemovedEffect
  <2>4. \A q \in Runs \ {r} : \A k \in Ranks(q) : <<q, k>> \notin names
    BY NamesFacts
  <2>5. OthersSame(r) /\ run' \in [Runs -> Rows] /\ run'[r].st = "over" /\ run'[r].reap
    BY <1>5, <1>6, <2>1, <2>3, <2>4 DEF OthersSame, Same
  <2>6. GangOK(r)'
    BY <1>1, <2>1, <2>3, RanksFacts DEF GangOK, There, Launching
  <2>7. Allowed(r)
    BY <1>3, <2>5 DEF Allowed, Phase
  <2> QED
    BY <1>1, <1>3, <1>5, <2>3, <2>5, <2>6, <2>7, StepFrame
<1>9. ctr' = ctr \/ \E names \in SUBSET NamesOf(r) :
        Removed(names) /\ run' = Waited(r) /\ (slips'[r] = {} => names = NamesOf(r))
  <2>1. \A kind \in Kinds : Slip(r, kind) => slips'[r] # {}
    BY <1>2, SlipEffect
  <2> QED
    BY <2>1 DEF reap, Kinds
<1> QED
  BY <1>7, <1>8, <1>9

\* What goes on on the hosts starts and removes nothing.
LEMMA WorldKeeps ==
  ASSUME DInv, run' = run, turn' = turn, slips' = slips, ctr' \in [Names -> Containers],
         \A n \in Names : ctr'[n].at = "gone" <=> ctr[n].at = "gone"
  PROVE  DInv' /\ Faithful
<1>1. \A q \in Runs : Same(q)
  BY RanksFacts DEF Same, Present
<1>2. TypeOK' /\ TurnOK'
  BY DEF DInv, TypeOK, TurnOK, Ranks
<1>3. GangWhole'
  BY <1>1, GangSame DEF GangWhole
<1> QED
  BY <1>1, <1>2, <1>3 DEF DInv, Faithful

\* Every step keeps the invariant and is one the contract allows.
LEMMA StepKeeps ==
  ASSUME DInv, [Next]_vars
  PROVE  DInv' /\ Faithful
<1>1. TypeOK
  BY DEF DInv
<1>2. ASSUME NEW n \in Names, Load(n) \/ Die(n)
      PROVE  DInv' /\ Faithful
  <2>1. run' = run /\ turn' = turn /\ slips' = slips /\ ctr[n].at = "running"
    BY <1>2 DEF Load, Die, Fine, Running
  <2>2. PICK c \in Containers : c.at # "gone" /\ ctr' = [ctr EXCEPT ![n] = c]
    <3>1. Exited \in Containers /\ Exited.at = "exited"
      BY DEF Exited, Containers
    <3>2. [ctr[n] EXCEPT !.bound = TRUE] \in Containers
          /\ [ctr[n] EXCEPT !.bound = TRUE].at = "running"
      BY <1>1, <2>1 DEF TypeOK, Containers
    <3> QED
      BY <1>2, <3>1, <3>2 DEF Load, Die
  <2>3. ctr' \in [Names -> Containers]
    BY <1>1, <2>2 DEF TypeOK
  <2>4. \A m \in Names : ctr'[m].at = "gone" <=> ctr[m].at = "gone"
    BY <1>1, <2>1, <2>2 DEF TypeOK
  <2> QED
    BY <2>1, <2>3, <2>4, WorldKeeps
<1>3. CASE (\E h \in Hosts : MemoryFreed(h) \/ PullEnds(h) \/ \E p \in Ports : Intrude(h, p))
           \/ UNCHANGED vars
  <2>1. run' = run /\ turn' = turn /\ slips' = slips /\ ctr' = ctr
    BY <1>3 DEF MemoryFreed, PullEnds, Intrude, Fine, vars
  <2> QED
    BY <1>1, <2>1, WorldKeeps DEF TypeOK
<1>4. ASSUME NEW r \in Runs, advance(r) \/ Finish(r)
      PROVE  DInv' /\ Faithful
  <2>1. turn.at = "idle" /\ turn' = turn /\ run[r].st \in {"pending", "launching", "serving"}
    BY <1>4 DEF advance, Finish, Idle, Live
  <2>2. CASE begin_teardown(r)
    BY <2>1, <2>2, TeardownKeeps
  <2>3. CASE /\ slips' = slips /\ ctr' = ctr /\ run[r].st = "launching"
             /\ run' = [run EXCEPT ![r].st = "serving"]
    <3>1. /\ run' \in [Runs -> Rows] /\ run'[r].st = "serving"
          /\ \A q \in Runs \ {r} : run'[q] = run[q]
      BY <1>1, <2>3 DEF TypeOK, Rows, Statuses
    <3>2. OthersSame(r) /\ Allowed(r)
      BY <2>3, <3>1 DEF OthersSame, Same, Present, Allowed, Phase
    <3>3. TurnOK' /\ GangOK(r)'
      <4>1. GangOK(r) /\ TurnOK'
        BY <2>1 DEF DInv, GangWhole, TurnOK
      <4> QED
        BY <2>1, <2>3, <3>1, <4>1 DEF GangOK, Launching, There, Present, Before
    <3> QED
      BY <1>1, <2>1, <2>3, <3>1, <3>2, <3>3, StepFrame DEF TypeOK
  <2> QED
    BY <1>4, <2>2, <2>3 DEF advance, Finish, Fine
<1>5. CASE fail
  <2>1. turn.at = "fail" /\ turn' = NoTurn /\ begin_teardown(R)
    BY <1>5 DEF fail, At
  <2>2. PICK r \in Runs : turn.run = r /\ r = R
    BY <2>1, TurnNamed
  <2>3. begin_teardown(r)
    BY <2>1, <2>2
  <2> QED
    BY <2>1, <2>2, <2>3, TeardownKeeps
<1>6. CASE check_port_free \/ gpus_in_use \/ remove_stale \/ ensure_image \/ docker_run
           \/ wait_rendezvous \/ NextRank \/ cleanup \/ Commit \/ LoseTick
  BY <1>6, LooksKeep, RemoveStaleKeeps, DockerRunKeeps, NextRankKeeps, CleanupKeeps, CommitKeeps,
     LoseTickKeeps
<1> QED
  BY <1>2, <1>3, <1>4, <1>5, <1>6, CreateKeeps, LaunchNodesKeeps, ReapKeeps DEF Next

(***************************************************************************)
(* The refinement.                                                         *)
(***************************************************************************)
AbsPhase == [r \in Runs |-> Phase(r)]
AbsThere == {r \in Runs : Sound(r) /\ \E n \in NamesOf(r) : ctr[n].at # "gone"}

\* The runs the contract sees containers of.
LEMMA ThereIsVisible ==
  AbsThere = {r \in Runs : Visible(r)}
  BY DEF AbsThere, Visible, There, Present, NamesOf

\* A step the contract allows of one run is a step of the contract, or none.
LEMMA FaithfulIsContract ==
  ASSUME Faithful
  PROVE  [Contract!Next]_(Contract!cvars)
<1>1. AbsThere = {r \in Runs : Visible(r)} /\ AbsThere' = {r \in Runs : Visible(r)'}
  <2>1. \A r \in Runs : (\E n \in NamesOf(r) : ctr'[n].at # "gone") <=> There(r)'
    BY DEF There, Present, NamesOf
  <2>2. AbsThere' = {r \in Runs : Sound(r)' /\ \E n \in NamesOf(r) : ctr'[n].at # "gone"}
    BY DEF AbsThere, NamesOf, Ranks
  <2>3. \A r \in Runs : Visible(r)' <=> Sound(r)' /\ There(r)'
    BY DEF Visible
  <2> QED
    BY <2>1, <2>2, <2>3, ThereIsVisible
<1>2. AbsPhase' = [r \in Runs |-> Phase(r)']
  BY DEF AbsPhase
<1>3. CASE \A q \in Runs : Same(q)
  <2>1. \A q \in Runs : Phase(q)' = Phase(q) /\ (Visible(q)' <=> Visible(q))
    BY <1>3, SameLooks
  <2>2. AbsPhase' = AbsPhase /\ AbsThere' = AbsThere
    BY <1>1, <1>2, <2>1 DEF AbsPhase
  <2> QED
    BY <2>2 DEF AbsPhase, AbsThere, Contract!cvars
<1>4. ASSUME NEW r \in Runs, OthersSame(r), Allowed(r)
      PROVE  [Contract!Next]_(Contract!cvars)
  <2>1. \A q \in Runs \ {r} : Phase(q)' = Phase(q) /\ (Visible(q)' <=> Visible(q))
    BY <1>4, SameLooks DEF OthersSame
  <2>2. CASE Phase(r)' = Phase(r) /\ (Visible(r)' <=> Visible(r))
    <3>1. AbsPhase' = AbsPhase /\ AbsThere' = AbsThere
      BY <1>1, <1>2, <2>1, <2>2 DEF AbsPhase
    <3> QED
      BY <3>1 DEF AbsPhase, AbsThere, Contract!cvars
  <2>3. CASE Phase(r)' = Phase(r) /\ ~Visible(r)'
    <3>1. AbsPhase' = AbsPhase /\ AbsThere' = AbsThere \ {r}
      BY <1>1, <1>2, <2>1, <2>3 DEF AbsPhase
    <3>2. Contract!Vanish(r)
      BY <3>1 DEF AbsPhase, AbsThere, Contract!Vanish
    <3> QED
      BY <3>2 DEF Contract!Next
  <2>4. CASE Phase(r) = "held" /\ Phase(r)' = "held" /\ Visible(r)'
    <3>1. AbsPhase' = AbsPhase /\ AbsThere' = AbsThere \cup {r} /\ AbsPhase[r] = "held"
      BY <1>1, <1>2, <2>1, <2>4 DEF AbsPhase
    <3>2. Contract!Appear(r)
      BY <3>1 DEF AbsPhase, AbsThere, Contract!Appear
    <3> QED
      BY <3>2 DEF Contract!Next
  <2>5. CASE Phase(r) = "new" /\ Phase(r)' = "held" /\ (Visible(r)' <=> Visible(r))
    <3>1. /\ AbsPhase' = [AbsPhase EXCEPT ![r] = "held"] /\ AbsThere' = AbsThere
          /\ AbsPhase[r] = "new"
      BY <1>1, <1>2, <2>1, <2>5 DEF AbsPhase
    <3>2. Contract!Hold(r)
      BY <3>1 DEF AbsPhase, AbsThere, Contract!Hold
    <3> QED
      BY <3>2 DEF Contract!Next
  <2>6. CASE Phase(r) = "held" /\ Phase(r)' = "released" /\ ~Visible(r) /\ ~Visible(r)'
    <3>1. /\ AbsPhase' = [AbsPhase EXCEPT ![r] = "released"] /\ AbsThere' = AbsThere
          /\ AbsPhase[r] = "held" /\ r \notin AbsThere
      BY <1>1, <1>2, <2>1, <2>6 DEF AbsPhase
    <3>2. Contract!Release(r)
      BY <3>1 DEF AbsPhase, AbsThere, Contract!Release
    <3> QED
      BY <3>2 DEF Contract!Next
  <2> QED
    BY <1>4, <2>2, <2>3, <2>4, <2>5, <2>6 DEF Allowed
<1> QED
  BY <1>3, <1>4 DEF Faithful

\* The invariant holds at the start, and the start is the contract's.
LEMMA InitKeeps ==
  ASSUME Init
  PROVE  DInv /\ Contract!Init
<1>1. PICK some \in Asked : run = [r \in Runs |-> IF r \in some THEN NoRun ELSE NotAsked]
  BY DEF Init
<1>2. ctr = [n \in Names |-> NoContainer] /\ turn = NoTurn /\ slips = [r \in Runs |-> {}]
  BY DEF Init
<1>3. NoRun \in Rows /\ NotAsked \in Rows /\ NoRun.st = "none" /\ NotAsked.st = "unasked"
  BY DEF NoRun, NotAsked, Rows, Statuses
<1>4. NoContainer \in Containers /\ NoContainer.at = "gone"
  BY DEF NoContainer, Containers
<1>5. TypeOK /\ TurnOK
  BY <1>1, <1>2, <1>3, <1>4, NoTurnOK DEF TypeOK, TurnOK
<1>6. \A r \in Runs : ~There(r)
  BY <1>2, <1>4, RanksFacts DEF There, Present
<1>7. GangWhole
  BY <1>2, <1>6, NoTurnOK DEF GangWhole, GangOK, Launching
<1>8. \A r \in Runs : Phase(r) = "new"
  BY <1>1, <1>3 DEF Phase
<1>9. AbsPhase = [r \in Runs |-> "new"] /\ AbsThere = {}
  BY <1>6, <1>8, ThereIsVisible DEF AbsPhase, Visible
<1>10. Contract!Init
  BY <1>9 DEF AbsPhase, AbsThere, Contract!Init
<1> QED
  BY <1>5, <1>7, <1>10 DEF DInv

\* The docker driver implements the contract, for every fleet of hosts, every mix of
\* single runs and gangs and every number of failed commands, lost ticks and foreign
\* ports (_begin_teardown, launch_nodes, _reap_teardowns).
THEOREM DriverKeepsContract == Spec => KeepsContract
<1>1. Init => DInv /\ Contract!Init
  BY InitKeeps
<1>2. DInv /\ [Next]_vars => DInv' /\ [Contract!Next]_(Contract!cvars)
  BY StepKeeps, FaithfulIsContract
<1> QED
  BY <1>1, <1>2, PTL DEF Spec, KeepsContract, Contract!Spec

\* What the supervisor may conclude from the contract.
ReleasedIsEmpty == \A r \in Runs : AbsPhase[r] = "released" => r \notin AbsThere

\* Under the contract no run that was let go has a container, then or later.
LEMMA ContractReleases == KeepsContract => []ReleasedIsEmpty
<1> USE DEF AbsPhase, AbsThere
<1>1. Contract!Init => ReleasedIsEmpty
  BY DEF Contract!Init, ReleasedIsEmpty
<1>2. ReleasedIsEmpty /\ [Contract!Next]_(Contract!cvars) => ReleasedIsEmpty'
  <2> SUFFICES ASSUME ReleasedIsEmpty, [Contract!Next]_(Contract!cvars) PROVE ReleasedIsEmpty'
    OBVIOUS
  <2>1. CASE UNCHANGED Contract!cvars
    BY <2>1 DEF Contract!cvars, ReleasedIsEmpty
  <2>2. ASSUME NEW r \in Runs,
               Contract!Hold(r) \/ Contract!Appear(r) \/ Contract!Vanish(r) \/ Contract!Release(r)
        PROVE  ReleasedIsEmpty'
    BY <2>2 DEF Contract!Hold, Contract!Appear, Contract!Vanish, Contract!Release, ReleasedIsEmpty
  <2> QED
    BY <2>1, <2>2 DEF Contract!Next
<1> QED
  BY <1>1, <1>2, PTL DEF KeepsContract, Contract!Spec

\* A run whose row says it is over and torn down, none of whose commands was misread,
\* has no container on any host, of any rank, and never gets one again.
THEOREM OverLeavesNothing ==
  Spec => [](\A r \in Runs :
               run[r].st = "over" /\ ~run[r].reap /\ Sound(r) =>
                 \A n \in NamesOf(r) : ctr[n].at = "gone")
<1>1. ReleasedIsEmpty =>
        \A r \in Runs : run[r].st = "over" /\ ~run[r].reap /\ Sound(r) =>
          \A n \in NamesOf(r) : ctr[n].at = "gone"
  BY DEF ReleasedIsEmpty, AbsPhase, AbsThere, Phase
<1> QED
  BY <1>1, DriverKeepsContract, ContractReleases, PTL
=============================================================================

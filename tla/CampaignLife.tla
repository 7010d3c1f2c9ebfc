---------------------------- MODULE CampaignLife ----------------------------
(***************************************************************************)
(* The life of the campaigns that enumerate their own search space, from    *)
(* the first plan to "done": the nightly clock (orchestrator/schedule.py),  *)
(* the dataset build a campaign is measured on (datasets/pinning.py), the   *)
(* candidates of a space, the machine queue and its tickets                 *)
(* (queue_tickets.py), the window cut-off, and the confirmations and        *)
(* verifications that stand between a screened space and the end.           *)
(*                                                                         *)
(* A tick of the worker is one transaction: Clock starts it, the stages     *)
(* "pins", "plan", "list", "tickets", "queue", "advance" and "windows" follow*)
(* in the order of Supervisor.tick, EnforceWindows ends it, and LoseTick is a*)
(* worker that dies first: the database is as before the tick, LLMBench is  *)
(* not.  A plugin that runs campaigns of its own (control/managed.py) acts  *)
(* before Clock, in the same transaction.  Requests of the API fall between *)
(* two ticks.  A run is live or over here (Fleet has its states, its        *)
(* containers and the leases of its machines); its cards are free when it is*)
(* over.                                                                    *)
(***************************************************************************)
EXTENDS Integers, Sequences, FiniteSets, FiniteSetsExt, SequencesExt

CONSTANTS
  Sites,        \* the situations explored: see SiteOK
  MaxAttempts,  \* MAX_ATTEMPTS_PER_CANDIDATE
  Grace,        \* how long a ticket outlives its last pass, queue_tickets.GRACE
  Day           \* the length of a day, in units of the clock

VARIABLES
  site,     \* the situation, chosen once
  now,      \* the clock
  turn,     \* the tick under way: stage, what is left of it, machines held
  saved,    \* the rows as the tick found them, restored when it is lost
  camp,     \* the campaign rows
  cands,    \* the candidate rows, by id
  runs,     \* the run rows, by id
  ticket,   \* the queue ticket of each campaign
  prof,     \* LLMBench's collection profile: its builds and the current one
  asks      \* what is left of the requests and of the faults, a bound of the model

vars == <<site, now, turn, saved, camp, cands, runs, ticket, prof, asks>>
rows == <<camp, cands, runs, ticket>>

NoTime == -1
NoSchedule == [start |-> 0, end |-> 0, until |-> NoTime]
NoTicket == [arrival |-> NoTime, seen |-> NoTime]
Schedules == [start : Nat, end : Nat, until : Nat \cup {NoTime}]
Profiles == [exists : BOOLEAN, builds : Seq({"running", "ready", "failed"}), current : Nat]

\* cfgs: the width in cards of each point of the space.  need: the time one
\* run of a stage is given.  outs: how a benchmark may end.
SiteOK(s) ==
  /\ s.machines \in Seq(Nat) /\ s.machines # <<>>
  /\ s.horizon \in Nat /\ s.asks \in Nat /\ s.builds \in Nat
  /\ s.schedules \subseteq Schedules /\ s.hours \subseteq Nat \ {0} /\ s.prof \in Profiles
  /\ Len(s.camps) \in Nat /\ DOMAIN s.camps = 1..Len(s.camps)
  /\ \A i \in DOMAIN s.camps :
       LET k == s.camps[i]
       IN  /\ k.st \in {"unborn", "draft", "scheduled", "active", "paused", "done"}
           /\ k.sch \in Schedules /\ k.end \in Nat \cup {NoTime}
           /\ k.need \in Nat /\ k.verify_need \in Nat
           /\ k.outs \subseteq {"measured", "fault", "infra"} /\ k.vals \subseteq Nat
           /\ k.cfgs \in Seq(Nat \ {0})
           /\ {k.share, k.canary, k.profile, k.plugin} \subseteq BOOLEAN
           /\ {k.confirm_top_k, k.verify_top_k} \subseteq Nat /\ k.confirm_repeats \in Nat \ {0}
           /\ k.policy \in {"rebuild_at_start", "use_current"}
ASSUME SitesAssumption == \A s \in Sites : SiteOK(s)
ASSUME BoundsAssumption == MaxAttempts \in Nat /\ Grace \in Nat /\ Day \in Nat \ {0}

\* The members of S by a strict order on them, first to last.
InOrder(S, before) ==
  [n \in 1..Cardinality(S) |->
     CHOOSE x \in S : Cardinality({y \in S : y = x \/ <<y, x>> \in before}) = n]
ById(S) == InOrder(S, {p \in S \X S : p[1] < p[2]})

Camps == DOMAIN site.camps
Machines == DOMAIN site.machines
Spec1(c) == site.camps[c]
Cards(m) == site.machines[m]

-----------------------------------------------------------------------------
(* orchestrator/schedule.py: the nightly window.                            *)

from_campaign(s) == s.start # s.end
crosses_midnight(s) == s.end <= s.start
occurrence(s, d) ==
  <<d * Day + s.start, (IF crosses_midnight(s) THEN d + 1 ELSE d) * Day + s.end>>
candidate_days == LET today == now \div Day IN <<today - 1, today, today + 1>>
Occurrences(s) == [i \in 1..3 |-> occurrence(s, candidate_days[i])]
\* The first occurrence that satisfies the test, unless it starts too late.
FirstOf(s, Test(_)) ==
  LET found == {i \in 1..3 : Test(Occurrences(s)[i])}
      first == Occurrences(s)[Min(found)]
  IN  IF found = {} \/ (s.until # NoTime /\ first[1] > s.until) THEN <<>> ELSE first
current_window(s) == FirstOf(s, LAMBDA w : w[1] <= now /\ now < w[2])
next_window(s) == FirstOf(s, LAMBDA w : w[1] > now)
is_finished(s) == current_window(s) = <<>> /\ next_window(s) = <<>>

\* One campaign through _advance_campaign_schedules.
Advanced(k) ==
  LET held == k.over # NoTime /\ now < k.over
      k1 == IF k.over # NoTime THEN [k EXCEPT !.over = NoTime] ELSE k
      w == current_window(k.sch)
  IN  IF k.st \notin {"scheduled", "active"} \/ held THEN k
      ELSE IF ~from_campaign(k.sch) THEN k1
      ELSE IF w # <<>>
           THEN [k1 EXCEPT !.start = w[1], !.end = w[2], !.st = "active",
                           !.by = IF k.st = "active" THEN @ ELSE "clock"]
      ELSE IF k.st # "active" THEN k1
      ELSE [k1 EXCEPT !.st = IF is_finished(k.sch) THEN "done" ELSE "scheduled",
                      !.by = "clock"]

\* lifecycle.window_allows_run_of: open, with this much still to spare.
window_allows_run_of(c, need) ==
  /\ camp[c].start # NoTime => now >= camp[c].start
  /\ camp[c].end # NoTime => now + need <= camp[c].end

-----------------------------------------------------------------------------
(* Candidates, runs and stages.                                             *)

is_staged(c) == Spec1(c).verify_top_k > 0
stage_of(d) == IF d.kind = "verification" THEN "verify" ELSE "screen"
\* The stage that replays recorded traffic: the last one.
Replays(c, stage) == Spec1(c).profile /\ (stage = "verify" \/ ~is_staged(c))
window_allows_stage(c, stage) ==
  window_allows_run_of(c, IF stage = "verify" THEN Spec1(c).verify_need ELSE Spec1(c).need)

Of(c) == {i \in DOMAIN cands : cands[i].camp = c}
Valid(c) == {i \in Of(c) : cands[i].st = "valid"}
RunsOf(c) == {r \in DOMAIN runs : cands[runs[r].cand].camp = c}
IsLive(r) == runs[r].st = "live"
LiveOn(m) == {r \in DOMAIN runs : IsLive(r) /\ runs[r].machine = m}
CampOf(r) == cands[runs[r].cand].camp

NewCandidate(c, cfg, kind, base, st) ==
  [camp |-> c, cfg |-> cfg, kind |-> kind, base |-> base, st |-> st, created |-> now]

\* A production reference the pipeline launches and measures itself; production
\* runs on one card here.
BaselineCfg == 0
has_baseline_candidate(c, stage) ==
  \E i \in Of(c) : cands[i].base /\ stage_of(cands[i]) = stage
config_cards(i) == IF cands[i].base THEN 1 ELSE Spec1(cands[i].camp).cfgs[cands[i].cfg]

-----------------------------------------------------------------------------
(* datasets/profiles.py and pinning.py.  Build i of the profile is row i.   *)

InFlight == prof.builds # <<>> /\ Last(prof.builds) = "running"
uses_pinning(c) == Spec1(c).profile
is_pinned(c) == camp[c].build # 0
holders(b) == {c \in Camps : uses_pinning(c) /\ camp[c].build = b
                             /\ camp[c].st \notin {"done", "unborn", "deleted"}}
Holding == IF prof.current = 0 THEN {} ELSE holders(prof.current)
decide(c) ==
  CASE prof.current = 0 -> "rebuild"
    [] prof.current # 0 /\ Holding # {} -> "adopt"
    [] OTHER -> IF Spec1(c).policy = "rebuild_at_start" THEN "rebuild" ELSE "take_current"

\* Mutant: a campaign goes on waiting when there is no dataset to come.
waiting_for_a_pin(c) == uses_pinning(c) /\ ~is_pinned(c)
waiting_on_dataset(c) ==
  uses_pinning(c) /\ ~is_pinned(c) /\ camp[c].applied # "unavailable"

Unsettled(c) ==
  camp[c].st = "active" /\ uses_pinning(c) /\ ~is_pinned(c) /\ camp[c].applied = ""

Pinned(c, b, how) == [camp EXCEPT ![c].build = b, ![c].applied = how, ![c].row = 0]
conclude_no_dataset(c) == [camp EXCEPT ![c].applied = "unavailable", ![c].row = 0]
TriggerBuild == [prof EXCEPT !.builds = Append(@, "running")]

\* The first look of a campaign at its profile.
choose_dataset_build(c) ==
  /\ camp[c].row = 0
  /\ \/ ~prof.exists /\ camp' = conclude_no_dataset(c) /\ UNCHANGED prof
     \/ /\ prof.exists /\ decide(c) # "rebuild" /\ UNCHANGED prof
        /\ camp' = Pinned(c, prof.current,
                          IF decide(c) = "adopt" THEN "adopted" ELSE "current")
     \/ /\ prof.exists /\ decide(c) = "rebuild"
        /\ IF InFlight  \* asked for by someone else: wait for that one
           THEN camp' = [camp EXCEPT ![c].row = Len(prof.builds)] /\ UNCHANGED prof
           ELSE /\ prof' = TriggerBuild
                /\ camp' = [camp EXCEPT ![c].row = Len(prof.builds) + 1]

\* A build asked for earlier: still running, published, or refused.
poll_dataset_build(c) ==
  /\ camp[c].row # 0
  /\ UNCHANGED prof
  /\ camp' = CASE prof.builds[camp[c].row] = "running" -> camp
               [] prof.builds[camp[c].row] = "ready" -> Pinned(c, camp[c].row, "rebuilt")
               [] OTHER -> IF prof.exists /\ prof.current # 0
                           THEN Pinned(c, prof.current, "current")
                           ELSE conclude_no_dataset(c)

-----------------------------------------------------------------------------
(* The tick: the clock, the stop requests, the pins, the refresh, the plan. *)

Idle == turn.at = "idle"
Stage(s, todo) == [at |-> s, todo |-> todo, blocked |-> {}, served |-> {}]
Free == Stage("idle", <<>>)
NothingSaved == <<>>

-----------------------------------------------------------------------------
(* control/managed.py: campaigns a plugin runs.  Its step comes before the  *)
(* clock, in the transaction of the tick.                                   *)

Exists(c) == camp[c].st \notin {"unborn", "deleted"}
PluginTurn == turn.at \in {"idle", "plugins"}
check_owner(c) == Spec1(c).plugin
Closing(c) == camp[c].closing /\ Exists(c)
\* stopped: the campaigns the plugin asks to stop with this call.
PluginSteps(c, stopped) ==
  /\ PluginTurn /\ check_owner(c)
  /\ turn' = [Stage("plugins", <<>>) EXCEPT !.served = turn.served \cup stopped]
  /\ saved' = IF Idle THEN rows ELSE saved
  /\ UNCHANGED <<site, now, cands, runs, ticket, prof>>
\* A plugin asks for nothing more of a campaign it is stopping.
PluginAsks(c) == ~camp[c].closing /\ PluginSteps(c, {}) /\ asks > 0 /\ asks' = asks - 1
ByPlugin(k, s) == [k EXCEPT !.st = s, !.by = "plugin"]
HeldOpen(k, hours) ==
  [ByPlugin(k, "active") EXCEPT !.start = now, !.end = now + hours, !.over = now + hours]

\* Held open for so many hours, or left as the API would (0).
create_managed_campaign(c, hours) ==
  /\ camp[c].st = "unborn"
  /\ PluginAsks(c)
  /\ camp' = [camp EXCEPT ![c] =
                IF hours > 0 THEN HeldOpen(@, hours)
                ELSE ByPlugin(@, IF from_campaign(@.sch) THEN "scheduled" ELSE "draft")]
start_managed_campaign(c, hours) ==
  /\ camp[c].st \in {"draft", "scheduled"}
  /\ PluginAsks(c)
  /\ camp' = [camp EXCEPT ![c] = HeldOpen(@, hours)]
extend_managed_campaign(c, until) ==
  /\ camp[c].st = "active"
  /\ PluginAsks(c)
  /\ camp' = [camp EXCEPT ![c].end = until, ![c].over = until]
\* A published build, none for good, or none for now (0).
pin_managed_dataset(c, b, applied) ==
  /\ Exists(c) /\ <<camp[c].build, camp[c].applied>> # <<b, applied>>
  /\ PluginAsks(c)
  /\ camp' = [camp EXCEPT ![c].build = b, ![c].applied = applied, ![c].row = 0]

\* Mutant: only a window that has an end is shut.
ShutIfEnding(k) ==
  [k EXCEPT !.closing = TRUE, !.over = NoTime, !.end = IF @ > now THEN now ELSE @]
Shut(k) ==
  [k EXCEPT !.closing = TRUE, !.over = NoTime, !.end = IF @ = NoTime \/ @ > now THEN now ELSE @]
\* The plugin calls it at every tick until the campaign is done.
stop_managed_campaign(c) ==
  /\ Exists(c) /\ c \notin turn.served
  /\ PluginSteps(c, {c})
  /\ IF camp[c].closing THEN UNCHANGED asks ELSE asks > 0 /\ asks' = asks - 1
  /\ camp' = [camp EXCEPT ![c] =
                IF @.st = "done" THEN [@ EXCEPT !.closing = FALSE]
                ELSE IF \E r \in RunsOf(c) : IsLive(r) THEN Shut(@)
                ELSE [ByPlugin(Shut(@), "done") EXCEPT !.closing = FALSE]]

ManagedSteps ==
  \E c \in Camps :
    \/ \E h \in site.hours \cup {0} : create_managed_campaign(c, h)
    \/ \E h \in site.hours : start_managed_campaign(c, h) \/ extend_managed_campaign(c, now + h)
    \/ \E b \in 1..Len(prof.builds) : prof.builds[b] = "ready" /\ pin_managed_dataset(c, b, "adopted")
    \/ \E a \in {"", "unavailable"} : pin_managed_dataset(c, 0, a)
    \/ stop_managed_campaign(c)

\* _process_stop_requests: stopped with its campaign, a config is queued again.
Stopped(r) == [r EXCEPT !.st = "killed", !.out = "none", !.released = TRUE, !.stop = FALSE]
StopRequests ==
  /\ runs' = [r \in DOMAIN runs |-> IF IsLive(r) /\ runs[r].stop THEN Stopped(runs[r]) ELSE runs[r]]
  /\ cands' = [i \in DOMAIN cands |->
                 IF \E r \in DOMAIN runs : runs[r].cand = i /\ IsLive(r) /\ runs[r].stop
                 THEN [cands[i] EXCEPT !.st = "valid"] ELSE cands[i]]

Clock ==
  /\ PluginTurn /\ \A c \in Camps : Closing(c) => c \in turn.served
  /\ saved' = IF Idle THEN rows ELSE saved
  /\ camp' = [c \in Camps |-> Advanced(camp[c])]
  /\ StopRequests
  /\ turn' = Stage("pins", ById({c \in Camps : camp'[c].st = "active"}))
  /\ UNCHANGED <<site, now, ticket, prof, asks>>

\* _advance_dataset_pins, one campaign; LLMBench may be away for any of them.
PinStep ==
  /\ turn.at = "pins" /\ turn.todo # <<>>
  /\ LET c == Head(turn.todo)
     IN  IF Unsettled(c) THEN choose_dataset_build(c) \/ poll_dataset_build(c)
                         ELSE UNCHANGED <<camp, prof>>
  /\ turn' = [turn EXCEPT !.todo = Tail(@)]
  /\ UNCHANGED <<site, now, saved, cands, runs, ticket, asks>>
LLMBenchAway ==
  /\ turn.at = "pins" /\ turn.todo # <<>> /\ Unsettled(Head(turn.todo))
  /\ asks > 0 /\ asks' = asks - 1
  /\ turn' = [turn EXCEPT !.todo = Tail(@)]
  /\ UNCHANGED <<site, now, saved, camp, cands, runs, ticket, prof>>

\* _refresh_datasets: a sample that is due, and whose build nobody holds.
refresh_datasets ==
  /\ turn.at = "pins" /\ turn.todo = <<>>
  /\ \/ UNCHANGED prof
     \/ /\ prof.exists /\ ~InFlight /\ Holding = {} /\ Len(prof.builds) < site.builds
        /\ prof' = TriggerBuild
  /\ turn' = Stage("plan", <<>>)
  /\ UNCHANGED <<site, now, saved, camp, cands, runs, ticket, asks>>

\* The cards one candidate may ask for and still be placed.
validation_gpu_count == Max({0} \cup {Cards(m) : m \in Machines})
validate_config(c, i) == validation_gpu_count > 0 => Spec1(c).cfgs[i] <= validation_gpu_count
\* _plan: every point that is not a candidate yet, in order of the space.
Planned(c) ==
  IF camp[c].st # "active" THEN <<>>
  ELSE LET new == {i \in DOMAIN Spec1(c).cfgs : ~\E j \in Of(c) : cands[j].cfg = i}
       IN  [n \in 1..Cardinality(new) |->
              LET i == ById(new)[n]
              IN  NewCandidate(c, i, "search", FALSE,
                               IF validate_config(c, i) THEN "valid" ELSE "invalid")]
Plan ==
  /\ turn.at = "plan"
  /\ cands' = cands \o FlattenSeq([c \in Camps |-> Planned(c)])
  /\ turn' = Stage("list", <<>>)
  /\ UNCHANGED <<site, now, saved, camp, runs, ticket, prof, asks>>

-----------------------------------------------------------------------------
(* The machine queue: machine_queue.py, queue_tickets.py, _schedule.        *)

\* When the campaign began to wait: its last start, its first waiting
\* candidate or its window, whichever came last.
waiting_since(c) ==
  LET started == {runs[r].started : r \in RunsOf(c)}
      ready == {cands[i].created : i \in Valid(c)}
      moments == (IF started = {} THEN {} ELSE {Max(started)})
                 \cup (IF ready = {} THEN {} ELSE {Min(ready)})
                 \cup ({camp[c].start} \ {NoTime})
  IN  IF moments = {} THEN now ELSE Max(moments)

Listed(c) ==
  /\ camp[c].st = "active"
  /\ window_allows_stage(c, "screen")
  /\ is_staged(c) \/ ~waiting_on_dataset(c)
NeedsBaseline(c) == Spec1(c).canary /\ ~has_baseline_candidate(c, "screen")
\* The waiters, each with its ticket, oldest first.
Take(c) ==
  IF ticket[c] = NoTicket THEN [arrival |-> waiting_since(c), seen |-> now]
                          ELSE [ticket[c] EXCEPT !.seen = now]
Before(t, c, d) ==
  t[c].arrival < t[d].arrival \/ (t[c].arrival = t[d].arrival /\ c < d)
ByTicket(t, S) == InOrder(S, {p \in S \X S : Before(t, p[1], p[2])})

\* _ensure_relaunch_baseline for each campaign that may start runs.
EnsureBaselines ==
  /\ turn.at = "list"
  /\ LET lacking == ById({c \in Camps : Listed(c) /\ NeedsBaseline(c)})
     IN  cands' = cands \o [n \in DOMAIN lacking |->
                     NewCandidate(lacking[n], BaselineCfg, "search", TRUE, "valid")]
  /\ turn' = Stage("tickets", <<>>)
  /\ UNCHANGED <<site, now, saved, camp, runs, ticket, prof, asks>>
TakeTickets ==
  /\ turn.at = "tickets"
  /\ ticket' = [c \in Camps |-> IF Listed(c) THEN Take(c) ELSE ticket[c]]
  /\ turn' = Stage("queue", ByTicket(ticket', {c \in Camps : Listed(c)}))
  /\ UNCHANGED <<site, now, saved, camp, cands, runs, prof, asks>>

\* packing.choose_next and _start_one: the widest that fits, on the first
\* machine that takes it.  A machine without cards hosts one run.
Pending(c) == {i \in Valid(c) : window_allows_stage(c, stage_of(cands[i]))}
may_share(c, m) == LiveOn(m) = {} \/ (Spec1(c).share /\ \A r \in LiveOn(m) : Spec1(CampOf(r)).share)
FreeCards(m) == Cards(m) - MapThenSumSet(LAMBDA r : runs[r].width, LiveOn(m))
Fitting(c, n) == {i \in Pending(c) : config_cards(i) <= n}
FitsNow(c, m) ==
  IF Cards(m) = 0 THEN (IF LiveOn(m) = {} THEN Pending(c) ELSE {})
  ELSE Fitting(c, FreeCards(m))
FitsEmpty(c, m) == IF Cards(m) = 0 THEN Pending(c) ELSE Fitting(c, Cards(m))
choose_next(c, m) ==
  IF Cards(m) = 0 THEN Min(FitsNow(c, m))
  ELSE LET widest == Max({config_cards(i) : i \in FitsNow(c, m)})
       IN  Min({i \in FitsNow(c, m) : config_cards(i) = widest})
Takes(c, m) == m \notin turn.blocked /\ may_share(c, m) /\ FitsNow(c, m) # {}
\* Mutant: only a machine that is full counts as waited for.
BusyWhenFull(c) ==
  {m \in Machines : may_share(c, m) /\ FitsNow(c, m) = {} /\ FitsEmpty(c, m) # {}}
\* A machine the waiter could use and cannot have yet.
Busy(c) ==
  {m \in Machines : \/ m \in turn.blocked \/ ~may_share(c, m)
                    \/ FitsNow(c, m) = {} /\ FitsEmpty(c, m) # {}}

create_run(c, m, i) ==
  /\ runs' = Append(runs, [cand |-> i, machine |-> m,
                           width |-> IF Cards(m) = 0 THEN 0 ELSE config_cards(i),
                           st |-> "live", started |-> now, out |-> "none", val |-> 0,
                           stop |-> FALSE, released |-> FALSE, build |-> 0])
  /\ cands' = [cands EXCEPT ![i].st = "exhausted"]

-----------------------------------------------------------------------------
(* The end of a campaign: _maybe_finish_campaign and the two stages.        *)

\* The screening runs of one configuration, and the feasible values of those
\* that were measured.
Group(c, g) ==
  {r \in RunsOf(c) : LET d == cands[runs[r].cand]
                     IN  d.cfg = g /\ ~d.base /\ stage_of(d) = "screen"}
Measured(c, g) == {r \in Group(c, g) : runs[r].st = "succeeded" /\ runs[r].val # 0}
Total(c, g) == SumFunction([r \in Measured(c, g) |-> runs[r].val])
\* On the mean of what there is, ties in order of the first run.
Better(c, g, h) ==
  LET a == Total(c, g) * Cardinality(Measured(c, h))
      b == Total(c, h) * Cardinality(Measured(c, g))
  IN  a > b \/ (a = b /\ Min(Group(c, g)) < Min(Group(c, h)))
Ranked(c, S) == InOrder(S, {p \in S \X S : Better(c, p[1], p[2])})
ranked_screen_configs(c) == Ranked(c, {g \in DOMAIN Spec1(c).cfgs : Measured(c, g) # {}})
Top(c, k) == LET ranked == ranked_screen_configs(c) IN SubSeq(ranked, 1, IF k < Len(ranked) THEN k ELSE Len(ranked))

\* Mutant: only the measurements that came off count.
MissingMeasured(c, g) == Spec1(c).confirm_repeats - Cardinality(Measured(c, g))
\* Every attempt counts, not just the successful ones.
Missing(c, g) == Spec1(c).confirm_repeats - Cardinality(Group(c, g))
Confirmations(c) ==
  FlattenSeq([n \in DOMAIN Top(c, Spec1(c).confirm_top_k) |->
    LET g == Top(c, Spec1(c).confirm_top_k)[n]
    IN  [i \in 1..(IF Missing(c, g) > 0 THEN Missing(c, g) ELSE 0) |->
           NewCandidate(c, g, "confirmation", FALSE, "valid")]])

\* One verification per config, ever, and the production reference with them.
Unverified(c, g) == ~\E i \in Of(c) : cands[i].cfg = g /\ cands[i].kind = "verification"
\* Mutant: only the best one is verified.
VerifyWinner(c) ==
  LET top == Top(c, 1)
      new == Ranked(c, {g \in ToSet(top) : Unverified(c, g)})
  IN  IF ~is_staged(c) \/ top = <<>> THEN <<>>
      ELSE [n \in DOMAIN new |-> NewCandidate(c, new[n], "verification", FALSE, "valid")]
Verifications(c) ==
  LET top == Top(c, Spec1(c).verify_top_k)
      new == Ranked(c, {g \in ToSet(top) : Unverified(c, g)})
  IN  IF ~is_staged(c) \/ top = <<>> THEN <<>>
      ELSE [n \in DOMAIN new |-> NewCandidate(c, new[n], "verification", FALSE, "valid")]
           \o (IF Spec1(c).canary /\ ~has_baseline_candidate(c, "verify")
               THEN <<NewCandidate(c, BaselineCfg, "verification", TRUE, "valid")>>
               ELSE <<>>)

not_planned_yet(c) == Spec1(c).cfgs # <<>> /\ Of(c) = {}
maybe_finish_campaign(c) ==
  IF Valid(c) # {} \/ (\E r \in RunsOf(c) : IsLive(r)) \/ not_planned_yet(c)
  THEN UNCHANGED <<camp, cands>>
  ELSE IF Confirmations(c) # <<>>
  THEN cands' = cands \o Confirmations(c) /\ UNCHANGED camp
  ELSE IF waiting_on_dataset(c) THEN UNCHANGED <<camp, cands>>
  ELSE IF Verifications(c) # <<>>
  THEN cands' = cands \o Verifications(c) /\ UNCHANGED camp
  ELSE camp' = [camp EXCEPT ![c].st = "done", ![c].by = "worker"] /\ UNCHANGED cands

-----------------------------------------------------------------------------
(* One turn of the queue.                                                   *)

NextInLine == Head(turn.todo)
InQueue == turn.at = "queue" /\ turn.todo # <<>>

\* Nothing to place: the campaign may be over.
NothingPending ==
  /\ InQueue /\ Pending(NextInLine) = {}
  /\ maybe_finish_campaign(NextInLine)
  /\ turn' = [turn EXCEPT !.todo = Tail(@)]
  /\ UNCHANGED <<site, now, saved, runs, ticket, prof, asks>>

\* Placed: the ticket is given up, and a campaign with more asks again at the
\* end of this pass.
Admit ==
  /\ InQueue /\ Pending(NextInLine) # {}
  /\ LET c == NextInLine
         able == {m \in Machines : Takes(c, m)}
     IN  /\ able # {}
         /\ create_run(c, Min(able), choose_next(c, Min(able)))
         /\ turn' = [turn EXCEPT !.todo = Append(Tail(@), c), !.served = @ \cup {c}]
         /\ ticket' = [ticket EXCEPT ![c] = NoTicket]
  /\ UNCHANGED <<site, now, saved, camp, prof, asks>>

\* Not placed: every machine it could use is held against the later tickets.
HoldMachines ==
  /\ InQueue /\ Pending(NextInLine) # {}
  /\ \A m \in Machines : ~Takes(NextInLine, m)
  /\ turn' = [turn EXCEPT !.todo = Tail(@), !.blocked = @ \cup Busy(NextInLine)]
  /\ UNCHANGED <<site, now, saved, camp, cands, runs, ticket, prof, asks>>

\* The queue is through: tickets not seen for Grace are let go.
Sweep ==
  /\ turn.at = "queue" /\ turn.todo = <<>>
  /\ ticket' = [c \in Camps |-> IF ticket[c].seen < now - Grace THEN NoTicket ELSE ticket[c]]
  /\ turn' = Stage("advance", <<>>)
  /\ UNCHANGED <<site, now, saved, camp, cands, runs, prof, asks>>

-----------------------------------------------------------------------------
(* _advance_runs, as far as the campaign sees it, and the window cut-off.   *)

Attempts(i) == Cardinality({r \in DOMAIN runs : runs[r].cand = i /\ ~runs[r].released})
Ended(r) == IsLive(r) /\ runs[r].out # "none"
Harvested(r) ==
  [r EXCEPT !.st = IF r.out = "measured" THEN "succeeded" ELSE "failed"]
\* A failure that was not the config's fault gives it its slot back.
Requeued(i) ==
  /\ \E r \in DOMAIN runs : runs[r].cand = i /\ Ended(r) /\ runs[r].out = "infra"
  /\ Attempts(i) < MaxAttempts
AdvanceRuns ==
  /\ turn.at = "advance"
  /\ runs' = [r \in DOMAIN runs |-> IF Ended(r) THEN Harvested(runs[r]) ELSE runs[r]]
  /\ cands' = [i \in DOMAIN cands |->
                 IF Requeued(i) THEN [cands[i] EXCEPT !.st = "valid"] ELSE cands[i]]
  /\ turn' = Stage("windows", <<>>)
  /\ UNCHANGED <<site, now, saved, camp, ticket, prof, asks>>

Overdue(r) == IsLive(r) /\ camp[CampOf(r)].end # NoTime /\ now >= camp[CampOf(r)].end
CutOff(r) == [r EXCEPT !.st = "killed", !.out = "none", !.stop = FALSE]
EnforceWindows ==
  /\ turn.at = "windows"
  /\ runs' = [r \in DOMAIN runs |-> IF Overdue(r) THEN CutOff(runs[r]) ELSE runs[r]]
  /\ turn' = Free /\ saved' = NothingSaved
  /\ UNCHANGED <<site, now, camp, cands, ticket, prof, asks>>

\* The worker dies, or a step raises, before the commit.
LoseTick ==
  /\ ~Idle /\ asks > 0
  /\ asks' = asks - 1
  /\ camp' = saved[1] /\ cands' = saved[2] /\ runs' = saved[3] /\ ticket' = saved[4]
  /\ turn' = Free /\ saved' = NothingSaved
  /\ UNCHANGED <<site, now, prof>>

-----------------------------------------------------------------------------
(* What goes on outside: the clock, the benchmarks and LLMBench's builds.   *)

TimePasses ==
  /\ Idle /\ now < site.horizon
  /\ now' = now + 1
  /\ UNCHANGED <<site, turn, saved, camp, cands, runs, ticket, prof, asks>>

\* outs: "measured" with a value, 0 for a breach of a redline; "fault", the
\* config's own failure; "infra", a failure of what it ran on.  The benchmark
\* replays what the profile points at.
BenchmarkEnds(r) ==
  /\ Idle /\ IsLive(r) /\ runs[r].out = "none"
  /\ \E o \in Spec1(CampOf(r)).outs :
       \E v \in IF o = "measured" THEN Spec1(CampOf(r)).vals ELSE {0} :
         runs' = [runs EXCEPT ![r].out = o, ![r].val = v,
                    ![r].build = IF Replays(CampOf(r), stage_of(cands[runs[r].cand]))
                                 THEN prof.current ELSE 0]
  /\ UNCHANGED <<site, now, turn, saved, camp, cands, ticket, prof, asks>>

BuildEnds ==
  /\ Idle /\ InFlight
  /\ \/ prof' = [prof EXCEPT !.builds[Len(prof.builds)] = "ready", !.current = Len(prof.builds)]
     \/ prof' = [prof EXCEPT !.builds[Len(prof.builds)] = "failed"]
  /\ UNCHANGED <<site, now, turn, saved, camp, cands, runs, ticket, asks>>

-----------------------------------------------------------------------------
(* The requests of api/campaigns.py and api/datasets.py.                    *)

Ask == Idle /\ asks > 0 /\ asks' = asks - 1
ByHand(k, s) == [k EXCEPT !.st = s, !.by = "person"]
Untouched == <<site, now, turn, saved>>

create_campaign(c) ==
  /\ Ask /\ camp[c].st = "unborn" /\ ~Spec1(c).plugin
  /\ camp' = [camp EXCEPT ![c] = ByHand(@, IF from_campaign(@.sch) THEN "scheduled" ELSE "draft")]
  /\ UNCHANGED <<Untouched, cands, runs, ticket, prof>>

set_campaign_status(c, s) ==
  /\ Ask /\ Exists(c)
  /\ s = "done" => camp[c].st # "active" /\ ~\E r \in RunsOf(c) : IsLive(r)
  /\ s = "scheduled" => from_campaign(camp[c].sch)
  /\ camp' = [camp EXCEPT ![c] = ByHand(@, s)]
  /\ UNCHANGED <<Untouched, cands, runs, ticket, prof>>

\* Refused once it ran; its candidates and its ticket go with it.
delete_campaign(c) ==
  /\ Ask /\ Exists(c) /\ RunsOf(c) = {}
  /\ camp' = [camp EXCEPT ![c] = ByHand(@, "deleted")]
  /\ cands' = [i \in DOMAIN cands |-> IF i \in Of(c) THEN [cands[i] EXCEPT !.st = "deleted"] ELSE cands[i]]
  /\ ticket' = [ticket EXCEPT ![c] = NoTicket]
  /\ UNCHANGED <<Untouched, runs, prof>>

set_schedule(c, s) ==
  /\ Ask /\ Exists(c)
  /\ LET k == [camp[c] EXCEPT !.sch = s]
     IN  camp' = [camp EXCEPT ![c] =
           IF from_campaign(s) /\ k.st = "draft" THEN ByHand(k, "scheduled")
           ELSE IF ~from_campaign(s) /\ k.st = "scheduled" THEN ByHand(k, "paused") ELSE k]
  /\ UNCHANGED <<Untouched, cands, runs, ticket, prof>>

force_start(c, hours) ==
  /\ Ask /\ Exists(c)
  /\ camp' = [camp EXCEPT ![c] = [ByHand(@, "active") EXCEPT
                !.over = now + hours, !.start = now, !.end = now + hours]]
  /\ UNCHANGED <<Untouched, cands, runs, ticket, prof>>

force_stop(c) ==
  /\ Ask /\ Exists(c)
  /\ camp' = [camp EXCEPT ![c] =
                [(IF @.st = "done" THEN @ ELSE ByHand(@, "paused")) EXCEPT !.over = NoTime]]
  /\ runs' = [r \in DOMAIN runs |-> IF r \in RunsOf(c) /\ IsLive(r)
                                    THEN [runs[r] EXCEPT !.stop = TRUE] ELSE runs[r]]
  /\ UNCHANGED <<Untouched, cands, ticket, prof>>

Retryable(i) ==
  /\ cands[i].st = "exhausted" /\ ~cands[i].base
  /\ \A r \in DOMAIN runs : runs[r].cand = i => runs[r].st \in {"failed", "killed"}
retry_failed(c) ==
  /\ Ask /\ Exists(c)
  /\ LET again == {i \in Of(c) : Retryable(i)}
     IN  /\ cands' = [i \in DOMAIN cands |-> IF i \in again THEN [cands[i] EXCEPT !.st = "valid"] ELSE cands[i]]
         /\ camp' = IF again # {} /\ camp[c].st = "done"
                    THEN [camp EXCEPT ![c] = ByHand(@, "active")] ELSE camp
  /\ UNCHANGED <<Untouched, runs, ticket, prof>>

\* Refused while a campaign is measuring on the current sample, unless forced.
collect(force) ==
  /\ Ask /\ prof.exists /\ ~InFlight /\ Len(prof.builds) < site.builds
  /\ force \/ Holding = {}
  /\ prof' = TriggerBuild
  /\ UNCHANGED <<Untouched, camp, cands, runs, ticket>>
delete_dataset ==
  /\ Ask /\ prof.exists
  /\ \A c \in Camps : uses_pinning(c) /\ Exists(c) => camp[c].st = "done"
  /\ prof' = [prof EXCEPT !.exists = FALSE, !.current = 0]
  /\ UNCHANGED <<Untouched, camp, cands, runs, ticket>>
create_dataset ==
  /\ Ask /\ ~prof.exists /\ Len(prof.builds) < site.builds
  /\ prof' = [TriggerBuild EXCEPT !.exists = TRUE]
  /\ UNCHANGED <<Untouched, camp, cands, runs, ticket>>

Requests ==
  \/ \E c \in Camps :
       \/ create_campaign(c) \/ delete_campaign(c) \/ force_stop(c) \/ retry_failed(c)
       \/ \E s \in {"active", "paused", "scheduled", "done"} : set_campaign_status(c, s)
       \/ \E s \in site.schedules : set_schedule(c, s)
       \/ \E h \in site.hours : force_start(c, h)
  \/ \E f \in BOOLEAN : collect(f)
  \/ delete_dataset \/ create_dataset

-----------------------------------------------------------------------------
InitCamp(k) ==
  [st |-> k.st, by |-> "person", sch |-> k.sch, start |-> NoTime, end |-> k.end,
   over |-> NoTime, closing |-> FALSE, build |-> 0, row |-> 0, applied |-> ""]
Init ==
  /\ site \in Sites
  /\ now = 0 /\ turn = Free /\ saved = NothingSaved
  /\ camp = [c \in Camps |-> InitCamp(site.camps[c])]
  /\ cands = <<>> /\ runs = <<>>
  /\ ticket = [c \in Camps |-> NoTicket]
  /\ prof = site.prof
  /\ asks = site.asks

StopsAgain == \E c \in Camps : camp[c].closing /\ stop_managed_campaign(c)
TickStep ==
  \/ StopsAgain \/ Clock \/ PinStep \/ refresh_datasets \/ Plan \/ EnsureBaselines \/ TakeTickets
  \/ NothingPending \/ Admit \/ HoldMachines \/ Sweep \/ AdvanceRuns \/ EnforceWindows

Next ==
  \/ ManagedSteps \/ Clock \/ PinStep \/ LLMBenchAway \/ refresh_datasets \/ Plan
  \/ EnsureBaselines \/ TakeTickets
  \/ NothingPending \/ Admit \/ HoldMachines \/ Sweep
  \/ AdvanceRuns \/ EnforceWindows \/ LoseTick
  \/ TimePasses \/ (\E r \in DOMAIN runs : BenchmarkEnds(r)) \/ BuildEnds
  \/ Requests

CampIds == UNION {DOMAIN s.camps : s \in Sites}
\* What goes on at LLMBench: benchmarks and builds both have deadlines.
LLMBenchMoves == BuildEnds \/ \E r \in DOMAIN runs : BenchmarkEnds(r)
\* The worker ticks on; what LLMBench does is seen between two ticks only,
\* hence strong fairness (benchmarks and builds are finite in number).
Fairness == WF_vars(TickStep) /\ SF_vars(LLMBenchMoves)
Spec == Init /\ [][Next]_vars /\ Fairness

-----------------------------------------------------------------------------
(* Properties.                                                              *)

\* A campaign the worker calls done has nothing left to do by its own ranking:
\* every point was tried, the best were measured as often as asked, and the
\* best of those stand verified (_maybe_finish_campaign).
DoneIsComplete ==
  \A c \in Camps : camp[c].st = "done" /\ camp[c].by = "worker" =>
    /\ Valid(c) = {} /\ ~\E r \in RunsOf(c) : IsLive(r)
    /\ \A g \in DOMAIN Spec1(c).cfgs : \E i \in Of(c) : cands[i].cfg = g
    /\ \A g \in ToSet(Top(c, Spec1(c).confirm_top_k)) :
         Cardinality(Group(c, g)) >= Spec1(c).confirm_repeats
    /\ \A g \in ToSet(Top(c, Spec1(c).verify_top_k)) :
         \E i \in Of(c) : cands[i].cfg = g /\ cands[i].kind = "verification"

\* However the ranking moves between passes, a configuration is queued for
\* screening at most as often as its measurements are wanted, and for the
\* expensive stage once (_schedule_confirmations, _schedule_verification).
EvidenceBounded ==
  \A c \in Camps : \A g \in DOMAIN Spec1(c).cfgs :
    LET queued(kinds) == Cardinality({i \in Of(c) : cands[i].cfg = g /\ cands[i].kind \in kinds})
    IN  /\ queued({"search", "confirmation"}) <= Spec1(c).confirm_repeats
        /\ queued({"verification"}) <= 1

\* The candidates a pass finds waiting: what _maybe_finish_campaign queues in a
\* turn of the pass waits for the next one, and holds nothing in this one.
Standing == {i \in DOMAIN cands : i \in DOMAIN saved[2] \/ cands[i].kind = "search"}
\* A waiter never sees a later one take a machine it could have used: who has
\* the earlier ticket and was not served in this pass keeps the machine
\* (_schedule, the held machines).
NotOvertaken ==
  [][\A r \in DOMAIN runs' \ DOMAIN runs : \A d \in Camps :
       LET c == cands[runs'[r].cand].camp
       IN  d # c /\ Listed(d) /\ d \notin turn.served
           /\ (c \in turn.served \/ Before(ticket, d, c))
           => FitsEmpty(d, runs'[r].machine) \cap Standing = {}]_vars

Windowless(c) == camp[c].end = NoTime /\ ~from_campaign(camp[c].sch)
\* A campaign under no window comes to its end, or a person intervenes: the
\* retries, the confirmations and the verifications run out, and no waiter is
\* held for ever.
CampaignEnds ==
  \A c \in CampIds :
    (c \in Camps /\ camp[c].st = "active" /\ Windowless(c))
      ~> (c \notin Camps \/ camp[c].st # "active" \/ ~Windowless(c))

Unscheduled(c) == ~from_campaign(Spec1(c).sch) /\ site.schedules = {}
\* A campaign its plugin is stopping holds no machine once the tick is over, and
\* starts nothing again, whoever pressed start in between (stop_managed_campaign);
\* here for campaigns without a nightly schedule, whose clock opens them again.
StoppedHoldsNothing ==
  Idle => \A c \in Camps : Closing(c) /\ Unscheduled(c) => ~\E r \in RunsOf(c) : IsLive(r)

=============================================================================

--------------------------- MODULE PolicySession ---------------------------
(***************************************************************************)
(* One night of a policy campaign: the session row the worker advances     *)
(* (control/orchestrator/policy_session.py), the requests its policy sends *)
(* (api/policy_sessions.py), the runs made for it, the contenders it       *)
(* registers and the machine it holds.                                     *)
(*                                                                         *)
(* The worker is the only writer of the session's status and commits once  *)
(* per tick.  A request of the policy reads the rows, decides, and commits *)
(* later: req is the request between its reads and its commit.  A request  *)
(* is short beside a tick, so at most one tick commits in between, and     *)
(* Straddle names the requests that meet one.  The policy sends its        *)
(* requests one after the other.                                           *)
(*                                                                         *)
(* Clocks are phases: how the time stands to the search deadline, to the   *)
(* last moment a validation still fits, and to the window's end.  A        *)
(* timeout that is not one of these (first heartbeat, silence, idleness,   *)
(* finalize grace, serve budget) may pass at any tick.                     *)
(***************************************************************************)
EXTENDS Integers, FiniteSets, Sequences

CONSTANTS
  Gpus,             \* cards of the machine, numbered from 0
  Configs, Width,   \* configs a policy may ask for, and the cards each uses
  Refused,          \* configs _config_problems finds a problem in
  Foreign,          \* configs with an image the platform cannot launch
  Production,       \* the width of the production config
  OtherCards,       \* cards of the other campaign's run
  Campaigns,        \* the campaigns a night may be of: records of knobs
  Straddle          \* requests a tick may overtake

\* A campaign's knobs, and the bounds on what one of its nights may see.
Knobs ==
  [shares : BOOLEAN,          \* share_machine, of it and of the other tenant
   cards : 1..Gpus,           \* its GPU budget on a shared machine
   recurring : BOOLEAN,       \* it has a schedule: another night follows
   production : BOOLEAN,      \* validate_production
   contenders : Nat \ {0},    \* max_contenders
   strikes : Nat \ {0},       \* search_idle_strikes
   launches : Nat, puts : Nat, upsets : Nat,   \* bounds
   validates : SUBSET (Configs \ Foreign)]     \* configs an operator may ask to validate

ASSUME CardAssumption ==
  /\ Gpus \in Nat \ {0} /\ OtherCards \subseteq 0..(Gpus - 1)
  /\ Width \in [Configs -> 1..Gpus] /\ Production \in 1..Gpus
ASSUME CampaignAssumption == Campaigns \subseteq Knobs
ASSUME ConfigAssumption == Refused \subseteq Configs /\ Foreign \subseteq Configs
ASSUME StraddleAssumption ==
  Straddle \subseteq {"launch", "bench", "external", "contenders", "serving"}

VARIABLES
  knobs,   \* the campaign's settings
  sess,    \* the session row
  box,     \* outside: its container - none, up, exited, gone
  token,   \* the session's key - none, live, closing
  conts,   \* the contender rows, oldest first
  runs,    \* the session's run rows, oldest first
  mach,    \* the machine's state
  other,   \* another campaign's run on the machine - none, live, dying
  camp,    \* the campaign's status
  clock,   \* search, reserve, late, over
  req,     \* the request in flight
  used     \* bounds: launches, puts and disturbances spent

vars == <<knobs, sess, box, token, conts, runs, mach, other, camp, clock, req, used>>

TERMINAL_SESSION_STATES == {"DONE", "FAILED", "ABORTED"}
Started == {"STARTING", "SEARCHING", "FINALIZING", "VALIDATING"}
PENDING_CONTENDER_STATES == {"REGISTERED", "SERVING"}

NoCards == {}
NoRequest == [kind |-> "none"]
NoSession ==
  [status |-> "ABSENT", placed |-> FALSE, cards |-> NoCards, heard |-> "never",
   said |-> "", finalized |-> FALSE, finalizing |-> FALSE, abort |-> FALSE,
   strikes |-> 0, fail |-> FALSE, reason |-> "", serving |-> 0, asked |-> FALSE]
AllCards == 0..(Gpus - 1)

\* Of a set of cards, the n lowest.
First(S, n) == {i \in S : Cardinality({j \in S : j < i}) < n}

\* A finite set in the order of places: its members by the place each is at.
InPlaces(place) ==
  [k \in 1..Cardinality(DOMAIN place) |-> CHOOSE i \in DOMAIN place : place[i] = k]

(***************************************************************************)
(* Runs, as far as a session tells their states apart: not launched yet,   *)
(* serving the policy, being measured, or over.                            *)
(***************************************************************************)
LiveRun(r) == r.st \in {"pending", "serving", "benching"}
Launched(r) == r.kind # "EXTERNAL"
LiveRuns(rs) == {i \in DOMAIN rs : LiveRun(rs[i])}
Dying(rs) == {i \in DOMAIN rs : rs[i].dying}
\* The runs of this session; past is a run of an earlier one.
Own(rs) == {i \in DOMAIN rs : ~rs[i].past}

Run(kind, st, cards, parent, ref) ==
  [kind |-> kind, st |-> st, cards |-> cards, parent |-> parent, ref |-> ref,
   release |-> FALSE, stop |-> FALSE, waits |-> FALSE, dying |-> FALSE, past |-> FALSE]

\* The cards of the machine that a live or dying run of anyone stands on.
BlockedCards(rs) ==
  (UNION {rs[i].cards : i \in LiveRuns(rs) \cup Dying(rs)})
    \cup (IF other = "none" THEN NoCards ELSE OtherCards)

\* _finish: what was never launched leaves nothing to tear down.
Finished(r, st, clean) ==
  [r EXCEPT !.st = st, !.dying = Launched(r) /\ r.st # "pending" /\ ~clean]

\* _stop_benchmarks_of: a benchmark stops with the launch it measures.
StopBenchmarks(rs, launch, st) ==
  [i \in DOMAIN rs |->
     IF rs[i].parent = launch /\ LiveRun(rs[i])
     THEN Finished(rs[i], IF st = "failed" THEN "failed" ELSE "killed", TRUE)
     ELSE rs[i]]

Ended(rs, i, st, clean) ==
  LET ended == [rs EXCEPT ![i] = Finished(@, st, clean)]
  IN  IF rs[i].kind = "POLICY_LAUNCH" THEN StopBenchmarks(ended, i, st) ELSE ended

\* _kill_session_runs
KilledRuns(rs, clean) ==
  [i \in DOMAIN rs |->
     IF i \in Own(rs) /\ LiveRun(rs[i]) THEN Finished(rs[i], "killed", clean) ELSE rs[i]]

\* Mutant: the session on the machine is not asked about.
ReleaseUnderSession(s, rs) ==
  IF mach = "RESERVED" /\ LiveRuns(rs) \cup Dying(rs) = {} /\ other = "none"
  THEN "AVAILABLE" ELSE mach
\* RESERVED to AVAILABLE once nothing holds the machine.
ReleaseIfIdle(s, rs) ==
  IF mach = "RESERVED" /\ LiveRuns(rs) \cup Dying(rs) = {} /\ other = "none"
     /\ (s.status \in Started \cup {"PENDING"} => ~s.placed)
  THEN "AVAILABLE" ELSE mach

(***************************************************************************)
(* The session's own rules.                                                *)
(***************************************************************************)
PastSearch == clock # "search"
Exploring == sess.status \in {"STARTING", "SEARCHING"}
SignalledDone == sess.said \in {"exhausted", "error"}

\* What a heartbeat is answered.
command_for ==
  CASE sess.abort -> "abort"
    [] ~sess.abort /\ sess.status = "VALIDATING" ->
         (IF sess.serving # 0 THEN "serve"
          ELSE IF \E i \in DOMAIN conts : conts[i].st \in PENDING_CONTENDER_STATES
          THEN "run" ELSE "exit")
    [] ~sess.abort /\ sess.status = "FINALIZING" ->
         (IF sess.finalized THEN "exit" ELSE "finalize")
    [] OTHER ->
         (IF sess.finalizing \/ PastSearch \/ SignalledDone THEN "finalize" ELSE "run")

\* _teardown_workload: removing the container may fail; nothing retries it.
Teardown == box' \in IF box = "up" THEN {"gone", "up"} ELSE {IF box = "none" THEN "none" ELSE "gone"}

\* _terminate, on a row and runs the caller has already changed.
Terminate(s, rs, final) ==
  /\ Teardown
  /\ sess' = [s EXCEPT !.status = final]
  /\ token' = IF token = "none" THEN "none" ELSE "closing"
  /\ runs' = rs
  /\ mach' = IF s.placed THEN ReleaseIfIdle([s EXCEPT !.status = final], rs) ELSE mach
  /\ camp' = IF camp = "ACTIVE" /\ (~knobs.recurring \/ s.reason = "policy_exhausted")
             THEN "DONE" ELSE camp

Verdict == IF sess.fail THEN "FAILED" ELSE "DONE"

\* _begin_finalizing
BeginFinalizing(s, reason) ==
  /\ sess' = [s EXCEPT !.finalizing = TRUE, !.status = "FINALIZING",
                       !.reason = IF @ = "" THEN reason ELSE @]
  /\ UNCHANGED <<box, token, conts, runs, mach, camp>>

\* _fail_toward_validation: the failure is noted and what was registered is
\* still measured.
FailTowardValidation(reason) ==
  /\ \E clean \in BOOLEAN : runs' = KilledRuns(runs, clean)
  /\ Teardown
  /\ sess' = [sess EXCEPT !.status = "VALIDATING", !.fail = TRUE,
                          !.reason = IF reason = "" THEN @ ELSE reason]
  /\ UNCHANGED <<token, conts, mach, camp>>

(***************************************************************************)
(* The worker: one tick of the session.                                    *)
(***************************************************************************)
\* One session for a campaign and the start of its window.
EnsureSession ==
  /\ camp = "ACTIVE" /\ sess.status = "ABSENT"
  /\ sess' = [sess EXCEPT !.status = "PENDING"]
  /\ UNCHANGED <<box, token, conts, runs, mach, camp>>

\* _allocation_on: the cards for the session, if it can have the machine now.
\* A campaign that shares asks for its budget of cards nobody stands on; one
\* that does not asks for the whole machine and looks at live work only.
Allocations ==
  IF ~knobs.shares
  THEN IF other = "live" \/ LiveRuns(runs) # {} THEN {} ELSE {AllCards}
  ELSE LET free == AllCards \ BlockedCards(runs)
       IN  IF Cardinality(free) < knobs.cards THEN {} ELSE {First(free, knobs.cards)}

\* try_reserve, for a session the machine queue admits.
TryReserve ==
  /\ sess.status = "PENDING" /\ ~sess.placed /\ ~sess.abort /\ camp = "ACTIVE"
  /\ \E cards \in Allocations :
       sess' = [sess EXCEPT !.placed = TRUE, !.cards = cards]
  /\ UNCHANGED <<box, token, conts, runs, mach, camp>>

\* _advance_pending: the key is minted and committed before the container
\* starts.  The image may not be there yet, or not at all; the launch may fail.
AdvancePending ==
  /\ sess.status = "PENDING" /\ sess.placed
  /\ \/ /\ Terminate([sess EXCEPT !.fail = TRUE], runs, "FAILED")
        /\ UNCHANGED conts
     \/ /\ sess' = [sess EXCEPT !.status = "STARTING"]
        /\ box' = "up" /\ token' = "live" /\ mach' = "RESERVED"
        /\ UNCHANGED <<conts, runs, camp>>

\* The worker dies after the container started and before the tick commits:
\* the key is durable, the row is still PENDING, and the next launch removes
\* the container by its name first.
CrashInLaunch ==
  /\ sess.status = "PENDING" /\ sess.placed /\ token = "none"
  /\ box' = "up" /\ token' = "live"
  /\ UNCHANGED <<sess, conts, runs, mach, camp>>

AdvanceStarting ==
  /\ sess.status = "STARTING"
  /\ IF sess.heard # "never"
     THEN /\ sess' = [sess EXCEPT !.status = "SEARCHING"]
          /\ UNCHANGED <<box, token, conts, runs, mach, camp>>
     ELSE FailTowardValidation("")

\* _idle_watchdog
IdleWatchdog ==
  /\ LiveRuns(runs) = {}
  /\ LET s == [sess EXCEPT !.strikes = @ + 1]
     IN  IF s.strikes >= knobs.strikes
         THEN BeginFinalizing(s, "other")
         ELSE sess' = s /\ UNCHANGED <<box, token, conts, runs, mach, camp>>

AdvanceSearching ==
  /\ sess.status = "SEARCHING"
  /\ CASE box # "up" -> FailTowardValidation("other")
       [] box = "up" /\ sess.heard = "silent" -> FailTowardValidation("other")
       [] box = "up" /\ sess.heard # "silent" /\ sess.said = "exhausted" ->
            BeginFinalizing(sess, "policy_exhausted")
       [] box = "up" /\ sess.heard # "silent" /\ sess.said = "error" ->
            BeginFinalizing([sess EXCEPT !.fail = TRUE], "other")
       [] box = "up" /\ sess.heard # "silent" /\ ~SignalledDone
            /\ (sess.finalized \/ sess.finalizing \/ PastSearch) ->
            BeginFinalizing(sess, "other")
       [] OTHER -> IdleWatchdog

\* Graceful when the policy said so, else after the grace or when it died.
AdvanceFinalizing ==
  /\ sess.status = "FINALIZING"
  /\ \E clean \in BOOLEAN : runs' = KilledRuns(runs, clean)
  /\ sess' = [sess EXCEPT !.status = "VALIDATING",
                          !.fail = @ \/ (box # "up" /\ ~sess.finalized)]
  /\ UNCHANGED <<box, token, conts, mach, camp>>

(***************************************************************************)
(* _advance_validating, in three passes over the contenders: take the      *)
(* verdicts that have landed, launch what fits, end the night.             *)
(***************************************************************************)
\* Pass 1, for one contender.  A commanded contender nobody served is given up
\* when its budget has expired.
Resolved(i, c, serving, expired) ==
  IF c.st # "SERVING" THEN c
  ELSE IF c.run = 0
  THEN IF serving = i /\ expired THEN [c EXCEPT !.st = "SKIPPED"] ELSE c
  ELSE IF LiveRun(runs[c.run]) THEN c
  ELSE [c EXCEPT !.st = CASE runs[c.run].st = "succeeded" -> "VALIDATED"
                          [] runs[c.run].st # "succeeded" /\ runs[c.run].waits -> "SKIPPED"
                          [] OTHER -> "FAILED"]

\* Mutant: only live runs are in the way.
ValidationCardsOfDying(width, rs) ==
  LET free == sess.cards \ UNION {rs[i].cards : i \in LiveRuns(rs)}
  IN  IF Cardinality(free) < width THEN NoCards ELSE First(free, width)
\* _validation_cards: as many as the config uses, of the session's own, that
\* no live or dying run stands on; {} when they are not free.
ValidationCards(width, rs) ==
  LET free == sess.cards \ BlockedCards(rs)
      needed == IF width > Cardinality(sess.cards) THEN Cardinality(sess.cards) ELSE width
  IN  IF Cardinality(free) < needed THEN NoCards ELSE First(free, needed)

\* A contender the platform cannot launch is for the policy to serve, one at a
\* time; with the policy gone it is given up.
CommandServe(w, item) ==
  IF ~(box = "up" /\ sess.heard = "fresh")
  THEN [w EXCEPT !.conts[item].st = "SKIPPED"]
  ELSE IF w.serving = 0
  THEN [w EXCEPT !.conts[item].st = "SERVING", !.serving = item, !.waiting = TRUE]
  ELSE [w EXCEPT !.waiting = TRUE]

\* Pass 2, for one entry of the queue (0 is production, the reference): w is
\* what the pass has done so far.
LaunchOne(w, item) ==
  LET width == IF item = 0 THEN Production ELSE Width[w.conts[item].cfg]
      cards == ValidationCards(width, w.runs)
      row == Run("EXPERIMENT", "pending", cards, 0, item = 0)
  IN  CASE w.waiting -> w
        [] ~w.waiting /\ (item = 0 \/ w.conts[IF item = 0 THEN 1 ELSE item].cfg \notin Foreign) ->
             (IF cards = NoCards THEN [w EXCEPT !.waiting = TRUE]
              ELSE IF item = 0 THEN [w EXCEPT !.runs = Append(@, row)]
              ELSE [w EXCEPT !.runs = Append(@, row),
                             !.conts[item].st = "SERVING",
                             !.conts[item].run = Len(w.runs) + 1])
        [] OTHER -> CommandServe(w, item)

\* The entries in the order they are launched: production, then by rank.
LaunchQueue(cs, wantRef) ==
  LET pending == {i \in DOMAIN cs : cs[i].st = "REGISTERED"}
      before(i) == {j \in pending : cs[j].rank < cs[i].rank \/ (cs[j].rank = cs[i].rank /\ j <= i)}
  IN  (IF wantRef THEN <<0>> ELSE <<>>) \o InPlaces([i \in pending |-> Cardinality(before(i))])

\* The pass: the entries one after the other.
LaunchPass(start, queue) ==
  LET w[k \in 0..Len(queue)] == IF k = 0 THEN start ELSE LaunchOne(w[k - 1], queue[k])
  IN  w[Len(queue)]

\* _teardown_blocking: on a machine of its own any dying container counts, on
\* a shared one those on the session's cards.
TeardownBlocking ==
  IF knobs.shares
  THEN \/ \E i \in Dying(runs) : runs[i].cards \cap sess.cards # {}
       \/ other = "dying" /\ OtherCards \cap sess.cards # {}
  ELSE Dying(runs) # {} \/ other = "dying"

\* _launch_validations
LaunchValidations(cs, serving, wantRef) ==
  LET start == [conts |-> cs, runs |-> runs, serving |-> serving, waiting |-> FALSE]
      first == ~\E i \in Own(runs) : runs[i].kind = "EXPERIMENT"
  IN  CASE first /\ TeardownBlocking -> [start EXCEPT !.waiting = TRUE]
        [] ~(first /\ TeardownBlocking) /\ clock \in {"late", "over"} ->
             [start EXCEPT !.conts =
                [i \in DOMAIN cs |-> IF cs[i].st = "REGISTERED"
                                     THEN [cs[i] EXCEPT !.st = "SKIPPED"] ELSE cs[i]]]
        [] OTHER ->
             LaunchPass(start, LaunchQueue(cs, wantRef))

\* Mutant: the night ends when nothing is left to launch.
LandedAlways(cs, ref) == TRUE
\* Pass 3: every measurement has landed.  ref is the reference run as pass 2
\* found it.
Landed(cs, ref) ==
  /\ \A i \in DOMAIN cs : cs[i].st # "SERVING"
  /\ \A i \in ref : ~LiveRun(runs[i])

AdvanceValidating ==
  /\ sess.status = "VALIDATING"
  /\ \E expired \in BOOLEAN :
       LET cs == [i \in DOMAIN conts |-> Resolved(i, conts[i], sess.serving, expired)]
           serving == IF sess.serving # 0 /\ cs[sess.serving].st # "SERVING" THEN 0 ELSE sess.serving
           ref == {i \in Own(runs) : runs[i].ref}
           wantRef == /\ knobs.production /\ ref = {}
                      /\ \E i \in DOMAIN cs : cs[i].st \in {"REGISTERED", "SERVING", "VALIDATED"}
           w == IF wantRef \/ \E i \in DOMAIN cs : cs[i].st = "REGISTERED"
                THEN LaunchValidations(cs, serving, wantRef)
                ELSE [conts |-> cs, runs |-> runs, serving |-> serving, waiting |-> FALSE]
           s == [sess EXCEPT !.serving = w.serving]
       IN  /\ conts' = w.conts
           /\ IF w.waiting \/ ~Landed(w.conts, ref)
              THEN sess' = s /\ runs' = w.runs /\ UNCHANGED <<box, token, mach, camp>>
              ELSE Terminate(s, w.runs, Verdict)

(***************************************************************************)
(* A tick ends an aborted session whatever its status, ends a started one  *)
(* at the end of its window, and otherwise advances it.                    *)
(***************************************************************************)
KillAndTerminate(final) ==
  /\ \E clean \in BOOLEAN : Terminate(sess, KilledRuns(runs, clean), final)
  /\ UNCHANGED conts

\* Mutant: a session that is finalizing is left alone.
CutOffButFinalizing == clock = "over" /\ sess.status \notin {"PENDING", "FINALIZING"}
CutOff == clock = "over" /\ sess.status # "PENDING"

AdvanceOne ==
  CASE sess.abort -> KillAndTerminate("ABORTED")
    [] ~sess.abort /\ CutOff -> KillAndTerminate(Verdict)
    [] OTHER -> \/ AdvancePending \/ CrashInLaunch \/ AdvanceStarting \/ AdvanceSearching
                \/ AdvanceFinalizing \/ AdvanceValidating

\* The tick commits: a request in flight has read what is now old.
Overtakes ==
  /\ req.kind # "none" => ~req.over /\ req.kind \in Straddle
  /\ req' = IF req.kind = "none" THEN req ELSE [req EXCEPT !.over = TRUE]

Tick ==
  /\ Overtakes
  /\ \/ EnsureSession
     \/ TryReserve
     \/ sess.status \in Started \cup {"PENDING"} /\ AdvanceOne
  /\ UNCHANGED <<other, clock, used>>

(***************************************************************************)
(* The policy's requests: the reads and the decision, then the commit.     *)
(***************************************************************************)
\* What disturbs a night is counted against a bound.
Upset == used.upsets < knobs.upsets /\ used' = [used EXCEPT !.upsets = @ + 1]

\* get_policy_session: a key of the session, and the session not over.  The
\* container is where requests come from.
Authorised ==
  /\ token # "none" /\ sess.status \notin TERMINAL_SESSION_STATES
  /\ box = "up"

\* _mark_activity: delegated work, which takes back "exhausted".
MarkActivity(s) ==
  [s EXCEPT !.strikes = 0, !.said = IF @ = "exhausted" THEN "" ELSE @]

\* _require_exploring
RequireExploring == Exploring /\ ~PastSearch

\* _check_cards_and_port: cards of the session, none busy with its live runs.
CheckCards(cards) ==
  /\ cards \subseteq sess.cards
  /\ \A i \in LiveRuns(runs) : runs[i].cards \cap cards = {}

Heartbeat ==
  /\ Authorised
  /\ \E says \in {"", "exhausted", "error"} :
       /\ sess' = [sess EXCEPT !.heard = "fresh",
                               !.said = IF says = "" THEN @ ELSE says]
       /\ IF says = "" THEN UNCHANGED used ELSE Upset
  /\ box' \in IF command_for \in {"abort", "exit"} THEN {"up", "exited"} ELSE {"up"}
  /\ UNCHANGED <<token, conts, runs, mach, camp, req>>

Finalized ==
  /\ Authorised /\ ~sess.finalized
  /\ sess' = [sess EXCEPT !.finalized = TRUE]
  /\ UNCHANGED <<box, token, conts, runs, mach, camp, req, used>>

\* DELETE /launches/{id}
ReleaseLaunch ==
  /\ Authorised
  /\ \E i \in LiveRuns(runs) :
       /\ runs[i].kind = "POLICY_LAUNCH"
       /\ runs' = [runs EXCEPT ![i].release = TRUE]
  /\ UNCHANGED <<sess, box, token, conts, mach, camp, req, used>>

\* DELETE /benchmarks/{id}
CancelBenchmark ==
  /\ Authorised
  /\ \E i \in LiveRuns(runs) :
       /\ runs[i].kind = "EXTERNAL"
       /\ runs' = [runs EXCEPT ![i].stop = TRUE]
  /\ UNCHANGED <<sess, box, token, conts, mach, camp, req, used>>

\* POST /contenders/{id}/serving: exactly what the heartbeat commanded; a
\* repeated report finds its run and changes nothing.
ReadServing ==
  /\ sess.status = "VALIDATING" /\ sess.serving # 0
  /\ conts[sess.serving].run = 0
  /\ req' = [kind |-> "serving", cont |-> sess.serving, over |-> FALSE]

\* PUT /contenders: a ranked list; over the cap or refused is left out.
ReadContenders ==
  /\ Exploring /\ used.puts < knobs.puts
  /\ \E list \in UNION {[1..n -> Configs] : n \in 1..knobs.contenders} :
       /\ \E k \in DOMAIN list : list[k] \notin Refused
       /\ req' = [kind |-> "contenders", list |-> list, over |-> FALSE]

\* POST /launches
ReadLaunch ==
  /\ RequireExploring /\ used.launches < knobs.launches
  /\ \E c \in Configs \ Refused :
       \E cards \in SUBSET sess.cards :
         /\ Cardinality(cards) = Width[c] /\ CheckCards(cards)
         /\ req' = [kind |-> "launch", cards |-> cards, over |-> FALSE]

\* POST /launches/{id}/benchmarks
ReadBench ==
  /\ RequireExploring /\ used.launches < knobs.launches
  /\ \E i \in DOMAIN runs :
       /\ runs[i].kind = "POLICY_LAUNCH" /\ runs[i].st = "serving"
       /\ req' = [kind |-> "bench", parent |-> i, over |-> FALSE]

\* POST /benchmarks: an engine the policy serves itself, on any of its cards.
ReadExternal ==
  /\ RequireExploring /\ used.launches < knobs.launches
  /\ \E cards \in SUBSET sess.cards :
       cards # {} /\ req' = [kind |-> "external", cards |-> cards, over |-> FALSE]

ReadRequest ==
  /\ Authorised /\ req.kind = "none"
  /\ ReadServing \/ ReadContenders \/ ReadLaunch \/ ReadBench \/ ReadExternal
  /\ UNCHANGED <<sess, box, token, conts, runs, mach, camp, used>>

Accepted(list) ==
  {k \in DOMAIN list : list[k] \notin Refused}

\* The same list again updates the rows in place; another one supersedes what
\* is registered.
CommitContenders ==
  LET current == {i \in DOMAIN conts : conts[i].st = "REGISTERED"}
      sig == {<<conts[i].rank, conts[i].cfg>> : i \in current}
      new == {<<k, req.list[k]>> : k \in Accepted(req.list)}
      rows == LET order == InPlaces([k \in Accepted(req.list) |->
                                      Cardinality({j \in Accepted(req.list) : j <= k})])
              IN  [k \in DOMAIN order |->
                     [rank |-> order[k], cfg |-> req.list[order[k]], st |-> "REGISTERED", run |-> 0]]
  IN  /\ conts' = IF sig = new THEN conts
                  ELSE [i \in DOMAIN conts |->
                          IF i \in current THEN [conts[i] EXCEPT !.st = "SUPERSEDED"]
                          ELSE conts[i]] \o rows
      /\ used' = [used EXCEPT !.puts = @ + 1]
      /\ UNCHANGED <<sess, runs>>

CommitLaunch ==
  /\ runs' = Append(runs, Run("POLICY_LAUNCH", "pending", req.cards, 0, FALSE))
  /\ sess' = MarkActivity(sess)
  /\ used' = [used EXCEPT !.launches = @ + 1]
  /\ UNCHANGED conts

CommitBench ==
  /\ runs' = Append(runs, Run("EXTERNAL", "benching", NoCards, req.parent, FALSE))
  /\ sess' = MarkActivity(sess)
  /\ used' = [used EXCEPT !.launches = @ + 1]
  /\ UNCHANGED conts

CommitExternal ==
  /\ runs' = Append(runs, Run("EXTERNAL", "benching", req.cards, 0, FALSE))
  /\ sess' = MarkActivity(sess)
  /\ used' = [used EXCEPT !.launches = @ + 1]
  /\ UNCHANGED conts

CommitServing ==
  /\ runs' = Append(runs, Run("EXTERNAL", "benching", sess.cards, 0, FALSE))
  /\ conts' = [conts EXCEPT ![req.cont].st = "SERVING", ![req.cont].run = Len(runs) + 1]
  /\ UNCHANGED <<sess, used>>

CommitRequest ==
  /\ CASE req.kind = "contenders" -> CommitContenders
       [] req.kind = "launch" -> CommitLaunch
       [] req.kind = "bench" -> CommitBench
       [] req.kind = "external" -> CommitExternal
       [] req.kind = "serving" -> CommitServing
       [] OTHER -> FALSE
  /\ req' = NoRequest
  /\ UNCHANGED <<box, token, mach, camp>>

Policy ==
  /\ Heartbeat \/ Finalized \/ ReleaseLaunch \/ CancelBenchmark \/ ReadRequest \/ CommitRequest
  /\ UNCHANGED <<other, clock>>

(***************************************************************************)
(* Operators: abort the session, force-stop the search, validate configs.  *)
(***************************************************************************)
AbortSession ==
  /\ sess.status \notin TERMINAL_SESSION_STATES \cup {"ABSENT"}
  /\ ~sess.abort /\ sess' = [sess EXCEPT !.abort = TRUE]
  /\ Upset /\ UNCHANGED <<box, token, conts, runs, mach, other, camp, clock, req>>

\* force_stop: a session that searches is asked to finalize and the campaign
\* goes on; any other live session is aborted and the campaign is stopped.
ForceStop ==
  LET searching == sess.status = "SEARCHING" /\ sess.heard # "never" /\ ~sess.finalizing
      over == sess.status \in TERMINAL_SESSION_STATES \cup {"ABSENT"}
  IN  /\ searching \/ camp # "DONE"
      /\ sess' = IF searching THEN [sess EXCEPT !.finalizing = TRUE]
                 ELSE [sess EXCEPT !.abort = @ \/ ~over]
      /\ camp' = IF searching \/ camp = "DONE" THEN camp ELSE IF knobs.recurring THEN "PAUSED" ELSE "DONE"
      /\ runs' = IF searching THEN runs
                 ELSE [i \in DOMAIN runs |-> [runs[i] EXCEPT !.stop = @ \/ LiveRun(runs[i])]]
  /\ Upset /\ UNCHANGED <<box, token, conts, mach, other, clock, req>>

\* validate_configs: between sessions, a session of its own that is validating
\* from the start, with every card of the machine and the given configs, best
\* first, in a window of some hours.  The machine is not looked at, nor marked.
ValidateConfigs ==
  /\ knobs.validates # {} /\ ~sess.asked
  /\ sess.status \in TERMINAL_SESSION_STATES \cup {"ABSENT"} /\ req.kind = "none"
  /\ \E list \in UNION {[1..n -> knobs.validates] : n \in 1..knobs.contenders} :
       conts' = [k \in DOMAIN list |->
                   [rank |-> k, cfg |-> list[k], st |-> "REGISTERED", run |-> 0]]
  /\ sess' = [NoSession EXCEPT !.status = "VALIDATING", !.placed = TRUE, !.cards = AllCards,
                               !.asked = TRUE]
  /\ runs' = [i \in DOMAIN runs |-> [runs[i] EXCEPT !.past = TRUE]]
  /\ box' = "none" /\ token' = "none" /\ camp' = "ACTIVE" /\ clock' \in {"search", "late"}
  /\ UNCHANGED <<mach, other, req, used>>

(***************************************************************************)
(* The runs of the session, as the rest of the worker's tick moves them    *)
(* (supervisor.py; Fleet.tla has the detail).                              *)
(***************************************************************************)
RunComesUp(i) ==
  /\ runs[i].st = "pending"
  /\ runs' = [runs EXCEPT ![i].st = IF runs[i].kind = "POLICY_LAUNCH" THEN "serving" ELSE "benching"]
  /\ UNCHANGED mach

\* _advance_baseline: an endpoint the platform did not launch is checked and
\* measured, or fails to answer, to be healthy or to be measured.
advance_baseline(r) == IF r.kind = "EXTERNAL" THEN {"succeeded", "failed"} ELSE {}
\* _advance_one of an engine the platform launched: one that serves ends by its
\* release, one that is measured by its benchmark, and any may fail.
advance_launched(r) ==
  IF r.kind = "EXTERNAL" THEN {}
  ELSE {st \in {"succeeded", "failed"} :
          IF r.st = "serving" THEN r.release <=> st = "succeeded"
          ELSE st = "succeeded" => r.st = "benching"}
\* A stop that was asked for, and the end of the window.
Killed(r) == IF r.stop \/ clock = "over" THEN {"killed"} ELSE {}

\* _finish and _fail, with the machine released when that was the last hold.
\* One that ends before it was launched may have been waiting for the cluster.
RunEnds(i) ==
  /\ LiveRun(runs[i])
  /\ \E st \in advance_baseline(runs[i]) \cup advance_launched(runs[i]) \cup Killed(runs[i]),
        clean \in BOOLEAN, waits \in BOOLEAN :
       /\ waits => runs[i].st = "pending"
       /\ LET rs == [Ended(runs, i, st, clean) EXCEPT ![i].waits = waits]
          IN  runs' = rs /\ mach' = ReleaseIfIdle(sess, rs)

RunReaped(i) ==
  /\ runs[i].dying
  /\ LET rs == [runs EXCEPT ![i].dying = FALSE]
     IN  runs' = rs /\ mach' = ReleaseIfIdle(sess, rs)

AdvanceRuns ==
  /\ \E i \in DOMAIN runs : RunComesUp(i) \/ RunEnds(i) \/ RunReaped(i)
  /\ UNCHANGED <<sess, box, token, conts, other, camp, clock, req, used>>

(***************************************************************************)
(* Outside: the container, time, and another campaign's run.               *)
(***************************************************************************)
ContainerStops ==
  /\ box = "up" /\ box' = "exited"
  /\ Upset /\ UNCHANGED <<sess, token, conts, runs, mach, other, camp, clock, req>>

FallsSilent ==
  /\ sess.heard = "fresh"
  /\ sess' = [sess EXCEPT !.heard = "silent"]
  /\ Upset /\ UNCHANGED <<box, token, conts, runs, mach, other, camp, clock, req>>

TimePasses ==
  /\ clock # "over"
  /\ clock' = CASE clock = "search" -> "reserve" [] clock = "reserve" -> "late" [] OTHER -> "over"
  /\ UNCHANGED <<sess, box, token, conts, runs, mach, other, camp, req, used>>

\* The window or the lease is moved.
WindowMoves ==
  /\ clock' \in {"search", "late"} \ {clock}
  /\ Upset /\ UNCHANGED <<sess, box, token, conts, runs, mach, other, camp, req>>

OtherStarts ==
  /\ other = "none"
  /\ knobs.shares \/ LiveRuns(runs) \cup Dying(runs) = {}
  /\ LET held == sess.placed /\ sess.status \in Started \cup {"PENDING"}
     IN  /\ held => knobs.shares /\ sess.cards \cap OtherCards = {}
         /\ knobs.shares => \A i \in LiveRuns(runs) \cup Dying(runs) :
                               runs[i].cards \cap OtherCards = {}
  /\ other' = "live" /\ mach' = "RESERVED"
  /\ Upset /\ UNCHANGED <<sess, box, token, conts, runs, camp, clock, req>>

OtherEnds ==
  /\ other # "none"
  /\ other' = IF other = "live" THEN "dying" ELSE "none"
  /\ mach' = IF other = "dying" /\ mach = "RESERVED" /\ LiveRuns(runs) \cup Dying(runs) = {}
                /\ ~(sess.placed /\ sess.status \in Started \cup {"PENDING"})
             THEN "AVAILABLE" ELSE mach
  /\ UNCHANGED <<sess, box, token, conts, runs, camp, clock, req, used>>

Environment == ContainerStops \/ FallsSilent \/ TimePasses \/ WindowMoves \/ OtherStarts \/ OtherEnds

(***************************************************************************)
(* The specification.                                                      *)
(***************************************************************************)
Init ==
  /\ knobs \in Campaigns
  /\ sess = NoSession
  /\ box = "none" /\ token = "none" /\ conts = <<>> /\ runs = <<>>
  /\ mach = "AVAILABLE" /\ other = "none" /\ camp = "ACTIVE" /\ clock = "search"
  /\ req = NoRequest /\ used = [launches |-> 0, puts |-> 0, upsets |-> 0]

Next ==
  /\ Tick \/ AdvanceRuns \/ Policy \/ AbortSession \/ ForceStop \/ ValidateConfigs \/ Environment
  /\ UNCHANGED knobs

\* The worker ticks on its own timer (all that is asked of it here is the tick
\* that finds the window over), requests end, and time passes.
Fairness ==
  /\ WF_vars(sess.status \in Started /\ CutOff /\ Tick /\ UNCHANGED knobs)
  /\ WF_vars(CommitRequest /\ UNCHANGED <<knobs, other, clock>>)
  /\ WF_vars(TimePasses /\ UNCHANGED knobs)

Spec == Init /\ [][Next]_vars /\ Fairness

(***************************************************************************)
(* Properties.                                                             *)
(***************************************************************************)

\* A validation measures its config alone on its cards: no other engine of the
\* machine, live or still tearing down, stands on them (_validation_cards),
\* whatever request the tick that ended the search overtook; and on a machine
\* that is not shared no other run is there at all, unless an operator put the
\* validation there (validate_configs does not ask).
ValidationUndisturbed ==
  \A i \in LiveRuns(runs) :
    runs[i].kind = "EXPERIMENT" =>
      /\ \A j \in LiveRuns(runs) \cup Dying(runs) :
           j # i /\ Launched(runs[j]) => runs[i].cards \cap runs[j].cards = {}
      /\ other # "none" => runs[i].cards \cap OtherCards = {} /\ (knobs.shares \/ sess.asked)

\* The machine is held from the container's launch to the end of the session,
\* and no longer than something stands on it (_release_machine_if_idle).
HeldForTheNight ==
  /\ sess.status \in Started /\ ~sess.asked => mach = "RESERVED"
  /\ mach = "RESERVED" =>
       \/ sess.placed /\ sess.status \in Started \cup {"PENDING"}
       \/ LiveRuns(runs) \cup Dying(runs) # {}
       \/ other # "none"

\* A session that ends by itself, neither aborted nor cut off at the window's
\* end, leaves no contender without a verdict, the ones a request registered
\* while the tick froze the list included.
EveryContenderJudged ==
  [][sess.status \notin TERMINAL_SESSION_STATES /\ sess'.status \in {"DONE", "FAILED"} /\ ~CutOff =>
       \A i \in DOMAIN conts' : conts'[i].st \notin PENDING_CONTENDER_STATES]_vars

\* Every night that starts ends, whatever its policy, its runs and its
\* container do (_advance_one's cut-off at the hard deadline).
NightEnds == sess.status \in Started ~> sess.status \in TERMINAL_SESSION_STATES
=============================================================================

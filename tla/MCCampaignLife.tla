--------------------------- MODULE MCCampaignLife ---------------------------
(* The situations CampaignLife is checked on. *)
EXTENDS CampaignLife

NoProfile == [exists |-> FALSE, builds |-> <<>>, current |-> 0]
Published == [exists |-> TRUE, builds |-> <<"ready">>, current |-> 1]
Unpublished == [exists |-> TRUE, builds |-> <<>>, current |-> 0]
Nightly(a, b, u) == [start |-> a, end |-> b, until |-> u]

Plain ==
  [st |-> "active", sch |-> NoSchedule, end |-> NoTime, cfgs |-> <<1>>, share |-> TRUE,
   canary |-> FALSE, plugin |-> FALSE, profile |-> FALSE, policy |-> "use_current",
   confirm_top_k |-> 0, confirm_repeats |-> 1, verify_top_k |-> 0,
   need |-> 1, verify_need |-> 2, outs |-> {"measured"}, vals |-> {1}]
Site ==
  [machines |-> <<2>>, camps |-> <<Plain>>, horizon |-> 0, asks |-> 0, builds |-> 2,
   prof |-> NoProfile, schedules |-> {}, hours |-> {}]

\* A space screened, confirmed and verified, with its reference and its dataset.
Staged ==
  [Site EXCEPT !.machines = <<1>>, !.asks = 1, !.builds = 1, !.prof = Unpublished,
     !.camps = <<[Plain EXCEPT !.cfgs = <<1, 2>>, !.canary = TRUE, !.profile = TRUE,
                    !.policy = "rebuild_at_start", !.confirm_top_k = 1, !.confirm_repeats = 2,
                    !.verify_top_k = 1, !.vals = {0, 1}]>>]
Ranking ==
  [Site EXCEPT !.machines = <<1>>,
     !.camps = <<[Plain EXCEPT !.cfgs = <<1, 1>>, !.confirm_top_k = 1, !.confirm_repeats = 2,
                    !.verify_top_k = 2, !.outs = {"measured", "fault"}, !.vals = {1, 2}]>>]
Failing ==
  [Site EXCEPT !.machines = <<0>>,
     !.camps = <<[Plain EXCEPT !.cfgs = <<1, 2>>, !.confirm_top_k = 1, !.confirm_repeats = 2,
                    !.outs = {"measured", "infra"}]>>]
\* Narrow and wide campaigns in one queue.
Queue ==
  [Site EXCEPT !.machines = <<1, 2>>, !.horizon = 2,
     !.camps = <<[Plain EXCEPT !.cfgs = <<1, 1, 1>>],
                 [Plain EXCEPT !.cfgs = <<2>>]>>]
Two ==
  [Site EXCEPT !.machines = <<2>>, !.horizon = 1, !.asks = 1,
     !.camps = <<[Plain EXCEPT !.cfgs = <<1, 1>>], [Plain EXCEPT !.share = FALSE]>>]
\* The nightly clock against people: the last night, and a window moved.
Night ==
  [Site EXCEPT !.machines = <<1>>, !.horizon = 5, !.asks = 2, !.hours = {2}, !.builds = 1,
     !.schedules = {NoSchedule},
     !.camps = <<[Plain EXCEPT !.st = "unborn", !.sch = Nightly(1, 3, 1)]>>]
Moved ==
  [Site EXCEPT !.machines = <<1>>, !.horizon = 4, !.asks = 1,
     !.schedules = {Nightly(3, 1, NoTime)},
     !.camps = <<[Plain EXCEPT !.st = "scheduled", !.sch = Nightly(1, 3, 5), !.cfgs = <<1, 1>>]>>]
\* Two campaigns that replay one profile.
Profile ==
  [Site EXCEPT !.machines = <<1>>, !.asks = 2, !.builds = 2, !.prof = Published,
     !.camps = <<[Plain EXCEPT !.profile = TRUE, !.policy = "rebuild_at_start"],
                 [Plain EXCEPT !.profile = TRUE]>>]

\* A campaign that names a profile nobody set up.
NoSuch ==
  [Site EXCEPT !.machines = <<1>>, !.builds = 0,
     !.camps = <<[Plain EXCEPT !.profile = TRUE, !.verify_top_k = 1]>>]

\* A campaign that a plugin starts, extends, pins and stops.
Managed ==
  [Site EXCEPT !.machines = <<1>>, !.horizon = 1, !.asks = 3, !.hours = {1}, !.builds = 1,
     !.prof = Published,
     !.camps = <<[Plain EXCEPT !.st = "unborn", !.plugin = TRUE, !.profile = TRUE, !.cfgs = <<1, 1>>]>>]

\* A campaign that is refilled in its turn, and one behind it.
Refill ==
  [Site EXCEPT !.machines = <<1>>, !.horizon = 1,
     !.camps = <<[Plain EXCEPT !.confirm_top_k = 1, !.confirm_repeats = 2],
                 [Plain EXCEPT !.cfgs = <<1, 1>>]>>]
AllSites == {Refill, Managed, NoSuch, Staged, Ranking, Failing, Queue, Two, Night, Moved, Profile}
=============================================================================

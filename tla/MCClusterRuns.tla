---------------------------- MODULE MCClusterRuns ----------------------------
(* Small clusters for TLC: the kinds of workload, with and without the     *)
(* fixed port, and registrations that do or do not show they share it.     *)
EXTENDS ClusterRuns

Claim(server, host) == [port |-> 1, server |-> server, host |-> host]
Shown == [r \in Runs |-> Claim("api", "")]
Hidden == [r \in Runs |-> Claim("", IF r = 1 THEN "a" ELSE "b")]

Site(kind, fixed, claim, runs, policy, faults, crashes, upsets) ==
  [kind |-> kind, fixed |-> fixed, ttl |-> kind = "custom", claim |-> claim,
   ns |-> [r \in Runs |-> "tuning"], runs |-> runs, policy |-> policy,
   faults |-> faults, crashes |-> crashes, upsets |-> upsets]
\* Two runs that want the port, in every combination of a fault and a lost
\* tick that stays small; one run with all that can go wrong at once.
MCSites ==
  {Site("deployment", TRUE, Shown, 2, {1, 2}, 1, 0, 0),
   Site("deployment", TRUE, Hidden, 2, {1}, 0, 1, 0),
   Site("deployment", TRUE, Shown, 1, {}, 0, 1, 1),
   Site("deployment", TRUE, Shown, 1, {}, 1, 0, 1),
   Site("llmservice", TRUE, Shown, 2, {2}, 0, 0, 0),
   Site("llmservice", TRUE, Shown, 1, {1}, 1, 1, 0),
   Site("custom", FALSE, Shown, 1, {}, 1, 0, 1)}
=============================================================================

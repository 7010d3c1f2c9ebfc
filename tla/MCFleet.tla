------------------------------ MODULE MCFleet ------------------------------
(***************************************************************************)
(* Small fleets for TLC.  Machines, campaigns and candidates are numbers:  *)
(* every campaign but 20 shares its machines, and campaign 30 pins the     *)
(* node group of every machine.  Candidate n of campaign k is k + n.       *)
(***************************************************************************)
EXTENDS Fleet

CONSTANT GpuCount   \* cards of every machine

MCGpus == [m \in Machines |-> GpuCount]
MCShare == [k \in Campaigns |-> k # 20]
MCPins == [k \in Campaigns |-> Machines]
MCGroup == [k \in Campaigns |-> IF k = 30 THEN Machines ELSE {}]
MCLeader == [k \in Campaigns |-> 1]
MCCampaignOf == [c \in Candidates |-> c - (c % 10)]

\* A gang's configs take one card of every machine, the others one or two.
MCCards ==
  [c \in Candidates |-> IF c > 30 THEN Cardinality(Machines) ELSE c % 10]
=============================================================================

-------------------------- MODULE MCPolicySession --------------------------
(* Small instances of PolicySession for TLC.                               *)
EXTENDS PolicySession

CONSTANTS own, foreign, bad

MCConfigs == {own, foreign, bad}
MCWidth == [c \in MCConfigs |-> 1]

\* A night of its own on a machine, that searches and registers.
Night(launches, contenders, production, shares, upsets) ==
  [shares |-> shares, cards |-> 1, recurring |-> shares, production |-> production,
   contenders |-> contenders, strikes |-> 1,
   launches |-> launches, puts |-> 1, upsets |-> upsets, validates |-> {}]
MCCampaigns ==
  {Night(1, 1, FALSE, TRUE, 1), Night(0, 1, TRUE, FALSE, 1),
   [Night(2, 1, FALSE, TRUE, 0) EXCEPT !.puts = 0], Night(0, 2, TRUE, TRUE, 0)}
  \cup {[night EXCEPT !.puts = 0, !.validates = {own, bad}] :
           night \in {Night(0, 1, TRUE, shares, 1) : shares \in BOOLEAN} \cup {Night(0, 2, TRUE, FALSE, 0)}}
=============================================================================

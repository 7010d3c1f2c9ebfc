------------------------------ MODULE MCProbes ------------------------------
(* Probes on a machine of two nodes, or of one docker host. *)
EXTENDS Probes

MCNodes == {"n1", "n2"}
MCOps == [cluster |-> 1, docker |-> 3]

(* Two nodes that differ in their weights and in whether they can pull the    *)
(* policy image.                                                              *)
World(engine, health) ==
  [docker |-> FALSE, claim |-> FALSE, on_claim |-> FALSE, readable |-> TRUE,
   by_name |-> FALSE, wide |-> FALSE, host |-> engine, health |-> health,
   weights |-> [n \in MCNodes |-> n = "n2"],
   images |-> [n \in MCNodes |-> [c \in Containers |->
                 IF c = "engine" THEN engine ELSE IF n = "n1" THEN "absent" ELSE "broken"]]]
Health(one, two) == [n \in MCNodes |-> IF n = "n1" THEN one ELSE two]

(* The weights on a node's disk or on a claim that lacks them; the image to    *)
(* be pulled, there, or not to be had; nodes cordoned, not ready and not       *)
(* readable; a docker host.                                                    *)
MCWorlds ==
  {World("absent", Health("ready", "ready")),
   [World("present", Health("cordoned", "ready")) EXCEPT !.claim = TRUE, !.by_name = TRUE],
   [World("absent", Health("not_ready", "not_ready")) EXCEPT !.readable = FALSE],
   [World("broken", Health("not_ready", "ready")) EXCEPT !.wide = TRUE]}
  \cup {[World(image, Health("ready", "ready")) EXCEPT !.docker = TRUE] :
          image \in {"absent", "present", "broken"}}
=============================================================================

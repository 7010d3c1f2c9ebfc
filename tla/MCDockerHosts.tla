---------------------------- MODULE MCDockerHosts ----------------------------
(* Two hosts: two runs of a sharing campaign side by side on the first, then *)
(* a gang over both; port 3 is kube-proxy's.                                 *)
EXTENDS DockerHosts
MCRuns == {1, 2, 3}
MCPlan ==
  [r \in MCRuns |->
     CASE r = 1 -> [hosts |-> <<"a">>, cards |-> {1}, port |-> 1, share |-> TRUE]
       [] r = 2 -> [hosts |-> <<"a">>, cards |-> {2}, port |-> 1, share |-> TRUE]
       [] r = 3 -> [hosts |-> <<"a", "b">>, cards |-> {1, 2}, port |-> 1, share |-> FALSE]]
===============================================================================

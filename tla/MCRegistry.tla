----------------------------- MODULE MCRegistry -----------------------------
EXTENDS Registry

MCCardType == [A100 |-> "A100", odd |-> ""]

All == [by |-> "all", of |-> None]
\* A box under a node's name, a box of its own, a hand-made slice of a cluster
\* by host or without a selector, and one on the default cluster.
MCForms ==
  {[name |-> <<"n1">>, driver |-> "ssh_docker", cluster |-> None, selector |-> All, gpu_count |-> 0],
   [name |-> <<"box">>, driver |-> "ssh_docker", cluster |-> None, selector |-> All, gpu_count |-> 1],
   [name |-> <<"n1">>, driver |-> "k8s", cluster |-> None, selector |-> All, gpu_count |-> 1]}
  \union {[name |-> <<"n2">>, driver |-> "k8s", cluster |-> c, selector |-> All, gpu_count |-> 1]
            : c \in Clusters}
  \union {[name |-> <<"box">>, driver |-> "k8s", cluster |-> c,
           selector |-> [by |-> "host", of |-> "n1"], gpu_count |-> 0] : c \in Clusters}

Node(p, n) == [product |-> p, cards |-> n, ready |-> TRUE, cordoned |-> FALSE]
Home == [namespace |-> "ns1", kind |-> "llmservice"]
Two == "n1" :> Node("A100", 2) @@ "n2" :> Node("A100", 1)
Mixed == "n1" :> Node("A100", 1) @@ "n2" :> Node("odd", 1)

\* One cluster row at first: the other exists where a site adds it.
First == CHOOSE c \in Clusters : TRUE
Base == [clusters |-> [c \in Clusters |-> IF c = First THEN Home ELSE None], nodes |-> [c \in Clusters |-> Two],
         access |-> [c \in Clusters |-> "readable"], quota |-> [c \in Clusters |-> None],
         ops |-> {}, asks |-> 0, news |-> 0, open |-> 1]

\* Registering nodes and pools of one cluster, in any order, while its nodes
\* come and go.
Pages == [Base EXCEPT !.ops = {"nodes", "pools", "namespace", "edit", "refresh", "node", "lease"},
                      !.asks = 4, !.news = 1]
\* Products of one type share a pool name; a box already has a node's name.
Clash == [Base EXCEPT !.nodes = [c \in Clusters |-> Mixed], !.ops = {"nodes", "pools", "hand"},
                      !.asks = 3]
\* A namespace whose nodes may not be read, sized by its quota.
Guest == [Base EXCEPT !.access = [c \in Clusters |-> "forbidden"],
                      !.quota = [c \in Clusters |-> 2],
                      !.ops = {"nodes", "namespace", "pools", "refresh", "lease", "edit"},
                      !.asks = 3]
\* Permissions and labels that change, registrations that overlap.
Drift == [Base EXCEPT !.ops = {"nodes", "pools", "access", "label", "refresh"},
                      !.quota = [c \in Clusters |-> 1], !.asks = 2, !.news = 2, !.open = 2]
\* Clusters and machines edited around the runs on them.
Moving == [Base EXCEPT !.nodes = [c \in Clusters |-> "n1" :> Node("A100", 1)],
                       !.ops = {"nodes", "cluster", "edit", "campaign", "lease"}, !.asks = 4]
\* Node groups of boxes, campaigns that deploy across them.
Grouped == [Base EXCEPT !.ops = {"hand", "group", "campaign", "edit"}, !.asks = 5]
\* A cluster that is added and removed.
Added1 == [Base EXCEPT !.clusters = [c \in Clusters |-> None],
                       !.ops = {"cluster", "pools", "hand"}, !.asks = 3]

PassSites == {Pages, Clash, Guest, Drift, Moving, Grouped, Added1}
=============================================================================

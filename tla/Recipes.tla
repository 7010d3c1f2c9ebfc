------------------------------- MODULE Recipes -------------------------------
(***************************************************************************)
(* A recipe: one engine configuration as the chart reads it (control/recipe)*)
(* The values are a tree, kept as a function from the paths of its leaves.  *)
(* A leaf is [val, args]: a chart value, or for an extraArgs list the       *)
(* sequence of its arguments <<spelling, text or Bare>>.  An empty map is a *)
(* leaf of its own.  The env list is kept as the dict it means.             *)
(***************************************************************************)
EXTENDS SearchSpace

Leaf(v) == [val |-> v, args |-> << >>]
List(args) == [val |-> <<"list", 0>>, args |-> args]
EmptyMap == Leaf(<<"map", 0>>)
Removal == Leaf(Null)

Roles == {"prefill", "decode"}
ExtraArgs == <<"extraArgs">>
RoleArgs(role) == <<"pd", role, "extraArgs">>
ManagedPaths == {ExtraArgs} \cup {RoleArgs(r): r \in Roles}
is_managed(path) == \E m \in ManagedPaths: IsPrefix(m, path)

(* Paths only the site or a run sets: SITE_KEYS and SITE_PATHS. *)
SitePaths == {<<"replicaCount">>, <<"podLabels">>, <<"nodeSelector">>,
              <<"service", "type">>, <<"lws", "replicas">>}
site_path(path) == \E m \in SitePaths: IsPrefix(m, path)

(***************************************************************************)
(* args.py: an extraArgs list read and edited as flags.                     *)
(***************************************************************************)
ArgValue(a) == IF a[2] = Bare THEN True ELSE a[2]
coerce(v) == IF v[1] = "digits" THEN <<"number", v[2]>> ELSE v
flags(args) ==
    FoldLeft(LAMBDA out, a: LET n == NormalItem(a[1], ArgValue(a))
                            IN  (n[1] :> coerce(n[2])) @@ out,
             EmptyDict, args)
Positions(args, key) == {i \in 1..Len(args): NormalItem(args[i][1], ArgValue(args[i]))[1] = key}

(* _rendered: in the spelling of the argument it replaces, if any. *)
Rendered(key, v, like) ==
    LET kept == like # << >> /\ ~Has(NoForm, like[1])
    IN  IF v = Null THEN << >>
        ELSE IF v = True
             THEN <<<<IF kept /\ like[2] = Bare THEN like[1] ELSE key, Bare>>>>
        ELSE IF v = False
             THEN IF key \in Negatable THEN <<<<NoKey(key), Bare>>>> ELSE << >>
        ELSE <<<<IF kept THEN like[1] ELSE key, Str(v)>>>>

(* set_flag: replaced where its last occurrence stands, else appended. *)
set_flag(args, key, v) ==
    LET found == Positions(args, key)
        last == MaxOf(found, 0)
        new == Rendered(key, v, IF last = 0 THEN << >> ELSE args[last])
    IN  IF found = {} THEN args \o new
        ELSE FlattenSeq([i \in 1..Len(args) |->
                 IF i = last THEN new ELSE IF i \in found THEN << >> ELSE <<args[i]>>])

(***************************************************************************)
(* The values tree.                                                         *)
(***************************************************************************)
IsMap(t, p) == p = << >> \/ (Has(t, p) /\ t[p] = EmptyMap)
               \/ \E q \in DOMAIN t: IsStrictPrefix(p, q)
IsLeaf(t, p) == Has(t, p) /\ t[p] # EmptyMap
Nodes(t) == UNION {{SubSeq(q, 1, n): n \in 1..Len(q)}: q \in DOMAIN t}
Subtree(t, p) == [q \in {SubSeq(x, Len(p) + 1, Len(x)): x \in {y \in DOMAIN t: IsPrefix(p, y)}}
                    |-> t[p \o q]]
Value(r, path) == IF Has(r.tree, path) THEN r.tree[path].val ELSE Null
ArgsAt(r, path) == IF Has(r.tree, path) THEN r.tree[path].args ELSE << >>

(* _set: every map on the way is made, a leaf in the way goes, and an       *)
(* emptied map stays behind empty.                                          *)
TreeSet(t, path, sub) ==
    LET rest == Without(t, {q \in DOMAIN t: IsPrefix(path, q) \/ IsStrictPrefix(q, path)})
        up == SubSeq(path, 1, Len(path) - 1)
    IN  IF sub = (<< >> :> Removal)
        THEN IF IsMap(rest, up) THEN rest ELSE (up :> EmptyMap) @@ rest
        ELSE [q \in {path \o x: x \in DOMAIN sub} |-> sub[SubSeq(q, Len(path) + 1, Len(q))]]
             @@ rest

(***************************************************************************)
(* convert.py.  A config is a sequence of [kind, name, path, to]: the       *)
(* address (flag, prefill or decode flag, env, value) and the tree written  *)
(* there; << >> :> Removal is None.                                         *)
(***************************************************************************)
Address(kind, name, path, to) == [kind |-> kind, name |-> name, path |-> path, to |-> to]
Scalar(v) == << >> :> Leaf(v)
ScalarOf(item) == item.to[<< >>].val

SetArgs(r, path, key, v) ==
    [r EXCEPT !.tree = TreeSet(@, path,
        << >> :> List(set_flag(ArgsAt(r, path), CanonKey(key), v)))]
ApplyItem(r, item) ==
    CASE item.kind = "flag" -> SetArgs(r, ExtraArgs, item.name, ScalarOf(item))
      [] item.kind \in Roles -> SetArgs(r, RoleArgs(item.kind), item.name, ScalarOf(item))
      [] item.kind = "env" ->
            [r EXCEPT !.env = IF ScalarOf(item) = Null THEN Without(@, {item.name})
                              ELSE (item.name :> ScalarOf(item)) @@ @]
      [] OTHER -> [r EXCEPT !.tree = TreeSet(@, item.path, item.to)]
apply(base, config) == FoldLeft(ApplyItem, base, config)

DictDiff(kind, old, new) ==
    LET differs == {k \in DOMAIN new: ~Has(old, k) \/ old[k] # new[k]}
        gone == DOMAIN old \ DOMAIN new
    IN  {Address(kind, k, << >>, Scalar(new[k])): k \in differs}
        \cup {Address(kind, k, << >>, Scalar(Null)): k \in gone}

(* Mutant: keys the edited recipe no longer has are not written as None. *)
ValueDiffKept(old, new) ==
    {Address("value", "", p, Subtree(new, p)):
        p \in {q \in DOMAIN new: ~is_managed(q) /\ (~Has(old, q) \/ old[q] # new[q])}}

(* _value_diff: a leaf that changed, a subtree that replaces a leaf, a node *)
(* that is gone.                                                            *)
ValueDiff(old, new) ==
    LET open(p) == \A n \in 0..(Len(p) - 1):
                       IsMap(new, SubSeq(p, 1, n)) /\ ~IsLeaf(old, SubSeq(p, 1, n))
        leaves == {p \in DOMAIN new: /\ open(p) /\ ~is_managed(p)
                                     /\ IF new[p] = EmptyMap THEN ~IsMap(old, p)
                                        ELSE ~Has(old, p) \/ old[p] # new[p]}
        grown == {p \in Nodes(new) \ DOMAIN new: open(p) /\ IsLeaf(old, p)}
        gone == {p \in Nodes(old): /\ ~is_managed(p)
                                   /\ IsMap(new, SubSeq(p, 1, Len(p) - 1))
                                   /\ ~IsMap(new, p) /\ ~Has(new, p)}
    IN  {Address("value", "", p, Subtree(new, p)): p \in leaves \cup grown}
        \cup {Address("value", "", p, << >> :> Removal): p \in gone}

diff(base, r) ==
    SetToSeq(DictDiff("flag", flags(ArgsAt(base, ExtraArgs)), flags(ArgsAt(r, ExtraArgs))))
    \o SetToSeq(UNION {DictDiff(role, flags(ArgsAt(base, RoleArgs(role))),
                                      flags(ArgsAt(r, RoleArgs(role)))): role \in Roles})
    \o SetToSeq(DictDiff("env", base.env, r.env))
    \o SetToSeq(ValueDiff(base.tree, r.tree))

(* What a launch of the recipe is given: the empty containers left out. *)
Meaning(r) ==
    [flags |-> flags(ArgsAt(r, ExtraArgs)), env |-> r.env,
     roles |-> [role \in Roles |-> flags(ArgsAt(r, RoleArgs(role)))],
     values |-> [p \in {q \in DOMAIN r.tree \ ManagedPaths: r.tree[q] # EmptyMap} |-> r.tree[p]]]

(***************************************************************************)
(* shape.py and check.py.                                                   *)
(***************************************************************************)
On(r, path) == Value(r, path) \notin {Null, False}
topology(r) == IF On(r, <<"pd", "enabled">>) THEN "pd"
               ELSE IF On(r, <<"lws", "enabled">>) THEN "lws" ELSE "single-node"
IntAt(r, path, default) ==
    IF IsInt(Value(r, path)) THEN IntOf(Value(r, path)) ELSE default
pod_gpus(r) ==
    IF IntAt(r, <<"model", "gpus">>, 0) # 0 THEN IntAt(r, <<"model", "gpus">>, 0)
    ELSE IntAt(r, <<"resources">>, 0)
RolePods(r, role) ==
    AtLeastOne(IntAt(r, <<"pd", role, "replicas">>, 1)) * AtLeastOne(IntAt(r, <<"pd", role, "size">>, 1))
LwsSize(r) == AtLeastOne(IntAt(r, <<"lws", "size">>, 2))
RoleGpus(r, role) == IntAt(r, <<"pd", role, "gpus">>, 0)

(* shape: [gpus per pod, pods] of every group of pods. *)
shape(r) ==
    CASE topology(r) = "pd" ->
            IF On(r, <<"pd", "colocate">>)
            THEN {<<"colocate", RoleGpus(r, "prefill") + RoleGpus(r, "decode"), 1>>}
            ELSE {<<role, RoleGpus(r, role), RolePods(r, role)>>: role \in Roles}
      [] topology(r) = "lws" ->
            {<<"leader", pod_gpus(r), 1>>, <<"worker", pod_gpus(r), LwsSize(r) - 1>>}
      [] OTHER -> {<<"engine", pod_gpus(r), 1>>}
total_gpus(r) == FoldLeft(LAMBDA n, g: n + g[2] * g[3], 0, SetToSeq(shape(r)))

(* The flags a role's engines run with: the shared list, then its own. *)
RoleFlags(r, role) == Over(flags(ArgsAt(r, ExtraArgs)), flags(ArgsAt(r, RoleArgs(role))))
parallelism_problems(r) ==
    IF topology(r) = "pd"
    THEN IF On(r, <<"pd", "colocate">>) THEN {}
         ELSE {role \in Roles:
                 LET have == RoleGpus(r, role) * AtLeastOne(IntAt(r, <<"pd", role, "size">>, 1))
                 IN  have # 0 /\ cards_used(RoleFlags(r, role)) # have}
    ELSE LET have == pod_gpus(r) * (IF topology(r) = "lws" THEN LwsSize(r) ELSE 1)
         IN  IF have # 0 /\ cards_used(flags(ArgsAt(r, ExtraArgs))) # have THEN {"engine"} ELSE {}

config_problems(config) ==
    {i \in DOMAIN config: /\ config[i].kind = "value"
                          /\ \/ is_managed(config[i].path) \/ site_path(config[i].path)
                             \/ Head(config[i].path) = "image"}
Scripted(r) == Value(r, <<"commandOverride">>) # Null
recipe_problems(r) ==
    (IF Value(r, <<"image", "repository">>) = Null \/ Value(r, <<"image", "tag">>) \in {Null, Empty}
     THEN {"image"} ELSE {})
    \cup {k \in UNION {DOMAIN flags(ArgsAt(r, p)): p \in ManagedPaths}: k \in Placement}
    \cup (IF Scripted(r) /\ ArgsAt(r, ExtraArgs) # << >> THEN {"unreached"} ELSE {})
    \cup (IF On(r, <<"pd", "enabled">>) /\ On(r, <<"lws", "enabled">>) THEN {"exclusive"} ELSE {})
    \cup (IF Scripted(r) THEN {} ELSE parallelism_problems(r))

(* recipe_flags: under a commandOverride the script's own flags. *)
recipe_flags(r) == IF Scripted(r) THEN flags(r.tree[<<"commandOverride">>].args)
                   ELSE flags(ArgsAt(r, ExtraArgs))

(***************************************************************************)
(* model.py, legacy.py, compose.py and importer.py: recipes made, composed  *)
(* and read back.                                                           *)
(***************************************************************************)
Put(t, path, v) == IF v = Null THEN t ELSE (path :> Leaf(v)) @@ t

(* from_fields: a campaign's fields as a recipe; the cards come from the    *)
(* flags, split over the nodes when they divide.                            *)
from_fields(args, env, nodes) ==
    LET normal == Normal(Without(args, EnvKeys))
        kept == {k \in DOMAIN normal \ Placement: normal[k] \notin {Null, Empty}}
        total == cards_used(normal)
        gpus == IF total % nodes = 0 THEN total \div nodes ELSE total
        list == FlattenSeq([i \in 1..Cardinality(kept) |->
                    Rendered(SetToSeq(kept)[i], normal[SetToSeq(kept)[i]], << >>)])
        tree == (ExtraArgs :> List(list))
                @@ (<<"image", "repository">> :> Leaf(<<"word", 1>>))
                @@ (<<"image", "tag">> :> Leaf(<<"word", 1>>))
                @@ (<<"model", "name">> :> Leaf(<<"word", 1>>))
                @@ (<<"model", "gpus">> :> Leaf(<<"digits", Half * gpus>>))
    IN  [env |-> Over(env, Only(args, EnvKeys)),
         tree |-> IF nodes > 1 THEN (<<"lws", "enabled">> :> Leaf(True))
                                    @@ (<<"lws", "size">> :> Leaf(<<"number", Half * nodes>>)) @@ tree
                  ELSE tree]

(* recipe_for: the campaign's recipe with a config's addresses written in,  *)
(* or the one its fields make; and the cards one launch claims.             *)
FlatItems(d) ==
    LET ks == SetToSeq(DOMAIN d)
    IN  [i \in 1..Len(ks) |-> Address(IF ks[i] \in EnvKeys THEN "env" ELSE "flag",
                                      ks[i], << >>, Scalar(d[ks[i]]))]
NoRecipe == [env |-> EmptyDict, tree |-> EmptyDict]
recipe_for(recipe, d, rest) ==
    IF recipe = NoRecipe THEN apply(from_fields(d, EmptyDict, 1), rest)
    ELSE apply(recipe, FlatItems(d) \o rest)
(* Mutant: the cards counted from the config alone. *)
CardsOfConfig(recipe, d, rest) == cards_used(d)
config_cards(recipe, d, rest) ==
    IF recipe = NoRecipe THEN cards_used(d)
    ELSE total_gpus(apply(recipe, FlatItems(d) \o rest))

(* to_variant takes the image, the served name and the cards out of the     *)
(* values; from_variant puts them back.                                     *)
VariantFields == {<<"image", "repository">>, <<"image", "tag">>, <<"model", "name">>, <<"model", "gpus">>}
to_variant(r) ==
    [image |-> Only(r.tree, {<<"image", "repository">>, <<"image", "tag">>}),
     served |-> Value(r, <<"model", "name">>),
     gpus |-> IntAt(r, <<"model", "gpus">>, 0),
     values |-> Without(r.tree, {p \in DOMAIN r.tree: p[1] = "image" \/ p \in VariantFields}),
     env |-> r.env]
from_variant(v) ==
    [env |-> v.env,
     tree |-> Put((<<"model", "gpus">> :> Leaf(<<"digits", Half * v.gpus>>))
                  @@ (IF Has(v.image, <<"image", "repository">>) THEN v.image ELSE EmptyDict)
                  @@ v.values, <<"model", "name">>, v.served)]

(* merge: maps merge, anything else replaces, null deletes. *)
merge(base, layer) ==
    FoldSet(LAMBDA p, t: IF layer[p] = EmptyMap /\ IsMap(t, p) THEN t
                         ELSE TreeSet(t, p, << >> :> layer[p]), base, DOMAIN layer)

site_layer(site) ==
    Put(Put(Put(EmptyDict, <<"model", "localPath">>, site.path), <<"nodeSelector">>, site.selector),
        <<"image", "repository">>, site.mirror)
run_layer(r) ==
    (<<"replicaCount">> :> Leaf(<<"number", Half>>)) @@ (<<"podLabels">> :> Leaf(<<"word", 9>>))
    @@ (<<"service", "type">> :> Leaf(<<"word", 9>>))
    @@ (IF topology(r) = "lws" THEN <<"lws", "replicas">> :> Leaf(<<"number", Half>>) ELSE EmptyDict)
    @@ (IF topology(r) \in {"lws", "pd"} THEN <<"lws", "restartPolicy">> :> Leaf(<<"word", 9>>) ELSE EmptyDict)
layers(r, site) ==
    <<[name |-> "catalog", values |-> r.tree], [name |-> "site", values |-> site_layer(site)],
      [name |-> "autotune", values |-> run_layer(r)]>>
effective_values(ls) == FoldLeft(LAMBDA t, l: merge(t, l.values), EmptyDict, ls)

(* The LLMService of a run, and a recipe read from one: its catalog layer,  *)
(* or the merge of every layer with the site's own keys left out.           *)
llmservice(r, site) == [layers |-> layers(r, site), env |-> r.env]
from_llmservice(doc) ==
    LET catalog == SelectSeq(doc.layers, LAMBDA l: l.name = "catalog")
        merged == effective_values(doc.layers)
    IN  [env |-> doc.env,
         tree |-> IF catalog # << >> THEN catalog[1].values
                  ELSE Without(merged, {p \in DOMAIN merged:
                           Head(p) \in {"replicaCount", "podLabels", "nodeSelector"}})]
===============================================================================

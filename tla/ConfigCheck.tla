------------------------------ MODULE ConfigCheck ------------------------------
(***************************************************************************)
(* What a config goes through before it is launched: search spaces saved    *)
(* and previewed (api/search_spaces.py), a campaign created from a space    *)
(* and a recipe or drafted from a baseline (campaign_rules.py,             *)
(* campaign_spec.py), a policy's configs checked, launched   *)
(* and reported (api/policy_sessions.py), and a recipe edited by a person   *)
(* beside them (control/recipe).                                            *)
(***************************************************************************)
EXTENDS CampaignDrafts

CONSTANTS
    Names,       \* names a search space is saved under
    Drafts,      \* the spaces an editor may send
    RecipeDocs,  \* the recipes a campaign may be started from
    CardTypes,   \* card types a baseline may be recorded for
    Productions, \* production's engine arguments, as somebody enters them
    Fleets,      \* sets of machines: [gpu_count, gpu_type]
    Proposals,   \* what a policy may propose: [flat, rest]
    EditItems,   \* the addresses a person may write
    Machine,     \* [gpu_count, llmservice]
    Forbidden,   \* the parameters the campaign's settings forbid
    Vocabulary,  \* flags and variables the engine image reads
    EnvUnchecked,\* env_without_vocabulary = "warn"
    ParamType,   \* [key -> "int" | "bool"]: the editor's catalog
    Sorted,      \* every key, in sorted order
    Site,        \* the cluster's half of a launch
    MaxSteps     \* requests in a behaviour, the campaign's creation apart

VARIABLES
    presets,     \* [name -> space]: the saved search spaces
    baselines,   \* [card type -> engine arguments]: production, as recorded
    campaign,    \* the campaign: on, space, recipe
    vocab,       \* the image's vocabulary has been read
    ledger,      \* trials: [config, rest, launched]
    edited,      \* the recipe a person is editing, from the campaign's
    steps        \* requests so far
vars == <<presets, baselines, campaign, vocab, ledger, edited, steps>>

NoSpace == [base |-> EmptyDict, grid |-> << >>, tied |-> << >>, range |-> << >>,
            conditions |-> << >>]
NoCampaign == [on |-> FALSE, space |-> NoSpace, recipe |-> NoRecipe]

Init ==
    /\ presets = << >> /\ baselines = << >>
    /\ campaign = NoCampaign
    /\ vocab = FALSE
    /\ ledger = {}
    /\ edited = NoRecipe
    /\ steps = 0

(***************************************************************************)
(* api/search_spaces.py                                                     *)
(***************************************************************************)
(* catalog.coerce: an editor's string as its parameter's type. *)
coerce_param(k, v) ==
    IF ~Has(ParamType, k) \/ v[1] \in {"bool", "null"} THEN v
    ELSE IF ParamType[k] = "bool" THEN Bool(v \in {<<"digits", Half>>, <<"number", Half>>, <<"boolword", 1>>})
    ELSE IF IsFloat(v) /\ v[2] % Half = 0 THEN <<"number", v[2]>> ELSE v
(* _number: a bound the editor sent as text. *)
number(v) == IF v[1] = "digits" THEN <<"number", v[2]>> ELSE v

Columns(f) == [k \in {x \in DOMAIN f: f[x] # << >>} |->
                  [i \in 1..Len(f[k]) |-> coerce_param(k, f[k][i])]]
normalize_space(d) ==
    [base |-> [k \in DOMAIN d.base |-> coerce_param(k, d.base[k])],
     grid |-> Columns(d.grid),
     tied |-> SelectSeq([i \in 1..Len(d.tied) |-> Columns(d.tied[i])], LAMBDA g: DOMAIN g # {}),
     range |-> [k \in DOMAIN d.range |-> [b \in DOMAIN d.range[k] |-> number(d.range[k][b])]],
     conditions |-> [i \in 1..Len(d.conditions) |->
         <<d.conditions[i][1],
           [g \in DOMAIN d.conditions[i][2] |->
               [j \in 1..Len(d.conditions[i][2][g]) |->
                   coerce_param(g, d.conditions[i][2][g][j])]]>>]]

SaveSpace(n, d) ==
    LET s == normalize_space(d)
    IN  space_errors(s) = {} /\ presets' = (n :> s) @@ presets
Request == steps < MaxSteps /\ steps' = steps + 1
create_space(n, d) ==
    /\ Request
    /\ ~Has(presets, n)
    /\ SaveSpace(n, d)
    /\ UNCHANGED <<baselines, campaign, vocab, ledger, edited>>
update_space(n, d) ==
    /\ Request
    /\ Has(presets, n)
    /\ SaveSpace(n, d)
    /\ UNCHANGED <<baselines, campaign, vocab, ledger, edited>>
delete_space(n) ==
    /\ Request
    /\ Has(presets, n)
    /\ presets' = Without(presets, {n})
    /\ UNCHANGED <<baselines, campaign, vocab, ledger, edited>>

(***************************************************************************)
(* api/baselines.py: one baseline per card type ("" for any).               *)
(***************************************************************************)
create_baseline(card, args, command) ==
    /\ Request
    /\ ~Has(baselines, card)
    /\ baselines' = (card :> config_of(args, command, Sorted)) @@ baselines
    /\ UNCHANGED <<presets, campaign, vocab, ledger, edited>>
(* An update may move the baseline to a card type nobody else has. *)
update_baseline(old, card, args, command) ==
    /\ Request
    /\ Has(baselines, old) /\ ~Has(Without(baselines, {old}), card)
    /\ baselines' = (card :> config_of(args, command, Sorted)) @@ Without(baselines, {old})
    /\ UNCHANGED <<presets, campaign, vocab, ledger, edited>>
delete_baseline(card) ==
    /\ Request
    /\ Has(baselines, card)
    /\ baselines' = Without(baselines, {card})
    /\ UNCHANGED <<presets, campaign, vocab, ledger, edited>>

(***************************************************************************)
(* campaign_rules.py: a campaign is created from a saved space or from one  *)
(* given with it, taken as it is; the recipe may be read from a variant or  *)
(* from an LLMService as well as given.                                     *)
(***************************************************************************)
read_recipe(doc, form) ==
    CASE form = "variant" -> from_variant(to_variant(doc))
      [] form = "llmservice" -> from_llmservice(llmservice(doc, Site))
      [] OTHER -> doc
create_campaign(s, doc, form) ==
    LET recipe == IF doc = NoRecipe THEN doc ELSE read_recipe(doc, form)
    IN  /\ ~campaign.on
        /\ space_errors(s) = {}
        /\ doc # NoRecipe => recipe_problems(recipe) = {}
        /\ campaign' = [on |-> TRUE, space |-> s, recipe |-> recipe]
        /\ edited' = recipe
        /\ UNCHANGED <<presets, baselines, vocab, ledger, steps>>

(* The background read of the image's vocabulary lands. *)
VocabularyRead ==
    /\ campaign.on /\ ~vocab
    /\ vocab' = TRUE
    /\ UNCHANGED <<presets, baselines, campaign, ledger, edited, steps>>

(***************************************************************************)
(* api/policy_sessions.py                                                   *)
(***************************************************************************)
(* Mutant: inactive parameters left in. *)
CanonicalUnpruned(flat, s) == Over(s.base, flat)

(* _canonical: the base merged in, inactive parameters pruned. *)
canonical(flat, s) == prune_inactive(Over(s.base, flat), s)

Flags(d) == Without(d, EnvKeys)
env_vocabulary_problems(d) ==
    IF DOMAIN d \cap EnvKeys = {} THEN {}
    ELSE IF vocab THEN (DOMAIN d \cap EnvKeys) \ Vocabulary
    ELSE IF EnvUnchecked THEN {} ELSE DOMAIN d \cap EnvKeys

(* _config_problems: every reason a launch would be refused, by kind. *)
config_problems_of(p) ==
    LET s == campaign.space
        d == canonical(p.flat, s)
        args == Without(Flags(d), Placement)
        trip == round_trip_problems(Items(args, DOMAIN s.base), args, Sorted)
        anchor == IF campaign.recipe = NoRecipe THEN EmptyDict ELSE recipe_flags(campaign.recipe)
        ctx == [gpu_count |-> Machine.gpu_count, engine |-> "sglang", nodes |-> 1]
    IN  {<<"bad_key", i>>: i \in config_problems(p.rest)}
        \cup (IF p.rest # << >> /\ ~Machine.llmservice THEN {<<"substrate", 0>>} ELSE {})
        \cup {<<"placement", k>>: k \in DOMAIN p.flat \cap Placement}
        \cup {<<"forbidden", k>>: k \in forbidden_hits(d, s, Forbidden, anchor)}
        \cup {<<"round_trip", t[1]>>: t \in trip}
        \cup (IF vocab /\ trip = {}
              THEN {<<"unknown_flag", k>>: k \in {x \in DOMAIN args:
                      \E a \in ToSet(render_args(Only(args, {x}), Sorted)): a[1] \notin Vocabulary}}
              ELSE {})
        \cup {<<"env", t[1]>>: t \in env_problems(d)}
        \cup (IF env_problems(d) # {} THEN {}
              ELSE {<<"unknown_env", k>>: k \in env_vocabulary_problems(d)})
        \cup (IF validate_config(d, ctx) = "ok" THEN {} ELSE {<<"safety", 0>>})
        \cup (IF campaign.recipe # NoRecipe /\ config_problems(p.rest) = {}
              THEN {<<"recipe", x>>: x \in recipe_problems(recipe_for(campaign.recipe, d, p.rest))}
              ELSE {})

(* A launch the check lets through; its trial is the platform's. *)
launch(p) ==
    /\ campaign.on
    /\ Request
    /\ config_problems_of(p) = {}
    /\ ledger' = ledger \cup {[config |-> canonical(p.flat, campaign.space),
                               rest |-> p.rest, launched |-> TRUE]}
    /\ UNCHANGED <<presets, baselines, campaign, vocab, edited>>

(* A measurement the policy claims: the config is canonical, and unchecked. *)
report_trial(p) ==
    /\ campaign.on
    /\ Request
    /\ ledger' = ledger \cup {[config |-> canonical(p.flat, campaign.space),
                               rest |-> p.rest, launched |-> FALSE]}
    /\ UNCHANGED <<presets, baselines, campaign, vocab, edited>>

(* A person writes one more address into the recipe. *)
edit_recipe(item) ==
    /\ campaign.on /\ campaign.recipe # NoRecipe
    /\ Request
    /\ edited' = apply(edited, <<item>>)
    /\ UNCHANGED <<presets, baselines, campaign, vocab, ledger>>

Next ==
    \/ \E n \in Names, d \in Drafts: create_space(n, d) \/ update_space(n, d)
    \/ \E n \in Names: delete_space(n)
    \/ \E s \in Drafts \cup {presets[n]: n \in DOMAIN presets},
          doc \in RecipeDocs \cup {NoRecipe}, form \in {"recipe", "variant", "llmservice"}:
            create_campaign(s, doc, form)
    \/ \E named \in {<< >>} \cup {<<c>>: c \in DOMAIN baselines}, fleet \in Fleets:
            create_campaign(draft_campaign(baselines, named, fleet), NoRecipe, "recipe")
    \/ \E c \in CardTypes, a \in Productions, command \in BOOLEAN:
            \/ create_baseline(c, a, command)
            \/ \E old \in DOMAIN baselines: update_baseline(old, c, a, command)
    \/ \E c \in CardTypes: delete_baseline(c)
    \/ VocabularyRead
    \/ \E p \in Proposals: launch(p) \/ report_trial(p)
    \/ \E item \in EditItems: edit_recipe(item)

Spec == Init /\ [][Next]_vars

(***************************************************************************)
(* Properties.                                                              *)
(***************************************************************************)
Gates(s) == {<<c[1], g>>: c \in ToSet(conditions(s)), g \in UNION {DOMAIN x[2]: x \in ToSet(conditions(s))}}
GatedOn(s) == {e \in Gates(s): \E c \in ToSet(conditions(s)): c[1] = e[1] /\ Has(c[2], e[2])}
(* No parameter's gates lead back to it, through at most two others. *)
Acyclic(s) ==
    /\ \A e \in GatedOn(s): <<e[2], e[1]>> \notin GatedOn(s)
    /\ \A e, f \in GatedOn(s): e[2] = f[1] => <<f[2], e[1]>> \notin GatedOn(s)

(* "so a policy's config hashes the same as the identical config proposed   *)
(* by the platform itself" (policy_sessions.py _canonical): whichever cell  *)
(* of the space a policy proposes, in full or by its swept parameters only, *)
(* lands on that very cell, so a cell the coverage lists as remaining is    *)
(* covered once it is proposed; here for spaces without cyclic conditions.  *)
SameCoordinates ==
    campaign.on /\ Acyclic(campaign.space) =>
        LET s == campaign.space
            tried == {t.config: t \in ledger}
            now == space_coverage(s, tried)
        IN  /\ \A c \in expand(s): canonical(c, s) = c
            /\ \A view \in now.remaining:
                 space_coverage(s, tried \cup {canonical(view, s)}).covered = now.covered + 1

(* Bounds as fine as the step: expanding rounds nothing away. *)
OnTheStep(s) == \A k \in DOMAIN range_specs(s):
    Step(s.range[k]) % Half # 0 \/ Lo(s.range[k]) % Half = 0

(* A cell of the declared space is never called a deviation from it, nor    *)
(* refused as a forbidden change.                                           *)
DeclaredIsAllowed ==
    campaign.on /\ OnTheStep(campaign.space) =>
        \A c \in expand(campaign.space):
            /\ deviations(c, campaign.space) = {}
            /\ forbidden_hits(c, campaign.space, Forbidden, EmptyDict) = {}

(* The cards the engines of a launch use, from the flags they are given:    *)
(* read back from the command line, or as the recipe's lists set them.      *)
EngineCards(t) ==
    LET r == recipe_for(campaign.recipe, t.config, t.rest)
        copies(role) == AtLeastOne(IntAt(r, <<"pd", role, "replicas">>, 1))
    IN  IF campaign.recipe = NoRecipe
        THEN cards_used(Normal(parse_engine_args(render_args(Flags(t.config), Sorted))))
        ELSE IF topology(r) = "pd"
        THEN cards_used(RoleFlags(r, "prefill")) * copies("prefill")
             + cards_used(RoleFlags(r, "decode")) * copies("decode")
        ELSE cards_used(recipe_flags(r))
(* Each flag named once, and no number with a fraction. *)
PlainlySpelled(d) ==
    /\ \A j, k \in DOMAIN d: CanonKey(j) = CanonKey(k) => j = k
    /\ \A k \in DOMAIN d: IsFloat(d[k]) => d[k][2] % Half = 0

(* The cards a launch claims are the cards its engine's flags use, for      *)
(* configs that name each flag once and in whole numbers: config_cards      *)
(* counts them from the config or the recipe's shape, the engine from the   *)
(* command line it is given.                                                *)
PlainCardsAsLaunched ==
    \A t \in ledger: t.launched /\ PlainlySpelled(t.config) =>
        config_cards(campaign.recipe, t.config, t.rest) = EngineCards(t)

(* The config an edited recipe differs by launches that recipe, flag for    *)
(* flag, variable for variable and value for value ("apply(base, diff(base, *)
(* r)) == r", recipe/convert.py), and a campaign started from its published *)
(* variant or its deployed LLMService starts from the same recipe.          *)
RecipeKept ==
    campaign.on =>
        /\ Meaning(apply(campaign.recipe, diff(campaign.recipe, edited))) = Meaning(edited)
        /\ campaign.recipe # NoRecipe =>
             /\ Meaning(read_recipe(edited, "llmservice")) = Meaning(edited)
             /\ IsInt(Value(edited, <<"model", "gpus">>)) =>
                    Meaning(read_recipe(edited, "variant")) = Meaning(edited)
===============================================================================

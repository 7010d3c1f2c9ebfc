---------------------------- MODULE CampaignDrafts ----------------------------
(***************************************************************************)
(* A campaign drafted from what the platform knows (campaign_spec.py): the  *)
(* production config recorded as a baseline (api/baselines.py,              *)
(* control/launch_config.py), the cards of the fleet it would run on, and   *)
(* the example sweeps of the flag catalog.                                  *)
(***************************************************************************)
EXTENDS Recipes

CONSTANTS
    TpParam,            \* the engine's name for its tensor-parallel width
    Starter,            \* tunable parameters with an example sweep: <<key, values>>
    MaxDraftCandidates  \* MAX_DRAFT_CANDIDATES

(* The arguments of a pasted production command, in the catalog's spelling;  *)
(* what the platform places itself is dropped.                              *)
parse_launch_command(command) == Normal(Without(parse_engine_args(command), Placement))

(* _config_of: engine arguments given as fields, or read off a command. *)
config_of(args, command, sorted) ==
    Normal(IF command THEN parse_launch_command(render_args(args, sorted)) ELSE args)

(* resolve_baseline: the reference for exactly this card type, else the one *)
(* for any card ("").  Baselines of one model and engine, by card type.     *)
resolve_baseline(baselines, card_type) ==
    IF Has(baselines, card_type) THEN card_type ELSE ""

(* _card_facts: the smallest machine's cards, and the card type the fleet   *)
(* agrees on.                                                               *)
fleet_cards(fleet) == LET counts == {m.gpu_count: m \in fleet} \ {0}
                      IN  IF fleet = {} THEN 8
                          ELSE IF counts = {} THEN 0
                          ELSE CHOOSE n \in counts: \A c \in counts: n <= c
fleet_type(fleet) == LET types == {m.gpu_type: m \in fleet} \ {""}
                     IN  IF Cardinality(types) = 1 THEN CHOOSE t \in types: TRUE ELSE ""

(* int(production_tp); 0 where there is none, or none that can be read. *)
production_tp(base) ==
    IF ~Has(base, TpParam) THEN 0
    ELSE LET v == base[TpParam]
         IN  IF v[1] = "number" \/ (v[1] = "digits" /\ v[2] % Half = 0) THEN v[2] \div Half
             ELSE IF v[1] = "bool" THEN v[2] ELSE 0

(* _tp_grid: powers of two that fit, production's and its neighbours. *)
tp_grid(cards, tp) ==
    LET widths == SelectSeq(<<1, 2, 4, 8, 16>>, LAMBDA w: cards = 0 \/ w <= cards)
        at == {i \in 1..Len(widths): widths[i] = tp}
    IN  IF at = {} THEN widths
        ELSE LET i == CHOOSE j \in at: TRUE
             IN  SubSeq(widths, IF i = 1 THEN 1 ELSE i - 1, IF i = Len(widths) THEN i ELSE i + 1)

Sizes(grid) == FoldFunction(LAMBDA column, n: n * Len(column), 1, grid)
(* _starter_grid: example sweeps as long as the product stays one night's. *)
starter_grid(widths) ==
    FoldLeft(LAMBDA grid, p:
                 LET trial == (p[1] :> p[2]) @@ grid
                 IN  IF p[1] = TpParam \/ Sizes(trial) > MaxDraftCandidates THEN grid ELSE trial,
             TpParam :> widths, Starter)

(* draft_campaign: the space around the named baseline (<<card type>>), or  *)
(* around the one found for the fleet, if any.                              *)
draft_campaign(baselines, named, fleet) ==
    LET found == IF named # << >> THEN named[1] ELSE resolve_baseline(baselines, fleet_type(fleet))
        known == Has(baselines, found)
        base  == IF known THEN Normal(baselines[found]) ELSE EmptyDict
        widths == tp_grid(fleet_cards(fleet), production_tp(base))
        column == [i \in 1..Len(widths) |-> <<"number", Half * widths[i]>>]
    IN  [base |-> Without(base, {TpParam}),
         grid |-> IF known THEN TpParam :> column ELSE starter_grid(column),
         tied |-> << >>, range |-> EmptyDict, conditions |-> << >>]
===============================================================================

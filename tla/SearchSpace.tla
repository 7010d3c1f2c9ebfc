------------------------------ MODULE SearchSpace ------------------------------
(***************************************************************************)
(* What a search space expands to (control/search/space.py) and what part   *)
(* of it a session searched (control/search/coverage.py).                   *)
(*                                                                         *)
(* A space is a record: base, a dict; grid, [key -> sequence of values];    *)
(* tied, a sequence of such groups; range, [key -> [bound name -> value]];  *)
(* conditions, a sequence of <<key, [gate key -> sequence of values]>> in   *)
(* the order the author declared them.                                      *)
(***************************************************************************)
EXTENDS EngineArgs

CONSTANTS MaxRangeValues, MaxSpaceCandidates

IsNonEmpty(seq) == seq # << >>
SeqHas(seq, P(_)) == \E i \in 1..Len(seq): P(seq[i])
MinLen(group) ==
    CHOOSE n \in {Len(group[k]): k \in DOMAIN group}:
        \A k \in DOMAIN group: n <= Len(group[k])

(* Declared columns, the empty ones left out. *)
grid_values(s) == [k \in {x \in DOMAIN s.grid: IsNonEmpty(s.grid[x])} |-> s.grid[k]]
tied_groups(s) ==
    SelectSeq(s.tied, LAMBDA g: \E k \in DOMAIN g: IsNonEmpty(g[k]))

(* A range the space can use: numeric bounds, a positive step, max >= min. *)
Bounded(spec) == {"min", "max", "step"} \subseteq DOMAIN spec
                 /\ \A b \in {"min", "max", "step"}: IsFloat(spec[b])
Lo(spec) == spec["min"][2]
Hi(spec) == spec["max"][2]
Step(spec) == spec["step"][2]
range_specs(s) ==
    [k \in {x \in DOMAIN s.range: /\ Bounded(s.range[x])
                                  /\ Step(s.range[x]) > 0
                                  /\ Hi(s.range[x]) >= Lo(s.range[x])} |-> s.range[k]]

(* round(): a half goes to the even neighbour.  A whole step keeps no       *)
(* decimal, a half step one.                                                *)
HalfEven(n) == IF n % Half = 0 THEN n ELSE Half * ((n \div Half) + ((n \div Half) % 2))
Rounded(n, spec) == IF Step(spec) % Half = 0 THEN HalfEven(n) ELSE n

(* RangeSpec.values: one value past the limit at most. *)
RangeLen(spec) ==
    LET n == ((Hi(spec) - Lo(spec)) \div Step(spec)) + 1
    IN  IF n > MaxRangeValues + 1 THEN MaxRangeValues + 1 ELSE n
values(spec) ==
    [i \in 1..RangeLen(spec) |-> <<"number", Rounded(Lo(spec) + (i - 1) * Step(spec), spec)>>]

(* prune_inactive: one pass deletes, in the declared order, every parameter *)
(* whose gates are not all there with a value they accept.                  *)
Holds(d, clause) ==
    \A k \in DOMAIN clause: Has(d, k) /\ SeqHas(clause[k], LAMBDA v: Same(d[k], v))
PrunePass(d, conds) ==
    FoldLeft(LAMBDA a, c: IF Has(a, c[1]) /\ ~Holds(a, c[2]) THEN Without(a, {c[1]}) ELSE a,
             d, conds)
conditions(s) == SelectSeq(s.conditions, LAMBDA c: DOMAIN c[2] # {})
PruneRounds(conds) == Len(conds) + 1
prune_inactive(d, s) ==
    LET conds == conditions(s)
        after[i \in 0..PruneRounds(conds)] ==
            IF i = 0 THEN d ELSE PrunePass(after[i - 1], conds)
    IN  after[PruneRounds(conds)]

(* axes: the independent dimensions, each a sequence of partial configs.    *)
ValueAxis(k, column) == [i \in 1..Len(column) |-> k :> column[i]]
TiedAxis(g) == [i \in 1..MinLen(g) |-> [k \in DOMAIN g |-> g[k][i]]]
Column(f, AxisOf(_)) == LET ks == SetToSeq(DOMAIN f) IN [i \in 1..Len(ks) |-> AxisOf(ks[i])]
axes(s) ==
    LET g == grid_values(s)
        r == range_specs(s)
        t == tied_groups(s)
    IN  SelectSeq(Column(g, LAMBDA k: ValueAxis(k, g[k]))
                  \o [i \in 1..Len(t) |-> TiedAxis(t[i])]
                  \o Column(r, LAMBDA k: ValueAxis(k, values(r[k]))),
                  IsNonEmpty)

(* expand: every choice of one part per axis, written over the base in      *)
(* order; equal configs are folded only when the space has conditions.      *)
MaxOf(set, default) == IF set = {} THEN default ELSE CHOOSE n \in set: \A m \in set: m <= n
Combos(ax) == {c \in [1..Len(ax) -> 1..MaxOf({Len(ax[i]): i \in 1..Len(ax)}, 0)]:
                   \A i \in 1..Len(ax): c[i] <= Len(ax[i])}
Merge(s, ax, c) ==
    LET upto[i \in 0..Len(ax)] ==
            IF i = 0 THEN s.base ELSE Over(upto[i - 1], ax[i][c[i]])
    IN  upto[Len(ax)]
expand(s) == LET ax == axes(s) IN {prune_inactive(Merge(s, ax, c), s): c \in Combos(ax)}

axis_product(s) == FoldLeft(LAMBDA n, a: n * Len(a), 1, axes(s))
too_large(s) == axis_product(s) > MaxSpaceCandidates

TiedKeys(s) == UNION {DOMAIN tied_groups(s)[i]: i \in 1..Len(tied_groups(s))}
swept_keys(s) == DOMAIN grid_values(s) \cup TiedKeys(s) \cup DOMAIN range_specs(s)

(* Every value a grid or tied column declares for a key. *)
DeclaredFor(s, k) ==
    LET g == grid_values(s)
        t == tied_groups(s)
    IN  (IF Has(g, k) THEN ToSet(g[k]) ELSE {})
        \cup UNION {IF Has(t[i], k) THEN ToSet(t[i][k]) ELSE {}: i \in 1..Len(t)}

(* deviations: where a config steps outside the declared space. *)
deviations(d, s) ==
    LET r == range_specs(s)
        gated == {c[1]: c \in ToSet(conditions(s))}
        pruned == prune_inactive(d, s)
        columns == DOMAIN grid_values(s) \cup TiedKeys(s)
        kind(k) ==
            CASE k \in gated /\ ~Has(pruned, k) -> "conditional_violation"
              [] k \in columns ->
                    IF \E v \in DeclaredFor(s, k): Same(d[k], v) THEN "" ELSE "off_grid"
              [] Has(r, k) ->
                    IF ~IsFloat(d[k]) \/ d[k][2] < Lo(r[k]) \/ d[k][2] > Hi(r[k])
                    THEN "out_of_range"
                    ELSE IF SeqHas(values(r[k]), LAMBDA v: Same(d[k], v)) THEN ""
                    ELSE "off_grid"
              [] Has(s.base, k) -> IF Same(d[k], s.base[k]) THEN "" ELSE "base_override"
              [] k \in gated -> ""
              [] OTHER -> "unknown"
    IN  {<<k, kind(k)>>: k \in {x \in DOMAIN d: kind(x) # ""}}

(* Mutant: a swept parameter is no exception. *)
ForbiddenThoughSwept(d, s, patterns, anchor) ==
    LET base == normalize_args(Items(Over(anchor, s.base), DOMAIN anchor))
        normal == normalize_args(Items(d, DOMAIN s.base))
    IN  {k \in DOMAIN normal \cap patterns: ~(Has(base, k) /\ Same(normal[k], base[k]))}

(* forbidden_hits: forbidden parameters a config changes. *)
forbidden_hits(d, s, patterns, anchor) ==
    LET base == normalize_args(Items(Over(anchor, s.base), DOMAIN anchor))
        swept == {CanonKey(k): k \in swept_keys(s)}
        normal == normalize_args(Items(d, DOMAIN s.base))
    IN  {k \in (DOMAIN normal \ swept) \cap patterns:
            ~(Has(base, k) /\ Same(normal[k], base[k]))}

(* space_errors, each named by what is wrong with it. *)
TiedErrors(s) ==
    LET t == tied_groups(s)
        filled(g) == {k \in DOMAIN g: IsNonEmpty(g[k])}
        before(i) == DOMAIN grid_values(s) \cup UNION {filled(t[j]): j \in 1..(i - 1)}
    IN  {<<i, "few">>: i \in {x \in 1..Len(t): Cardinality(filled(t[x])) < 2}}
        \cup {<<i, "lengths">>:
                i \in {x \in 1..Len(t):
                         Cardinality({Len(t[x][k]): k \in filled(t[x])}) > 1}}
        \cup {<<i, "twice">>: i \in {x \in 1..Len(t): filled(t[x]) \cap before(x) # {}}}
SeenColumns(s) ==
    DOMAIN grid_values(s)
    \cup UNION {{k \in DOMAIN g: IsNonEmpty(g[k])}: g \in ToSet(tied_groups(s))}
range_errors(s) ==
    {k \in DOMAIN s.range:
        \/ ~Has(range_specs(s), k)
        \/ RangeLen(s.range[k]) > MaxRangeValues
        \/ k \in SeenColumns(s)}
condition_errors(s) ==
    LET known == SeenColumns(s) \cup DOMAIN range_specs(s) \cup DOMAIN s.base
    IN  {i \in 1..Len(conditions(s)):
            LET c == conditions(s)[i]
            IN  \/ c[1] \notin known
                \/ \E k \in DOMAIN c[2]: k = c[1] \/ k \notin known \/ c[2][k] = << >>}
space_errors(s) ==
    TiedErrors(s) \cup {<<k, "range">>: k \in range_errors(s)}
    \cup {<<i, "condition">>: i \in condition_errors(s)}
    \cup (IF too_large(s) THEN {<<0, "size">>} ELSE {})

(* space_coverage: cells the ledger's trials reached, trials outside the    *)
(* declared cells, cells left, and the axis values some trial took.         *)
space_coverage(s, trials) ==
    LET cells == IF too_large(s) THEN {} ELSE expand(s)
        column(k) == DeclaredFor(s, k)
                     \cup (IF Has(range_specs(s), k) THEN ToSet(values(range_specs(s)[k])) ELSE {})
    IN  [total |-> Cardinality(cells),
         covered |-> Cardinality(cells \cap trials),
         off_space |-> IF too_large(s) THEN 0 ELSE Cardinality(trials \ cells),
         remaining |-> {Only(c, swept_keys(s)): c \in cells \ trials},
         taken |-> [k \in swept_keys(s) |->
                      {v \in column(k): \E t \in trials: Has(t, k) /\ Same(t[k], v)}]]
===============================================================================

------------------------------ MODULE EngineArgs ------------------------------
(***************************************************************************)
(* The flags of an engine: values as configs hold them, the flag catalog    *)
(* (control/engines/flags.py), the command line a config renders to and the *)
(* config a command line reads back as (engines/base.py, engine_command.py),*)
(* and the static checks every config faces (search/validation.py).         *)
(*                                                                         *)
(* A value is <<kind, n>>.  Numbers are counted in halves, so <<"number",3>>*)
(* is 1.5 and <<"digits", 3>> the text "1.5"; <<"bool", 1>> is True and     *)
(* <<"boolword", 1>> the text "true"; <<"word", 0>> is the empty text and   *)
(* <<"dashed", n>> a text that begins with two dashes.  A dict is a         *)
(* function on the keys it holds.                                           *)
(***************************************************************************)
EXTENDS Integers, Sequences, FiniteSets, SequencesExt, TLC

CONSTANTS
    Canon,      \* [spelling -> key]: the aliases of the catalog
    Switch,     \* keys of kind "switch"
    NoForm,     \* [key read from --no-<flag> -> the flag's key]
    Negatable,  \* keys whose switch has a --no- form
    Placement,  \* PLACEMENT_FLAGS: the platform's own flags
    EnvKeys,    \* keys spelled env.<NAME>
    PlacementEnv, \* those of them that are placement or credentials
    Malformed   \* keys that are not flag names

Half == 2
Bool(b) == <<"bool", IF b THEN 1 ELSE 0>>
True == Bool(TRUE)
False == Bool(FALSE)
Empty == <<"word", 0>>
Null == <<"null", 0>>
Bare == <<"bare", 0>>

(* _as_float: what reads as a number. *)
IsFloat(v) == v[1] \in {"number", "digits"}

(* _same_value.  Python's == already makes True equal to 1. *)
Same(a, b) ==
    \/ a = b
    \/ /\ a[2] = b[2]
       /\ {a[1], b[1]} \in {{"bool", "boolword"}, {"number", "digits"}}
    \/ a[1] = "bool" /\ b = <<"number", Half * a[2]>>
    \/ b[1] = "bool" /\ a = <<"number", Half * b[2]>>

(* str(value), as a command line carries it. *)
Str(v) == IF v[1] = "number" THEN <<"digits", v[2]>> ELSE v

Has(d, k) == k \in DOMAIN d
Without(d, ks) == [k \in DOMAIN d \ ks |-> d[k]]
Only(d, ks) == [k \in DOMAIN d \cap ks |-> d[k]]
Over(d, e) == e @@ d                        \* {**d, **e}
EmptyDict == [k \in {} |-> Null]

CanonKey(k) == IF Has(Canon, k) THEN Canon[k] ELSE k

(* One entry of normalize_args: aliases folded, --no-<switch> as False, and *)
(* a switch's word read as a boolean.                                       *)
NormalItem(k, v) ==
    LET c == CanonKey(k)
        negated == Has(NoForm, c) /\ v = True /\ NoForm[c] \in Switch
        key == IF negated THEN NoForm[c] ELSE c
        val == IF negated THEN False ELSE v
    IN  <<key,
          IF key \notin Switch THEN val
          ELSE IF val \in {Empty, <<"boolword", 1>>, <<"digits", Half>>} THEN True
          ELSE IF val \in {<<"boolword", 0>>, <<"digits", 0>>} THEN False
          ELSE val>>

(* normalize_args over a dict's items in their order: the later of two      *)
(* spellings of one flag wins.                                              *)
normalize_args(items) ==
    FoldLeft(LAMBDA out, it: LET n == NormalItem(it[1], it[2])
                             IN  (n[1] :> n[2]) @@ out,
             EmptyDict, items)

(* A merged dict keeps the order of its first part's keys. *)
Items(d, first) ==
    LET keys == SetToSeq(DOMAIN d \cap first) \o SetToSeq(DOMAIN d \ first)
    IN  [i \in 1..Len(keys) |-> <<keys[i], d[keys[i]]>>]

Normal(d) == normalize_args(Items(d, {}))

(* negated_flag: how "off" is spelled, or nothing. *)
NoKey(k) == CHOOSE n \in DOMAIN NoForm: NoForm[n] = k

(* render_args: an env key is no argument, a true switch is a bare flag, a  *)
(* false one its --no- form if it has one, anything else the flag and its   *)
(* text.  The items come sorted by key.                                     *)
RenderItem(it) ==
    LET k == CanonKey(it[1])
    IN  IF it[1] \in EnvKeys THEN << >>
        ELSE IF it[2] = True THEN <<<<k, Bare>>>>
        ELSE IF it[2] = False
             THEN IF k \in Negatable THEN <<<<NoKey(k), Bare>>>> ELSE << >>
        ELSE <<<<k, Str(it[2])>>>>
render_args(d, sorted) ==
    FlattenSeq([i \in 1..Len(sorted) |->
        IF Has(d, sorted[i]) THEN RenderItem(<<sorted[i], d[sorted[i]]>>)
                             ELSE << >>])

(* parse_engine_args: the last of a repeated flag stays. *)
parse_engine_args(argv) ==
    FoldLeft(LAMBDA out, a: (a[1] :> (IF a[2] = Bare THEN True ELSE a[2])) @@ out,
             EmptyDict, argv)
ParsedItems(d) == Items(d, {})

(* Entries no command line can carry, by key. *)
Unrenderable(d) ==
    {<<k, "bad_key">>: k \in DOMAIN d \cap Malformed}
    \cup {<<k, "not_renderable">>:
            k \in {x \in DOMAIN d \ Malformed: d[x] \in {Null, Empty} \/ d[x][1] = "dashed"}}

(* round_trip_problems: what would not come back from the command line. *)
round_trip_problems(items, d, sorted) ==
    IF Unrenderable(d) # {} THEN Unrenderable(d)
    ELSE LET parsed == normalize_args(ParsedItems(parse_engine_args(render_args(d, sorted))))
             expected == normalize_args(items)
             back(k) == IF Has(parsed, k) THEN parsed[k] ELSE Null
             ok(k) == IF expected[k][1] = "bool"
                      THEN \/ back(k) = expected[k]
                           \/ expected[k] = False /\ back(k) = Null
                      ELSE back(k) # Null /\ Str(back(k)) = Str(expected[k])
         IN  {<<k, "round_trip">>: k \in {x \in DOMAIN expected: ~ok(x)}}
             \cup {<<k, "round_trip">>: k \in DOMAIN parsed \ DOMAIN expected}

(* env_problems: the variables a config may not set. *)
env_problems(d) ==
    {<<k, "placement">>: k \in DOMAIN d \cap PlacementEnv}
    \cup {<<k, "not_renderable">>:
            k \in {x \in (DOMAIN d \cap EnvKeys) \ PlacementEnv: d[x] \in {Null, Empty}}}

(***************************************************************************)
(* search/validation.py                                                     *)
(***************************************************************************)
TpKeys == <<"tp", "tp_size">>
DpKeys == <<"dp">>
PpKeys == <<"pp">>
EpKeys == <<"ep">>
DpAttentionKeys == <<"dpa">>

(* _int_or_none: int() cuts a number's fraction off, and refuses a text     *)
(* that has one.                                                            *)
IsInt(v) == v[1] = "number" \/ (v[1] = "digits" /\ v[2] % Half = 0)
IntOf(v) == v[2] \div Half

(* The first spelling present decides. *)
First(d, keys) == SelectSeq(keys, LAMBDA k: Has(d, k))
first_int(d, keys, default) ==
    LET p == First(d, keys)
    IN  IF p # << >> /\ IsInt(d[p[1]]) THEN IntOf(d[p[1]]) ELSE default
flag_on(d, keys) ==
    LET p == First(d, keys)
    IN  p # << >> /\ d[p[1]] \notin
            {Empty, <<"boolword", 0>>, <<"digits", 0>>, False, <<"number", 0>>, Null}

AtLeastOne(n) == IF n < 1 THEN 1 ELSE n
Degree(d, keys) == AtLeastOne(first_int(d, keys, 1))

(* cards_used: replicas multiply, except inside dp attention. *)
cards_used(d) ==
    LET tp == Degree(d, TpKeys)
        pp == Degree(d, PpKeys)
    IN  IF flag_on(d, DpAttentionKeys) THEN tp * pp
        ELSE tp * Degree(d, DpKeys) * pp

(* CHECKS, in their order; each holds when it objects. *)
BadInts(d) ==
    \E k \in {"tp", "tp_size", "dp", "pp", "ep", "reqs"} \cap DOMAIN d:
        ~IsInt(d[k]) \/ IntOf(d[k]) < 1
DpDoesNotDivide(d) ==
    flag_on(d, DpAttentionKeys) /\ Degree(d, TpKeys) % Degree(d, DpKeys) # 0
TooWide(d, ctx) == ctx.gpu_count > 0 /\ cards_used(d) > ctx.gpu_count
Uneven(d, ctx) ==
    ctx.nodes > 1 /\ (ctx.engine # "sglang" \/ cards_used(d) % ctx.nodes # 0)
TooManyExperts(d) == First(d, EpKeys) # << >> /\ first_int(d, EpKeys, 1) > cards_used(d)
(* 0.1 .. 0.99 holds one half and no other half. *)
BadMemory(d) == Has(d, "mem") /\ d["mem"] # Null /\ ~(IsFloat(d["mem"]) /\ d["mem"][2] = 1)

validate_config(d, ctx) ==
    CASE env_problems(d) # {} -> "env"
      [] BadInts(d) -> "ints"
      [] DpDoesNotDivide(d) -> "dp_attention"
      [] TooWide(d, ctx) -> "cards"
      [] Uneven(d, ctx) -> "nodes"
      [] TooManyExperts(d) -> "experts"
      [] BadMemory(d) -> "memory"
      [] OTHER -> "ok"
===============================================================================

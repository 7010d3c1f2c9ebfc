----------------------------- MODULE MCConfigCheck -----------------------------
(* A small catalog, the spaces an author might declare (with conditions in  *)
(* the order that needs a second pass, tied columns, half steps, two        *)
(* spellings of one flag, and some the rules refuse), and recipes of one    *)
(* pod and of prefill and decode roles.                                     *)
EXTENDS ConfigCheck

N(n) == <<"number", Half * n>>
T(n) == <<"digits", Half * n>>
W(n) == <<"word", n>>
H(n) == <<"number", n>>

MCCanon == [k \in {"tp", "tp_size", "dp", "dpa", "mm", "mem"} |-> IF k = "tp_size" THEN "tp" ELSE k]
MCSwitch == {"dpa", "mm"}
MCNoForm == [no_mm |-> "mm", no_dpa |-> "dpa"]
MCNegatable == {"mm"}
MCPlacement == {"port"}
MCEnvKeys == {"env.A", "env.HOST"}
MCPlacementEnv == {"env.HOST"}
MCMalformed == {"Bad-Key"}
MCSorted == <<"Bad-Key", "a", "b", "c", "dp", "dpa", "mem", "mm", "no_mm", "port", "tp", "tp_size">>
MCParamType == [tp |-> "int", dp |-> "int", dpa |-> "bool"]
MCForbidden == {"c", "mem"}
MCVocabulary == {"a", "b", "c", "tp", "tp_size", "dp", "dpa", "mm", "no_mm", "env.A"}
MCMachine == [gpu_count |-> 4, llmservice |-> TRUE]
MCSite == [path |-> W(1), selector |-> W(2), mirror |-> W(3)]

Space(base, grid, tied, range, conds) ==
    [base |-> base, grid |-> grid, tied |-> tied, range |-> range, conditions |-> conds]
None == EmptyDict
MCDrafts == {
    \* a chain of conditions declared from its far end
    Space([c |-> N(1)], [a |-> <<N(1), T(2)>>, b |-> <<N(1), N(2)>>], << >>, None,
          <<<<"c", [b |-> <<N(2)>>]>>, <<"b", [a |-> <<N(1)>>]>>>>),
    \* two parameters that gate each other
    Space([a |-> N(1), b |-> N(1)], [a |-> <<N(1), N(2)>>], << >>, None,
          <<<<"a", [b |-> <<N(1)>>]>>, <<"b", [a |-> <<N(1)>>]>>>>),
    \* tied columns, and a switch spelled as text
    Space([dpa |-> <<"boolword", 0>>], None, <<[tp |-> <<T(1), T(2)>>, dp |-> <<T(2), T(1)>>]>>,
          None, << >>),
    \* a range in halves, a range of whole steps from a half, a base flag spelled twice
    Space(None, None, << >>, [mem |-> [min |-> H(1), max |-> H(2), step |-> H(1)]], << >>),
    Space(None, None, << >>, [a |-> [min |-> H(3), max |-> H(7), step |-> N(1)]], << >>),
    Space([tp |-> N(1)], [tp_size |-> <<N(1), N(4)>>], << >>, None, << >>),
    \* refused: tied to itself, too long, gated on nothing
    Space(None, [a |-> <<N(1)>>], <<[a |-> <<N(1)>>, b |-> <<N(1), N(2)>>]>>, None, << >>),
    Space(None, None, << >>, [a |-> [min |-> N(1), max |-> N(9), step |-> N(1)]], << >>),
    Space([a |-> N(1)], None, << >>, None, <<<<"a", [b |-> << >>]>>>>)}

Image == (<<"image", "repository">> :> Leaf(W(1))) @@ (<<"image", "tag">> :> Leaf(W(1)))
         @@ (<<"model", "name">> :> Leaf(W(1)))
OnePod == [env |-> [A |-> W(1)],
           tree |-> (ExtraArgs :> List(<<<<"tp_size", T(2)>>, <<"mm", Bare>>>>))
                    @@ (<<"model", "gpus">> :> Leaf(T(2))) @@ (<<"x", "y">> :> Leaf(W(1))) @@ Image]
Disaggregated ==
    [env |-> EmptyDict,
     tree |-> (ExtraArgs :> List(<< >>)) @@ (RoleArgs("prefill") :> List(<<<<"tp", T(2)>>>>))
              @@ (<<"pd", "enabled">> :> Leaf(True))
              @@ (<<"pd", "prefill", "gpus">> :> Leaf(N(2))) @@ (<<"pd", "decode", "gpus">> :> Leaf(N(1)))
              @@ (<<"model", "gpus">> :> Leaf(T(2))) @@ Image]
\* Production in two spellings, wider than its machine, and with the platform's port.
MCCardTypes == {"", "H"}
MCProductions == {[tp_size |-> T(2), mm |-> <<"boolword", 1>>], [tp |-> N(4), dp |-> N(2), port |-> N(1)]}
MCFleets == {{}, {[gpu_count |-> 4, gpu_type |-> "H"]},
             {[gpu_count |-> 2, gpu_type |-> "H"], [gpu_count |-> 0, gpu_type |-> "L"]}}
MCStarter == <<<<"tp", <<N(1)>>>>, <<"mem", <<H(1), N(1)>>>>, <<"a", <<N(1), N(2)>>>>>>

MCRecipeDocs == {OnePod, Disaggregated}

Flat(d) == [flat |-> d, rest |-> << >>]
MCProposals == {
    Flat([a |-> N(1), b |-> N(2)]), Flat([a |-> N(2)]), Flat([tp |-> T(2), dp |-> N(2)]),
    Flat([tp_size |-> N(4)]), Flat([tp |-> H(5)]), Flat([tp |-> N(2), dpa |-> True, dp |-> N(2)]),
    Flat([mm |-> False]), Flat([no_mm |-> True]), Flat([dpa |-> W(0)]), Flat([port |-> N(1)]),
    Flat("env.A" :> N(1)), Flat("env.HOST" :> N(1)), Flat("Bad-Key" :> N(1)),
    [flat |-> [tp |-> N(4)], rest |-> <<Address("value", "", <<"model", "gpus">>, Scalar(T(4)))>>],
    [flat |-> None, rest |-> <<Address("value", "", <<"podLabels">>, Scalar(W(1)))>>]}

MCEditItems == {
    Address("flag", "tp", << >>, Scalar(N(4))), Address("flag", "tp_size", << >>, Scalar(Null)),
    Address("flag", "mm", << >>, Scalar(False)), Address("prefill", "tp", << >>, Scalar(Null)),
    Address("decode", "dpa", << >>, Scalar(True)), Address("env", "A", << >>, Scalar(Null)),
    Address("value", "", <<"pd">>, << >> :> Removal), Address("value", "", <<"x">>, Scalar(W(2))),
    Address("value", "", <<"x", "y">>, << >> :> Removal),
    Address("value", "", <<"x", "z", "w">>, Scalar(N(1))),
    Address("value", "", <<"model", "gpus">>, Scalar(T(4)))}
===============================================================================
